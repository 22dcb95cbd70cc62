------------------------- MODULE BatchedStreamProofs -------------------------
(***************************************************************************)
(* The result of a data request whose plan keeps the order of a source     *)
(* with batch indices, for any number of tasks, threads, batches and       *)
(* chunks; and, with ResultStreamProofs, of the two other plans too.       *)
(*                                                                         *)
(* The argument.  What the tasks have appended is told from their places:  *)
(* pos chunks of the batch a task is at, all of a batch that was handed    *)
(* out and is at no task any more (given).  No task, and not the buffer,   *)
(* takes more for the least registered batch than it is, and one task      *)
(* knows it (LeastKnown); so no task is at a batch below the buffer's      *)
(* minimum, and given is whole there.  What was delivered and what is in   *)
(* the read queue is given up to the minimum, one batch after the other;   *)
(* behind it each batch waits in its buffer (ChunksInOrder).  An update of *)
(* the minimum moves chunks from the second place to the end of the first. *)
(* When all tasks are done the minimum is behind the last batch, and the   *)
(* client stops fetching only then (BatchedOver): the steps are those of   *)
(* ChunkStream.                                                            *)
(*                                                                         *)
(* That the chunks that wait stay bounded is counted with the tasks that   *)
(* have been let in (RoomLeft): the one that knows the least batch is at   *)
(* it or at none, so that it is not among them (OneStaysOut).              *)
(*                                                                         *)
(* The client spins under the buffer's lock for the tasks it wakes.  They  *)
(* come: a registered sink's task sleeps or is about to (BlockedPlaces),   *)
(* and a cancelled query is not fetched from (CancelKnown).                *)
(*                                                                         *)
(* Induction over the batches is by the least counterexample (HasLeast).   *)
(***************************************************************************)
EXTENDS ResultStreamProofs, SequenceTheorems

-----------------------------------------------------------------------------
(***************************************************************************)
(* FlattenSeq.                                                             *)
(***************************************************************************)

\* One sequence behind another.
LEMMA Joined ==
  ASSUME NEW S, NEW s \in Seq(S), NEW t \in Seq(S)
  PROVE  /\ s \o t \in Seq(S) /\ Len(s \o t) = Len(s) + Len(t)
         /\ Len(s) \in Nat /\ Len(t) \in Nat
         /\ \A i \in 1..Len(s) : (s \o t)[i] = s[i]
         /\ \A k \in 1..Len(t) : (s \o t)[Len(s) + k] = t[k]
  OBVIOUS

\* FlattenSeq of the first n of the sequences in q.
FlatTo(q, n) == Batched!FlattenSeq([b \in 1..n |-> q[b]])

\* The partial results of FlattenSeq.
Joins(q, n, f) == f[0] = <<>> /\ \A i \in 1..n : f[i] = f[i - 1] \o q[i]

LEMMA JoinsExist ==
  ASSUME NEW S, NEW N \in Nat, NEW q \in [1..N -> Seq(S)], NEW n \in 0..N
  PROVE  \E f \in [0..n -> Seq(S)] : Joins(q, n, f)
  <1> DEFINE Ok(k) == \E f \in [0..k -> Seq(S)] : Joins(q, k, f)
             Left == {k \in Nat : k <= N /\ ~Ok(k)}
  <1>1. Left = {}
    <2> SUFFICES ASSUME Left # {}
                 PROVE  FALSE
      OBVIOUS
    <2>1. PICK k \in Left : \A j \in Left : k <= j
      BY HasLeast
    <2>2. CASE k = 0
      <3>1. [i \in 0..0 |-> <<>>] \in [0..0 -> Seq(S)] /\ Joins(q, 0, [i \in 0..0 |-> <<>>])
        BY DEF Joins
      <3> QED
        BY <2>1, <2>2, <3>1
    <2>3. CASE k # 0
      <3>0. k \in Nat /\ k <= N
        BY <2>1
      <3>1. k - 1 \in Nat /\ k - 1 < k /\ k - 1 <= N /\ k \in 1..N
        BY <2>3, <3>0
      <3>2. Ok(k - 1)
        <4> HIDE DEF Ok
        <4> QED
          BY <2>1, <3>0, <3>1
      <3>3. PICK f \in [0..k - 1 -> Seq(S)] : Joins(q, k - 1, f)
        BY <3>2
      <3>4. PICK x \in Seq(S) : x = f[k - 1] \o q[k]
        <4>1. f[k - 1] \in Seq(S) /\ q[k] \in Seq(S)
          BY <3>1
        <4>2. f[k - 1] \o q[k] \in Seq(S)
          BY <4>1, Joined
        <4> QED
          BY <4>2
      <3>5. PICK g : g = [i \in 0..k |-> IF i = k THEN x ELSE f[i]]
        OBVIOUS
      <3>6. /\ \A i \in 0..k - 1 : g[i] = f[i]
            /\ g[k] = x
            /\ g \in [0..k -> Seq(S)]
        BY <3>1, <3>4, <3>5
      <3>7. \A i \in 1..k : i = k \/ (i \in 1..k - 1 /\ i \in 0..k - 1 /\ i - 1 \in 0..k - 1)
        BY <3>1
      <3>8. k - 1 \in 0..k - 1 /\ 0 \in 0..k - 1
        BY <3>1
      <3>9. Joins(q, k, g)
        BY <3>3, <3>4, <3>6, <3>7, <3>8 DEF Joins
      <3> QED
        BY <2>1, <3>6, <3>9
    <2> QED
      BY <2>2, <2>3
  <1>2. n \in Nat /\ n <= N
    OBVIOUS
  <1> QED
    BY <1>1, <1>2

LEMMA JoinsSame ==
  ASSUME NEW q, NEW n \in Nat, NEW f, NEW g, Joins(q, n, f), Joins(q, n, g)
  PROVE  f[n] = g[n]
  <1> DEFINE Left == {k \in Nat : k <= n /\ f[k] # g[k]}
  <1>1. Left = {}
    <2> SUFFICES ASSUME Left # {}
                 PROVE  FALSE
      OBVIOUS
    <2>1. PICK k \in Left : \A j \in Left : k <= j
      BY HasLeast
    <2>2. k # 0 /\ k \in 1..n
      BY <2>1 DEF Joins
    <2>3. f[k - 1] = g[k - 1]
      BY <2>1, <2>2
    <2> QED
      BY <2>1, <2>2, <2>3 DEF Joins
  <1> QED
    BY <1>1

LEMMA FlatIsJoined ==
  ASSUME NEW S, NEW N \in Nat, NEW q \in [1..N -> Seq(S)], NEW n \in 0..N, NEW f, Joins(q, n, f)
  PROVE  FlatTo(q, n) = f[n]
  <1>1. CASE n = 0
    <2>1. [b \in 1..n |-> q[b]] = <<>>
      BY <1>1
    <2>2. Batched!FlattenSeq(<<>>) = <<>>
      BY DEF Batched!FlattenSeq
    <2> QED
      BY <1>1, <2>1, <2>2 DEF FlatTo, Joins
  <1>2. CASE n # 0
    <2>0. n \in Nat \ {0} /\ n <= N
      BY <1>2
    <2>a. PICK p : p = [b \in 1..n |-> q[b]]
      OBVIOUS
    <2>1. /\ p \in [1..n -> Seq(S)] /\ p = [b \in 1..n |-> p[b]]
          /\ \A i \in 1..n : p[i] = q[i]
          /\ 1 \in 1..n
      BY <2>0, <2>a
    <2>b. p \in Seq(Seq(S)) /\ Len(p) = n
      <3> DEFINE T == Seq(S)
      <3>1. p \in [1..n -> T]
        BY <2>1
      <3> HIDE DEF T
      <3>2. p \in Seq(T) /\ Len(p) = n
        BY <2>0, <3>1
      <3> QED
        BY <3>2 DEF T
    <2>2. PICK g : g = [i \in 1..n |-> f[i]]
      OBVIOUS
    <2>3. \A i \in 1..n : <<>> \o p[i] = p[i]
      <3> TAKE i \in 1..n
      <3>1. p[i] \in Seq(S)
        BY <2>1
      <3> QED
        BY <3>1
    <2>4. g = [i \in 1..Len(p) |-> IF i = 1 THEN p[i] ELSE g[i - 1] \o p[i]]
      <3>1. \A i \in 1..n : g[i] = IF i = 1 THEN p[i] ELSE g[i - 1] \o p[i]
        <4> TAKE i \in 1..n
        <4>1. f[i] = f[i - 1] \o p[i] /\ f[0] = <<>>
          BY <2>1 DEF Joins
        <4>2. CASE i = 1
          <5>1. i - 1 = 0 /\ g[i] = f[i]
            BY <2>2, <4>2
          <5>2. f[i] = <<>> \o p[i]
            BY <4>1, <5>1
          <5> QED
            BY <2>3, <4>2, <5>1, <5>2
        <4>3. CASE i # 1
          <5>1. i - 1 \in 1..n
            BY <2>0, <4>3
          <5> QED
            BY <2>2, <4>1, <4>3, <5>1
        <4> QED
          BY <4>2, <4>3
      <3> QED
        BY <2>b, <2>2, <3>1
    <2> DEFINE h == CHOOSE x : x = [i \in 1..Len(p) |-> IF i = 1 THEN p[i] ELSE x[i - 1] \o p[i]]
    <2>5. h = [i \in 1..Len(p) |-> IF i = 1 THEN p[i] ELSE h[i - 1] \o p[i]]
      BY <2>4
    <2>6. Batched!FlattenSeq(p) = h[Len(p)]
      BY <2>0, <2>b DEF Batched!FlattenSeq
    <2> HIDE DEF h
    <2>7. PICK k : k = [i \in 0..n |-> IF i = 0 THEN <<>> ELSE h[i]]
      OBVIOUS
    <2>8. Joins(q, n, k)
      <3>0. 0 \in 0..n /\ k[0] = <<>>
        BY <2>0, <2>7
      <3>1. \A i \in 1..n : k[i] = k[i - 1] \o q[i]
        <4> TAKE i \in 1..n
        <4>1. k[i] = h[i] /\ h[i] = IF i = 1 THEN p[i] ELSE h[i - 1] \o p[i]
          <5>1. i \in 0..n /\ i # 0 /\ i \in 1..Len(p)
            BY <2>0, <2>b
          <5>2. k[i] = h[i]
            BY <2>7, <5>1
          <5> HIDE DEF h
          <5>3. PICK H : H = h
            OBVIOUS
          <5>4. H = [j \in 1..Len(p) |-> IF j = 1 THEN p[j] ELSE H[j - 1] \o p[j]]
            BY <2>5, <5>3
          <5>5. H[i] = IF i = 1 THEN p[i] ELSE H[i - 1] \o p[i]
            BY <5>1, <5>4
          <5> QED
            BY <5>2, <5>3, <5>5
        <4>2. CASE i = 1
          <5>1. i - 1 = 0 /\ k[i - 1] = <<>> /\ k[i] = p[i] /\ q[i] = p[i]
            BY <2>1, <3>0, <4>1, <4>2
          <5> QED
            BY <2>3, <5>1
        <4>3. CASE i # 1
          <5>1. i - 1 \in 0..n /\ i - 1 # 0
            BY <2>0, <4>3
          <5> QED
            BY <2>1, <2>7, <4>1, <4>3, <5>1
        <4> QED
          BY <4>2, <4>3
      <3> QED
        BY <3>0, <3>1 DEF Joins
    <2>9. k[n] = f[n]
      BY <2>0, <2>8, JoinsSame
    <2>10. k[n] = h[n]
      BY <2>0, <2>7
    <2> QED
      BY <2>a, <2>b, <2>6, <2>9, <2>10 DEF FlatTo
  <1> QED
    BY <1>1, <1>2

\* FlattenSeq, a sequence at a time.
LEMMA FlatStep ==
  ASSUME NEW S, NEW N \in Nat, NEW q \in [1..N -> Seq(S)], NEW n \in 0..N
  PROVE  /\ FlatTo(q, n) \in Seq(S)
         /\ n = 0 => FlatTo(q, n) = <<>>
         /\ n # 0 => FlatTo(q, n) = FlatTo(q, n - 1) \o q[n]
  <1>1. PICK f \in [0..n -> Seq(S)] : Joins(q, n, f)
    BY JoinsExist
  <1>2. FlatTo(q, n) = f[n] /\ n \in Nat /\ n \in 0..n
    BY <1>1, FlatIsJoined
  <1>3. ASSUME n # 0 PROVE FlatTo(q, n - 1) = f[n - 1] /\ n \in 1..n
    <2>1. n - 1 \in 0..N /\ (\A i \in 1..n - 1 : i \in 1..n) /\ n \in 1..n
      BY <1>3
    <2>2. Joins(q, n - 1, f)
      BY <1>1, <2>1 DEF Joins
    <2> QED
      BY ZenonT(60), <2>1, <2>2, FlatIsJoined
  <1> QED
    BY <1>1, <1>2, <1>3 DEF Joins

LEMMA FlatSteps ==
  ASSUME NEW S, NEW N \in Nat, NEW q \in [1..N -> Seq(S)], NEW k \in 1..N
  PROVE  /\ FlatTo(q, k) = FlatTo(q, k - 1) \o q[k]
         /\ FlatTo(q, k - 1) \in Seq(S) /\ FlatTo(q, k) \in Seq(S) /\ q[k] \in Seq(S)
  <1>1. k \in 0..N /\ k - 1 \in 0..N /\ k # 0
    OBVIOUS
  <1>2. FlatTo(q, k) \in Seq(S) /\ FlatTo(q, k) = FlatTo(q, k - 1) \o q[k]
    BY ZenonT(60), <1>1, FlatStep
  <1>3. FlatTo(q, k - 1) \in Seq(S)
    BY <1>1, FlatStep
  <1> QED
    BY <1>2, <1>3

LEMMA FlatNone ==
  ASSUME NEW S, NEW N \in Nat, NEW q \in [1..N -> Seq(S)]
  PROVE  FlatTo(q, 0) = <<>>
  <1>1. 0 \in 0..N
    OBVIOUS
  <1> QED
    BY <1>1, FlatStep

\* Sequences that are empty add nothing.
LEMMA FlatEmpty ==
  ASSUME NEW S, NEW N \in Nat, NEW q \in [1..N -> Seq(S)], NEW n \in 0..N,
         \A b \in 1..n : q[b] = <<>>
  PROVE  FlatTo(q, n) = <<>>
  <1> DEFINE Left == {k \in Nat : k <= n /\ FlatTo(q, k) # <<>>}
  <1>0. n \in Nat /\ n <= N
    OBVIOUS
  <1>1. Left = {}
    <2> SUFFICES ASSUME Left # {}
                 PROVE  FALSE
      OBVIOUS
    <2>1. PICK k \in Left : \A j \in Left : k <= j
      BY HasLeast
    <2>2. k \in 0..N /\ k \in Nat /\ k <= n /\ FlatTo(q, k) # <<>>
      BY <1>0, <2>1
    <2>3. k # 0
      BY <2>2, FlatNone
    <2>4. k - 1 \in Nat /\ k - 1 <= n /\ ~(k <= k - 1) /\ k \in 1..n
      BY <1>0, <2>2, <2>3
    <2>5. FlatTo(q, k - 1) = <<>>
      BY <2>1, <2>4
    <2>6. /\ FlatTo(q, k) = FlatTo(q, k - 1) \o q[k]
          /\ FlatTo(q, k - 1) \in Seq(S) /\ FlatTo(q, k) \in Seq(S) /\ q[k] \in Seq(S)
      <3>1. k \in 1..N
        BY <1>0, <2>4
      <3> QED
        BY <3>1, FlatSteps
    <2>7. q[k] = <<>>
      BY <2>4
    <2> QED
      BY <2>2, <2>5, <2>6, <2>7
  <1> QED
    BY <1>0, <1>1

\* What X and the sequences of q up to m make, they make up to n too when q and r
\* are the same behind m.
LEMMA FlatMeets ==
  ASSUME NEW S, NEW N \in Nat, NEW q \in [1..N -> Seq(S)], NEW r \in [1..N -> Seq(S)],
         NEW m \in 0..N, NEW n \in m..N, NEW X \in Seq(S),
         \A b \in m + 1..n : q[b] = r[b],
         X \o FlatTo(q, m) = FlatTo(r, m)
  PROVE  X \o FlatTo(q, n) = FlatTo(r, n)
  <1> DEFINE Left == {k \in Nat : m <= k /\ k <= n /\ X \o FlatTo(q, k) # FlatTo(r, k)}
  <1>0. m \in Nat /\ n \in Nat /\ m <= n /\ n <= N
    OBVIOUS
  <1>1. Left = {}
    <2> SUFFICES ASSUME Left # {}
                 PROVE  FALSE
      OBVIOUS
    <2>1. PICK k \in Left : \A j \in Left : k <= j
      BY HasLeast
    <2>2. k \in Nat /\ m <= k /\ k <= n /\ X \o FlatTo(q, k) # FlatTo(r, k)
      BY <2>1
    <2>3. k # m
      BY <2>2
    <2>4. /\ k - 1 \in Nat /\ m <= k - 1 /\ k - 1 <= n /\ ~(k <= k - 1) /\ k \in m + 1..n
          /\ k \in 0..N /\ k - 1 \in 0..N /\ k # 0 /\ k \in 1..N
      BY <1>0, <2>2, <2>3
    <2>5. X \o FlatTo(q, k - 1) = FlatTo(r, k - 1)
      BY <2>1, <2>4
    <2>6. /\ FlatTo(q, k) = FlatTo(q, k - 1) \o q[k]
          /\ FlatTo(r, k) = FlatTo(r, k - 1) \o q[k]
          /\ FlatTo(q, k - 1) \in Seq(S) /\ q[k] \in Seq(S)
      <3>0. k \in 1..N /\ q[k] = r[k]
        BY <2>4
      <3>1. /\ FlatTo(q, k) = FlatTo(q, k - 1) \o q[k]
            /\ FlatTo(q, k - 1) \in Seq(S) /\ FlatTo(q, k) \in Seq(S) /\ q[k] \in Seq(S)
        BY <3>0, FlatSteps
      <3>2. /\ FlatTo(r, k) = FlatTo(r, k - 1) \o r[k]
            /\ FlatTo(r, k - 1) \in Seq(S) /\ FlatTo(r, k) \in Seq(S) /\ r[k] \in Seq(S)
        BY <3>0, FlatSteps
      <3> QED
        BY <3>0, <3>1, <3>2
    <2>7. X \o (FlatTo(q, k - 1) \o q[k]) = (X \o FlatTo(q, k - 1)) \o q[k]
      <3> HIDE DEF Left
      <3>1. PICK Y \in Seq(S), Z \in Seq(S) : Y = FlatTo(q, k - 1) /\ Z = q[k]
        BY <2>6
      <3>2. X \o (Y \o Z) = (X \o Y) \o Z
        OBVIOUS
      <3> QED
        BY <3>1, <3>2
    <2> QED
      BY <2>2, <2>5, <2>6, <2>7
  <1>2. n \notin Left
    BY <1>1
  <1>3. m <= n /\ n <= n /\ n \in Nat
    BY <1>0
  <1> QED
    BY <1>2, <1>3

LEMMA FlatSame ==
  ASSUME NEW q, NEW r, NEW n \in Nat, \A b \in 1..n : q[b] = r[b]
  PROVE  FlatTo(q, n) = FlatTo(r, n)
  <1>1. [b \in 1..n |-> q[b]] = [b \in 1..n |-> r[b]]
    OBVIOUS
  <1> QED
    BY <1>1 DEF FlatTo

\* The sequence k is longer by one; or some are emptied.
LEMMA FlatLonger ==
  ASSUME NEW S, NEW N \in Nat, NEW q \in [1..N -> Seq(S)], NEW r \in [1..N -> Seq(S)],
         NEW c \in 1..N, NEW x \in S,
         r[c] = Append(q[c], x), \A b \in (1..N) \ {c} : r[b] = q[b]
  PROVE  Len(FlatTo(r, N)) = Len(FlatTo(q, N)) + 1
  <1> DEFINE Left == {k \in Nat : c <= k /\ k <= N /\ Len(FlatTo(r, k)) # Len(FlatTo(q, k)) + 1}
  <1>0. c \in Nat /\ c <= N /\ c # 0
    OBVIOUS
  <1>1. Left = {}
    <2> SUFFICES ASSUME Left # {}
                 PROVE  FALSE
      OBVIOUS
    <2>1. PICK k \in Left : \A j \in Left : k <= j
      BY HasLeast
    <2>2. k \in Nat /\ c <= k /\ k <= N /\ Len(FlatTo(r, k)) # Len(FlatTo(q, k)) + 1
      BY <2>1
    <2>3. k \in 0..N /\ k - 1 \in 0..N /\ k # 0 /\ k \in 1..N /\ k - 1 \in Nat
      BY <1>0, <2>2
    <2>a. /\ FlatTo(q, k) = FlatTo(q, k - 1) \o q[k]
          /\ FlatTo(q, k - 1) \in Seq(S) /\ FlatTo(q, k) \in Seq(S) /\ q[k] \in Seq(S)
      BY <2>3, FlatSteps
    <2>b. /\ FlatTo(r, k) = FlatTo(r, k - 1) \o r[k]
          /\ FlatTo(r, k - 1) \in Seq(S) /\ FlatTo(r, k) \in Seq(S) /\ r[k] \in Seq(S)
      BY <2>3, FlatSteps
    <2>4. PICK A \in Seq(S), B \in Seq(S), C \in Seq(S), D \in Seq(S) :
             /\ A = FlatTo(q, k - 1) /\ B = FlatTo(r, k - 1) /\ C = q[k] /\ D = r[k]
      BY <2>a, <2>b
    <2>5. FlatTo(q, k) = A \o C /\ FlatTo(r, k) = B \o D
      BY <2>a, <2>b, <2>4
    <2>6. Len(A \o C) = Len(A) + Len(C) /\ Len(B \o D) = Len(B) + Len(D)
          /\ Len(A) \in Nat /\ Len(B) \in Nat /\ Len(C) \in Nat /\ Len(D) \in Nat
      BY Joined
    <2>7. CASE k = c
      <3>1. A = B
        <4>1. \A b \in 1..k - 1 : q[b] = r[b]
          BY <1>0, <2>2, <2>3, <2>7
        <4> QED
          BY <2>3, <2>4, <4>1, FlatSame
      <3>2. Len(D) = Len(C) + 1
        <4>1. D = Append(C, x)
          BY <2>4, <2>7
        <4> QED
          BY <4>1
      <3> QED
        BY <2>2, <2>5, <2>6, <3>1, <3>2
    <2>8. CASE k # c
      <3>1. C = D
        BY <2>3, <2>4, <2>8
      <3>2. Len(B) = Len(A) + 1
        <4>1. c <= k - 1 /\ k - 1 <= N /\ ~(k <= k - 1)
          BY <1>0, <2>2, <2>8
        <4>2. k - 1 \notin Left
          <5> HIDE DEF Left
          <5> QED
            BY <2>1, <2>3, <4>1
        <4> QED
          BY <2>3, <2>4, <4>1, <4>2
      <3> QED
        BY <2>2, <2>5, <2>6, <3>1, <3>2
    <2> QED
      BY <2>7, <2>8
  <1>2. N \notin Left
    BY <1>1
  <1>3. c <= N /\ N <= N /\ N \in Nat
    BY <1>0
  <1> QED
    BY <1>2, <1>3

LEMMA FlatShorter ==
  ASSUME NEW S, NEW N \in Nat, NEW q \in [1..N -> Seq(S)], NEW r \in [1..N -> Seq(S)],
         \A b \in 1..N : r[b] = q[b] \/ r[b] = <<>>
  PROVE  Len(FlatTo(r, N)) <= Len(FlatTo(q, N))
  <1> DEFINE Left == {k \in Nat : k <= N /\ ~(Len(FlatTo(r, k)) <= Len(FlatTo(q, k)))}
  <1>1. Left = {}
    <2> SUFFICES ASSUME Left # {}
                 PROVE  FALSE
      OBVIOUS
    <2>1. PICK k \in Left : \A j \in Left : k <= j
      BY HasLeast
    <2>2. k \in Nat /\ k <= N /\ ~(Len(FlatTo(r, k)) <= Len(FlatTo(q, k)))
      BY <2>1
    <2>3. k # 0
      <3>1. ASSUME k = 0 PROVE FlatTo(r, k) = <<>> /\ FlatTo(q, k) = <<>>
        BY <3>1, FlatNone
      <3> QED
        BY <2>2, <3>1
    <2>4. k \in 0..N /\ k - 1 \in 0..N /\ k \in 1..N /\ k - 1 \in Nat /\ k - 1 <= N /\ ~(k <= k - 1)
      BY <2>2, <2>3
    <2>a. /\ FlatTo(q, k) = FlatTo(q, k - 1) \o q[k]
          /\ FlatTo(q, k - 1) \in Seq(S) /\ FlatTo(q, k) \in Seq(S) /\ q[k] \in Seq(S)
      BY <2>4, FlatSteps
    <2>b. /\ FlatTo(r, k) = FlatTo(r, k - 1) \o r[k]
          /\ FlatTo(r, k - 1) \in Seq(S) /\ FlatTo(r, k) \in Seq(S) /\ r[k] \in Seq(S)
      BY <2>4, FlatSteps
    <2>5. PICK A \in Seq(S), B \in Seq(S), C \in Seq(S), D \in Seq(S) :
             /\ A = FlatTo(q, k - 1) /\ B = FlatTo(r, k - 1) /\ C = q[k] /\ D = r[k]
      BY <2>a, <2>b
    <2>6. FlatTo(q, k) = A \o C /\ FlatTo(r, k) = B \o D
      BY <2>a, <2>b, <2>5
    <2>7. Len(A \o C) = Len(A) + Len(C) /\ Len(B \o D) = Len(B) + Len(D)
          /\ Len(A) \in Nat /\ Len(B) \in Nat /\ Len(C) \in Nat /\ Len(D) \in Nat
      BY Joined
    <2>8. Len(D) <= Len(C)
      <3>1. D = C \/ D = <<>>
        BY <2>4, <2>5
      <3> QED
        BY <2>7, <3>1
    <2>9. Len(B) <= Len(A)
      <3>1. k - 1 \notin Left
        <4> HIDE DEF Left
        <4> QED
          BY <2>1, <2>4
      <3> QED
        BY <2>4, <2>5, <3>1
    <2> QED
      BY <2>2, <2>6, <2>7, <2>8, <2>9
  <1>2. N <= N
    OBVIOUS
  <1> QED
    BY <1>1, <1>2

\* The first sequences make a beginning of what all make.
LEMMA FlatBegins ==
  ASSUME NEW S, NEW N \in Nat, NEW q \in [1..N -> Seq(S)], NEW m \in 0..N, NEW n \in m..N
  PROVE  /\ Len(FlatTo(q, m)) <= Len(FlatTo(q, n))
         /\ \A i \in 1..Len(FlatTo(q, m)) : FlatTo(q, n)[i] = FlatTo(q, m)[i]
  <1> DEFINE Begins(k) == /\ Len(FlatTo(q, m)) <= Len(FlatTo(q, k))
                          /\ \A i \in 1..Len(FlatTo(q, m)) : FlatTo(q, k)[i] = FlatTo(q, m)[i]
             Left == {k \in Nat : m <= k /\ k <= n /\ ~Begins(k)}
  <1>0. m \in Nat /\ n \in Nat /\ m <= n /\ n <= N
    OBVIOUS
  <1>1. Left = {}
    <2> SUFFICES ASSUME Left # {}
                 PROVE  FALSE
      OBVIOUS
    <2>1. PICK k \in Left : \A j \in Left : k <= j
      BY HasLeast
    <2>2. k \in Nat /\ m <= k /\ k <= n /\ ~Begins(k)
      BY <2>1
    <2>3. k # m
      <3>1. Begins(m)
        <4>1. FlatTo(q, m) \in Seq(S)
          <5>1. m \in 0..N
            OBVIOUS
          <5> QED
            BY <5>1, FlatStep
        <4> QED
          BY <4>1
      <3> QED
        BY <2>2, <3>1
    <2>4. /\ k - 1 \in Nat /\ m <= k - 1 /\ k - 1 <= n /\ ~(k <= k - 1)
          /\ k \in 0..N /\ k - 1 \in 0..N /\ k # 0 /\ k \in 1..N
      BY <1>0, <2>2, <2>3
    <2>5. Begins(k - 1)
      <3> HIDE DEF Begins
      <3> QED
        BY <2>1, <2>4
    <2>a. /\ FlatTo(q, k) = FlatTo(q, k - 1) \o q[k]
          /\ FlatTo(q, k - 1) \in Seq(S) /\ FlatTo(q, k) \in Seq(S) /\ q[k] \in Seq(S)
      BY <2>4, FlatSteps
    <2>b. FlatTo(q, m) \in Seq(S)
      BY FlatStep
    <2>6. PICK A \in Seq(S), B \in Seq(S), C \in Seq(S) :
             /\ A = FlatTo(q, m) /\ B = FlatTo(q, k - 1) /\ C = q[k]
      BY <2>a, <2>b
    <2>7. FlatTo(q, k) = B \o C
      BY <2>a, <2>6
    <2>8. /\ Len(B \o C) = Len(B) + Len(C) /\ Len(A) \in Nat /\ Len(B) \in Nat /\ Len(C) \in Nat
          /\ \A i \in 1..Len(B) : (B \o C)[i] = B[i]
      BY Joined
    <2>9. Len(A) <= Len(B) /\ \A i \in 1..Len(A) : B[i] = A[i]
      BY <2>5, <2>6
    <2>10. Begins(k)
      <3>1. \A i \in 1..Len(A) : i \in 1..Len(B)
        BY <2>8, <2>9
      <3>2. Len(A) <= Len(B \o C) /\ \A i \in 1..Len(A) : (B \o C)[i] = A[i]
        BY <2>8, <2>9, <3>1
      <3> QED
        BY <2>6, <2>7, <3>2
    <2> QED
      BY <2>2, <2>10
  <1>2. n \notin Left
    BY <1>1
  <1>3. Begins(n)
    <2>1. m <= n /\ n <= n /\ n \in Nat
      BY <1>0
    <2> HIDE DEF Begins
    <2> QED
      BY <1>2, <2>1
  <1> QED
    BY <1>3

-----------------------------------------------------------------------------
(***************************************************************************)
(* The invariant.                                                          *)
(***************************************************************************)

Batches  == 1..NumBatches
MaxBatch == NumBatches + 1
Pairs    == Batches \X (1..MaxPer)

\* The variables of the batched buffer and its tasks.
BatchedTypes ==
  /\ size \in [Batches -> 0..MaxPer]
  /\ nextBatch \in 1..MaxBatch
  /\ batch \in [Tasks -> 0..MaxBatch] /\ minSeen \in [Tasks -> 0..MaxBatch]
  /\ current \in [Tasks -> 0..MaxBatch] /\ target \in [Tasks -> 0..MaxBatch]
  /\ pos \in [Tasks -> 0..MaxPer]
  /\ minBatch \in 0..MaxBatch
  /\ buffer \in [Batches -> Seq(Pairs)]
  /\ readQueue \in Seq(Pairs) /\ delivered \in Seq(Pairs)
  /\ completed \subseteq Batches
  /\ blockedSinks \subseteq Batches \X Tasks /\ todo \subseteq blockedSinks

\* The task's PipelineExecutor exists: its batch is registered.
Started(t) == tpc[t] # "start"

\* The task is at a batch, of which it has appended pos chunks.
Works(t) == current[t] \in Batches /\ batch[t] = current[t]

\* The task holds a chunk of its batch that it has not appended.
Holding == {"push", "should", "append", "block", "desched", "retry"}

\* What a task's place in the code says of its batch.
BatchOf(t) ==
  /\ batch[t] <= nextBatch /\ (batch[t] \in Batches => batch[t] < nextBatch)
  /\ current[t] \in Batches => current[t] < nextBatch /\ batch[t] <= current[t]
  /\ Works(t) => pos[t] <= size[batch[t]]
  /\ tpc[t] = "start" => current[t] = 0
  /\ tpc[t] = "head" => current[t] = 0 \/ Works(t)
  /\ tpc[t] \in Holding => Works(t) /\ pos[t] < size[batch[t]]
  /\ tpc[t] \in {"nextmin", "reindex"} =>
       current[t] = target[t] /\ batch[t] < target[t]
       /\ (target[t] = MaxBatch => nextBatch = MaxBatch)
  /\ tpc[t] \in {"last", "combine", "done"} => batch[t] = MaxBatch /\ current[t] \notin Batches

BatchPlaces == \A t \in Tasks : BatchOf(t)

\* A batch is with one task.
OneWorks == \A t, u \in Tasks : current[t] \in Batches /\ current[t] = current[u] => t = u

\* The least of the registered batches is known to some task; no task and not the
\* buffer takes a greater one for it.
LeastKnown ==
  /\ \A t, u \in Tasks : Started(t) /\ Started(u) => minSeen[t] <= batch[u] /\ minBatch <= batch[u]
  /\ (\E t \in Tasks : Started(t)) =>
       \E t, u \in Tasks : Started(t) /\ Started(u) /\ minSeen[t] = batch[u]
  /\ (\A t \in Tasks : ~Started(t)) => minBatch = 0
  /\ minBatch <= nextBatch
  /\ \A t \in Tasks : tpc[t] \in {"should", "append", "done"} => minSeen[t] <= minBatch

\* How many chunks of b the tasks have appended, where cur, bat, ps, nb and sz are
\* current, batch, pos, nextBatch and size.
PushedIn(cur, bat, ps, nb, sz, b) ==
  IF \E u \in Tasks : cur[u] = b
    THEN IF bat[CHOOSE u \in Tasks : cur[u] = b] = b
           THEN ps[CHOOSE u \in Tasks : cur[u] = b] ELSE 0
    ELSE IF b < nb THEN sz[b] ELSE 0

Pushed(b) == PushedIn(current, batch, pos, nextBatch, size, b)

given == [b \in Batches |-> [i \in 1..Pushed(b) |-> <<b, i>>]]
Front == IF minBatch <= NumBatches THEN minBatch ELSE NumBatches

\* What was appended is in the read queue, or delivered, up to the buffer's minimum,
\* and waits in its batch's buffer behind it.
ChunksInOrder ==
  /\ \A b \in Batches : buffer[b] = IF b <= minBatch THEN <<>> ELSE given[b]
  /\ delivered \o readQueue = FlatTo(given, Front)
  /\ \A b \in Batches : buffer[b] # <<>> /\ (\A t \in Tasks : current[t] # b) => b \in completed

\* A blocked sink is at the batch it was refused for, and waits, or is about to.
BlockedPlaces ==
  \A s \in blockedSinks :
    /\ s[1] = batch[s[2]]
    /\ tpc[s[2]] = "desched" \/ (tpc[s[2]] = "retry" /\ loc[s[2]] \in {"blocked", "gone"})

\* The tasks that have been let in to a batch behind the minimum.
LetIn == {t \in Tasks : tpc[t] = "append" /\ batch[t] # minBatch}

\* The chunks that wait and those about to be appended: a task is let in only while
\* the chunks that wait are fewer than BufferCap, and one task stays out.
RoomLeft == Batched!BufferCount + Cardinality(LetIn) <= BufferCap + NumTasks - 2

\* The invariant of the batched buffer.
BatchedOrder ==
  /\ BatchedTypes /\ BatchPlaces /\ OneWorks /\ LeastKnown
  /\ ChunksInOrder /\ BlockedPlaces /\ RoomLeft

\* What the client knows when Fetch has no more to return.
BatchedOver ==
  /\ cpc = "ran" /\ res = "error" => ~success
  /\ res = "finished" => AllDone
  /\ cpc = "scan" => readQueue # <<>> \/ AllDone
  /\ res = "abandoned" => cpc \in {"cancel", "draining", "drain", "ended"}

\* The variables of the executor.
Answers == {"none", "not_ready", "no_tasks", "ready", "finished", "error", "abandoned", "interrupt"}

ExecutorTypes ==
  /\ failed \in BOOLEAN /\ cancelled \in BOOLEAN
  /\ sending \in BOOLEAN /\ success \in BOOLEAN
  /\ budget \in 0..PartialChunks
  /\ res \in Answers

\* Who is in a simple buffer's queue of blocked sinks, and what is left behind when
\* the client stops fetching.
SinksPlaced ==
  /\ \A i \in 1..Len(blockedSinks) :
       tpc[blockedSinks[i]] = "desched"
         \/ (tpc[blockedSinks[i]] = "retry" /\ loc[blockedSinks[i]] \in {"blocked", "gone"})
  /\ \A i, j \in 1..Len(blockedSinks) : blockedSinks[i] = blockedSinks[j] => i = j

\* The rest of the invariant of a simple buffer.
SimpleOver ==
  /\ bad \in 0..NumChunks
  /\ res = "finished" => AllDone
  /\ cpc = "ended" /\ success /\ res = "finished" => buffered = <<>>
  /\ SinksPlaced

\* What holds of all plans in every state.
StreamInv ==
  /\ IInv
  /\ ExecutorTypes
  /\ plan = "batched" => BatchedOrder /\ BatchedOver
  /\ plan # "batched" => SimpleOver

-----------------------------------------------------------------------------
(***************************************************************************)
(* Batches, and what has been appended of them.                            *)
(***************************************************************************)

LEMMA Sizes ==
  /\ NumBatches \in Nat /\ MaxPer \in Nat /\ MaxBatch \in Nat /\ Batches \subseteq Nat
  /\ Batches = 1..NumBatches /\ MaxBatch = NumBatches + 1
  /\ NumTasks \in Nat \ {0} /\ BufferCap \in Nat \ {0} /\ QueueCap \in Nat \ {0}
  /\ Batched!Tasks = Tasks /\ Batched!Batches = Batches /\ Batched!MaxBatch = MaxBatch
  BY ResultAssumption, ExecutorAssumption
  DEF Batches, MaxBatch, Tasks, Batched!Tasks, Batched!Batches, Batched!MaxBatch

LEMMA LeastIs ==
  ASSUME NEW S \in SUBSET Nat, S # {}
  PROVE  Batched!Min(S) \in S /\ \A x \in S : Batched!Min(S) <= x
  BY HasLeast DEF Batched!Min

LEMMA LessOfTwo ==
  ASSUME NEW m \in Nat, NEW n \in Nat
  PROVE  Batched!Min({m, n}) = IF m <= n THEN m ELSE n
  <1>1. {m, n} \in SUBSET Nat /\ {m, n} # {}
    OBVIOUS
  <1>2. Batched!Min({m, n}) \in {m, n} /\ Batched!Min({m, n}) <= m /\ Batched!Min({m, n}) <= n
    BY <1>1, LeastIs
  <1> QED
    BY <1>2

LEMMA PushedNow ==
  ASSUME NEW b
  PROVE  /\ \A u \in Tasks : current[u] = b /\ (\A v \in Tasks : current[v] = b => v = u)
              => Pushed(b) = IF batch[u] = b THEN pos[u] ELSE 0
         /\ (\A v \in Tasks : current[v] # b) => Pushed(b) = IF b < nextBatch THEN size[b] ELSE 0
  <1>1. ASSUME NEW u \in Tasks, current[u] = b, \A v \in Tasks : current[v] = b => v = u
        PROVE  Pushed(b) = IF batch[u] = b THEN pos[u] ELSE 0
    <2>1. (CHOOSE v \in Tasks : current[v] = b) = u
      BY <1>1
    <2> QED
      BY <1>1, <2>1 DEF Pushed, PushedIn
  <1>2. (\A v \in Tasks : current[v] # b) => Pushed(b) = IF b < nextBatch THEN size[b] ELSE 0
    BY DEF Pushed, PushedIn
  <1> QED
    BY <1>1, <1>2

LEMMA PushedNext ==
  ASSUME NEW b
  PROVE  /\ \A u \in Tasks : current'[u] = b /\ (\A v \in Tasks : current'[v] = b => v = u)
              => PushedIn(current', batch', pos', nextBatch', size', b)
                   = IF batch'[u] = b THEN pos'[u] ELSE 0
         /\ (\A v \in Tasks : current'[v] # b)
              => PushedIn(current', batch', pos', nextBatch', size', b)
                   = IF b < nextBatch' THEN size'[b] ELSE 0
  <1>1. ASSUME NEW u \in Tasks, current'[u] = b, \A v \in Tasks : current'[v] = b => v = u
        PROVE  PushedIn(current', batch', pos', nextBatch', size', b)
                 = IF batch'[u] = b THEN pos'[u] ELSE 0
    <2>1. (CHOOSE v \in Tasks : current'[v] = b) = u
      BY <1>1
    <2> QED
      BY <1>1, <2>1 DEF PushedIn
  <1>2. (\A v \in Tasks : current'[v] # b) =>
          PushedIn(current', batch', pos', nextBatch', size', b) = IF b < nextBatch' THEN size'[b] ELSE 0
    BY DEF PushedIn
  <1> QED
    BY <1>1, <1>2

LEMMA PushedBounds ==
  ASSUME BatchedTypes, BatchPlaces, OneWorks, NEW b \in Batches
  PROVE  Pushed(b) \in 0..size[b] /\ Pushed(b) \in 0..MaxPer /\ size[b] \in 0..MaxPer
  <1>0. size[b] \in 0..MaxPer /\ MaxPer \in Nat
    BY Sizes DEF BatchedTypes
  <1>1. CASE \E u \in Tasks : current[u] = b
    <2>1. PICK u \in Tasks : current[u] = b
      BY <1>1
    <2>2. \A v \in Tasks : current[v] = b => v = u
      BY <2>1 DEF OneWorks
    <2>3. Pushed(b) = IF batch[u] = b THEN pos[u] ELSE 0
      BY <2>1, <2>2, PushedNow
    <2>4. batch[u] = b => pos[u] <= size[b] /\ pos[u] \in Nat
      BY <2>1 DEF BatchPlaces, BatchOf, Works, BatchedTypes
    <2> QED
      BY <1>0, <2>3, <2>4
  <1>2. CASE \A u \in Tasks : current[u] # b
    <2>1. Pushed(b) = IF b < nextBatch THEN size[b] ELSE 0
      BY <1>2, PushedNow
    <2> QED
      BY <1>0, <2>1
  <1> QED
    BY <1>1, <1>2

LEMMA GivenType ==
  ASSUME BatchedTypes, BatchPlaces, OneWorks
  PROVE  given \in [1..NumBatches -> Seq(Pairs)]
  <1>1. ASSUME NEW b \in Batches PROVE [i \in 1..Pushed(b) |-> <<b, i>>] \in Seq(Pairs)
    <2>1. Pushed(b) \in 0..MaxPer /\ MaxPer \in Nat
      BY PushedBounds, Sizes
    <2>2. \A i \in 1..Pushed(b) : <<b, i>> \in Pairs
      BY <2>1 DEF Pairs
    <2> QED
      BY <2>1, <2>2
  <1> QED
    BY <1>1, Sizes DEF given

-----------------------------------------------------------------------------
(***************************************************************************)
(* What an update of the minimum, a fetch and an append do to the order.   *)
(***************************************************************************)

\* UpdateMinBatchIndex: what it moves is what was given up to the new minimum.
LEMMA UpdateMoves ==
  ASSUME BatchedTypes, BatchPlaces, OneWorks, ChunksInOrder, NEW m \in 0..MaxBatch,
         Batched!UpdateMinBatchIndex(m), UNCHANGED <<current, batch, pos, nextBatch, size, delivered>>
  PROVE  /\ minBatch' = (IF m > minBatch THEN m ELSE minBatch)
         /\ minBatch' \in 0..MaxBatch
         /\ buffer' \in [Batches -> Seq(Pairs)] /\ readQueue' \in Seq(Pairs)
         /\ completed' \subseteq Batches
         /\ \A b \in Batches : buffer'[b] = buffer[b] \/ buffer'[b] = <<>>
         /\ ChunksInOrder'
         /\ readQueue # <<>> => readQueue' # <<>>
  <1>1. given' = given
    BY DEF given, Pushed
  <1>2. given \in [1..NumBatches -> Seq(Pairs)]
    BY GivenType
  <1>3. /\ minBatch \in 0..MaxBatch /\ buffer \in [1..NumBatches -> Seq(Pairs)]
        /\ readQueue \in Seq(Pairs) /\ delivered \in Seq(Pairs) /\ completed \subseteq Batches
    BY Sizes DEF BatchedTypes
  <1>4. CASE ~(m > minBatch)
    <2>1. UNCHANGED <<minBatch, buffer, readQueue, completed>>
      BY <1>4 DEF Batched!UpdateMinBatchIndex, Batched!data
    <2>2. Front' = Front
      BY <2>1 DEF Front
    <2>3. ChunksInOrder'
      BY <1>1, <2>1, <2>2 DEF ChunksInOrder
    <2> QED
      BY <1>3, <1>4, <2>1, <2>3, Sizes
  <1>5. CASE m > minBatch
    <2> DEFINE n == IF m <= NumBatches THEN m ELSE NumBatches
    <2>0. /\ m \in Nat /\ minBatch \in Nat /\ NumBatches \in Nat /\ m <= NumBatches + 1
          /\ minBatch <= NumBatches
      BY <1>3, <1>5, Sizes
    <2>1. n \in 0..NumBatches /\ n = Batched!Min({m, NumBatches})
      BY <2>0, LessOfTwo
    <2>2. /\ minBatch' = m
          /\ readQueue' = readQueue \o FlatTo(buffer, n)
          /\ buffer' = [b \in Batches |-> IF b <= m THEN <<>> ELSE buffer[b]]
          /\ completed' = {b \in completed : b > m}
      <3>1. minBatch' = m /\ Batched!MovesUpTo(m)
        BY <1>5 DEF Batched!UpdateMinBatchIndex
      <3> QED
        BY <2>1, <3>1, Sizes DEF Batched!MovesUpTo, FlatTo
    <2>3. Front = minBatch /\ Front' = n /\ n \in minBatch..NumBatches /\ minBatch \in 0..NumBatches
      BY <1>5, <2>0, <2>2 DEF Front
    <2>3a. n >= minBatch /\ n <= m
      BY <1>5, <2>0
    <2> HIDE DEF n
    <2>4. \A b \in 1..minBatch : buffer[b] = <<>>
      <3> TAKE b \in 1..minBatch
      <3>1. b \in Batches /\ b <= minBatch
        BY <2>0, Sizes
      <3> QED
        BY <3>1 DEF ChunksInOrder
    <2>5. FlatTo(buffer, minBatch) = <<>>
      BY <1>3, <2>0, <2>3, <2>4, FlatEmpty
    <2>6. FlatTo(given, minBatch) \in Seq(Pairs)
      BY <1>2, <2>0, <2>3, FlatStep
    <2>7. PICK X \in Seq(Pairs) : X = FlatTo(given, minBatch)
      BY <2>6
    <2>8. X \o FlatTo(buffer, minBatch) = FlatTo(given, minBatch)
      BY <2>5, <2>7
    <2>9. \A b \in minBatch + 1..n : buffer[b] = given[b]
      <3> TAKE b \in minBatch + 1..n
      <3>1. b \in Batches /\ ~(b <= minBatch)
        BY <2>0, <2>1, <2>3, Sizes
      <3> QED
        BY <3>1 DEF ChunksInOrder
    <2>10. X \o FlatTo(buffer, n) = FlatTo(given, n)
      BY <1>2, <1>3, <2>0, <2>3, <2>8, <2>9, FlatMeets
    <2>11. FlatTo(buffer, n) \in Seq(Pairs)
      BY <1>3, <2>0, <2>1, FlatStep
    <2>12. delivered \o readQueue' = FlatTo(given, n)
      <3>1. PICK D \in Seq(Pairs), R \in Seq(Pairs), F \in Seq(Pairs) :
               D = delivered /\ R = readQueue /\ F = FlatTo(buffer, n)
        BY <1>3, <2>11
      <3>2. D \o (R \o F) = (D \o R) \o F
        OBVIOUS
      <3>3. D \o R = X
        BY <2>3, <2>7, <3>1 DEF ChunksInOrder
      <3> QED
        BY <2>2, <2>10, <3>1, <3>2, <3>3
    <2>13. readQueue' \in Seq(Pairs) /\ Len(readQueue') = Len(readQueue) + Len(FlatTo(buffer, n))
           /\ Len(readQueue) \in Nat /\ Len(FlatTo(buffer, n)) \in Nat
      BY <1>3, <2>2, <2>11, Joined
    <2>14. readQueue # <<>> => readQueue' # <<>>
      BY <1>3, <2>13
    <2>15. \A b \in Batches : buffer'[b] = IF b <= m THEN <<>> ELSE buffer[b]
      BY <2>2
    <2>16. \A b \in Batches : buffer'[b] = IF b <= minBatch' THEN <<>> ELSE given'[b]
      <3> TAKE b \in Batches
      <3>1. b <= minBatch => b <= m
        BY <1>5, <2>0, Sizes
      <3> QED
        BY <1>1, <2>2, <2>15, <3>1 DEF ChunksInOrder
    <2>17. \A b \in Batches : buffer'[b] # <<>> /\ (\A t \in Tasks : current'[t] # b) => b \in completed'
      <3> TAKE b \in Batches
      <3> HAVE buffer'[b] # <<>> /\ \A t \in Tasks : current'[t] # b
      <3>1. b > m /\ buffer[b] # <<>>
        BY <2>0, <2>15, Sizes
      <3>2. b \in completed
        BY <3>1 DEF ChunksInOrder
      <3> QED
        BY <2>2, <3>1, <3>2
    <2>18. ChunksInOrder'
      BY <1>1, <2>3, <2>12, <2>16, <2>17 DEF ChunksInOrder
    <2>19. buffer' \in [Batches -> Seq(Pairs)]
      <3>1. <<>> \in Seq(Pairs)
        OBVIOUS
      <3> QED
        BY <1>3, <2>2, <3>1, Sizes
    <2> QED
      BY <1>3, <1>5, <2>2, <2>13, <2>14, <2>15, <2>18, <2>19, Sizes
  <1> QED
    BY <1>4, <1>5

\* A task that takes the next batch has appended all of its last one and nothing of
\* the new one yet.
LEMMA FetchPushes ==
  ASSUME BatchedTypes, BatchPlaces, OneWorks, NEW t \in Tasks, tpc[t] = "head",
         ~(Works(t) /\ pos[t] < size[batch[t]]),
         nextBatch # batch[t], current' = [current EXCEPT ![t] = nextBatch],
         nextBatch' = Batched!Min({nextBatch + 1, MaxBatch}),
         UNCHANGED <<batch, pos, size>>
  PROVE  /\ given' = given
         /\ nextBatch' \in 1..MaxBatch /\ nextBatch <= nextBatch'
         /\ nextBatch \in Batches => nextBatch < nextBatch'
         /\ nextBatch = MaxBatch => nextBatch' = MaxBatch
  <1>0. /\ nextBatch \in 1..MaxBatch /\ current \in [Tasks -> 0..MaxBatch]
        /\ batch \in [Tasks -> 0..MaxBatch] /\ pos \in [Tasks -> 0..MaxPer]
        /\ size \in [Batches -> 0..MaxPer]
    BY DEF BatchedTypes
  <1>1. nextBatch' = IF nextBatch = MaxBatch THEN MaxBatch ELSE nextBatch + 1
    <2>1. nextBatch + 1 \in Nat /\ MaxBatch \in Nat /\ nextBatch <= MaxBatch
      BY <1>0, Sizes
    <2> QED
      BY <1>0, <2>1, LessOfTwo, Sizes
  <1>2. \A u \in Tasks : current[u] \in Batches => current[u] < nextBatch
    BY DEF BatchPlaces, BatchOf
  <1>3. \A u \in Tasks : current'[u] = IF u = t THEN nextBatch ELSE current[u]
    BY <1>0
  <1>4. ASSUME NEW b \in Batches PROVE Pushed(b)' = Pushed(b)
    <2>0. b \in Nat /\ ~(b < b) /\ MaxBatch \notin Batches
      BY Sizes
    <2>1. CASE b = nextBatch
      <3>1. \A u \in Tasks : current[u] # b
        BY <1>2, <2>0, <2>1
      <3>2. Pushed(b) = 0
        BY <2>0, <2>1, <3>1, PushedNow
      <3>3. current'[t] = b /\ \A u \in Tasks : current'[u] = b => u = t
        BY <1>3, <2>1, <3>1
      <3>4. Pushed(b)' = IF batch'[t] = b THEN pos'[t] ELSE 0
        <4>1. PICK c : c = current'
          OBVIOUS
        <4>2. c[t] = b /\ \A v \in Tasks : c[v] = b => v = t
          BY <3>3, <4>1
        <4>3. (CHOOSE v \in Tasks : c[v] = b) = t
          BY <4>2
        <4> QED
          BY <4>1, <4>2, <4>3 DEF Pushed, PushedIn
      <3> QED
        BY <2>1, <3>2, <3>4
    <2>2. CASE b # nextBatch /\ current[t] = b
      <3>1. Works(t)
        BY <2>0, <2>2, Sizes DEF BatchPlaces, BatchOf
      <3>2. pos[t] = size[b] /\ batch[t] = b /\ b < nextBatch
        BY <1>0, <2>2, <3>1 DEF BatchPlaces, BatchOf, Works
      <3>3. \A u \in Tasks : current[u] = b => u = t
        BY <2>2 DEF OneWorks
      <3>4. Pushed(b) = size[b]
        BY <2>2, <3>2, <3>3, PushedNow
      <3>5. \A u \in Tasks : current'[u] # b
        BY <1>3, <2>2, <3>3
      <3>6. b < nextBatch'
        BY <1>0, <1>1, <3>2, Sizes
      <3>7. Pushed(b)' = size'[b]
        BY <3>5, <3>6, PushedNext DEF Pushed
      <3> QED
        BY <3>4, <3>7
    <2>3. CASE b # nextBatch /\ current[t] # b /\ \E u \in Tasks : current[u] = b
      <3>1. PICK u \in Tasks : current[u] = b
        BY <2>3
      <3>2. \A v \in Tasks : current[v] = b => v = u
        BY <3>1 DEF OneWorks
      <3>3. u # t /\ current'[u] = b /\ \A v \in Tasks : current'[v] = b => v = u
        BY <1>3, <2>3, <3>1, <3>2
      <3>4. Pushed(b) = IF batch[u] = b THEN pos[u] ELSE 0
        BY <3>1, <3>2, PushedNow
      <3>5. Pushed(b)' = IF batch'[u] = b THEN pos'[u] ELSE 0
        <4>1. PICK c : c = current'
          OBVIOUS
        <4>2. c[u] = b /\ \A v \in Tasks : c[v] = b => v = u
          BY <3>3, <4>1
        <4>3. (CHOOSE v \in Tasks : c[v] = b) = u
          BY <4>2
        <4> QED
          BY <4>1, <4>2, <4>3 DEF Pushed, PushedIn
      <3> QED
        BY <3>4, <3>5
    <2>4. CASE b # nextBatch /\ \A u \in Tasks : current[u] # b
      <3>1. \A u \in Tasks : current'[u] # b
        BY <1>3, <2>4
      <3>2. Pushed(b) = IF b < nextBatch THEN size[b] ELSE 0
        BY <2>4, PushedNow
      <3>3. Pushed(b)' = IF b < nextBatch' THEN size'[b] ELSE 0
        BY <3>1, PushedNext DEF Pushed
      <3>4. b < nextBatch' <=> b < nextBatch
        BY <1>0, <1>1, <2>0, <2>4, Sizes
      <3> QED
        BY <3>2, <3>3, <3>4
    <2> QED
      BY <2>1, <2>2, <2>3, <2>4
  <1>5. given' = given
    BY <1>4 DEF given
  <1>6. /\ nextBatch' \in 1..MaxBatch /\ nextBatch <= nextBatch'
        /\ nextBatch \in Batches => nextBatch < nextBatch'
        /\ nextBatch = MaxBatch => nextBatch' = MaxBatch
    BY <1>0, <1>1, Sizes
  <1> QED
    BY <1>5, <1>6

\* UpdateBatchIndex: the task starts at its new batch.
LEMMA ReindexPushes ==
  ASSUME BatchedTypes, OneWorks, NEW t \in Tasks, current[t] = target[t], batch[t] # target[t],
         batch' = [batch EXCEPT ![t] = target[t]], pos' = [pos EXCEPT ![t] = 0],
         UNCHANGED <<current, nextBatch, size>>
  PROVE  given' = given
  <1>0. batch \in [Tasks -> 0..MaxBatch] /\ pos \in [Tasks -> 0..MaxPer]
    BY DEF BatchedTypes
  <1>1. ASSUME NEW b \in Batches PROVE Pushed(b)' = Pushed(b)
    <2>1. CASE \E u \in Tasks : current[u] = b
      <3>1. PICK u \in Tasks : current[u] = b
        BY <2>1
      <3>2. \A v \in Tasks : current[v] = b => v = u
        BY <3>1 DEF OneWorks
      <3>3. Pushed(b) = IF batch[u] = b THEN pos[u] ELSE 0
        BY <3>1, <3>2, PushedNow
      <3>4. current'[u] = b /\ \A v \in Tasks : current'[v] = b => v = u
        BY <3>1, <3>2
      <3>5. Pushed(b)' = IF batch'[u] = b THEN pos'[u] ELSE 0
        BY <3>4, PushedNext DEF Pushed
      <3> QED
        BY <1>0, <3>1, <3>3, <3>5
    <2>2. CASE \A u \in Tasks : current[u] # b
      <3>1. Pushed(b) = IF b < nextBatch THEN size[b] ELSE 0
        BY <2>2, PushedNow
      <3>2. \A u \in Tasks : current'[u] # b
        BY <2>2
      <3>3. Pushed(b)' = IF b < nextBatch' THEN size'[b] ELSE 0
        BY <3>2, PushedNext DEF Pushed
      <3> QED
        BY <3>1, <3>3
    <2> QED
      BY <2>1, <2>2
  <1> QED
    BY <1>1 DEF given

\* Append: one chunk more of the task's batch.
LEMMA AppendPushes ==
  ASSUME BatchedTypes, BatchPlaces, OneWorks, NEW t \in Tasks, Works(t), pos[t] < size[batch[t]],
         pos' = [pos EXCEPT ![t] = @ + 1], UNCHANGED <<current, batch, nextBatch, size>>
  PROVE  /\ batch[t] \in Batches /\ <<batch[t], pos[t] + 1>> \in Pairs
         /\ given'[batch[t]] = Append(given[batch[t]], <<batch[t], pos[t] + 1>>)
         /\ \A b \in Batches \ {batch[t]} : given'[b] = given[b]
         /\ given' \in [1..NumBatches -> Seq(Pairs)]
         /\ pos[t] + 1 \in 0..MaxPer
  <1>0. /\ batch \in [Tasks -> 0..MaxBatch] /\ pos \in [Tasks -> 0..MaxPer]
        /\ size \in [Batches -> 0..MaxPer] /\ batch[t] \in Batches /\ current[t] = batch[t]
    BY DEF BatchedTypes, Works
  <1>1. pos[t] \in Nat /\ pos[t] + 1 \in 1..MaxPer
    BY <1>0, Sizes
  <1>2. <<batch[t], pos[t] + 1>> \in Pairs
    BY <1>0, <1>1 DEF Pairs
  <1>3. \A u \in Tasks : current[u] = batch[t] => u = t
    BY <1>0 DEF OneWorks
  <1>4. Pushed(batch[t]) = pos[t] /\ Pushed(batch[t])' = pos[t] + 1
    <2>1. Pushed(batch[t]) = pos[t]
      BY <1>0, <1>3, PushedNow
    <2>2. PICK b \in Batches : b = batch[t] /\ b = batch'[t]
      BY <1>0
    <2>3. current'[t] = b /\ \A u \in Tasks : current'[u] = b => u = t
      BY <1>0, <1>3, <2>2
    <2>4. PushedIn(current', batch', pos', nextBatch', size', b) = pos'[t]
      BY <2>2, <2>3, PushedNext
    <2> QED
      BY <1>0, <2>1, <2>2, <2>4 DEF Pushed
  <1>5. ASSUME NEW b \in Batches \ {batch[t]} PROVE Pushed(b)' = Pushed(b)
    <2>1. CASE \E u \in Tasks : current[u] = b
      <3>1. PICK u \in Tasks : current[u] = b
        BY <2>1
      <3>2. \A v \in Tasks : current[v] = b => v = u
        BY <3>1 DEF OneWorks
      <3>3. Pushed(b) = IF batch[u] = b THEN pos[u] ELSE 0
        BY <3>1, <3>2, PushedNow
      <3>4. current'[u] = b /\ \A v \in Tasks : current'[v] = b => v = u
        BY <3>1, <3>2
      <3>5. Pushed(b)' = IF batch'[u] = b THEN pos'[u] ELSE 0
        BY <3>4, PushedNext DEF Pushed
      <3>6. u # t
        BY <1>0, <3>1
      <3> QED
        BY <1>0, <3>3, <3>5, <3>6
    <2>2. CASE \A u \in Tasks : current[u] # b
      <3>1. Pushed(b) = IF b < nextBatch THEN size[b] ELSE 0
        BY <2>2, PushedNow
      <3>2. \A u \in Tasks : current'[u] # b
        BY <2>2
      <3>3. Pushed(b)' = IF b < nextBatch' THEN size'[b] ELSE 0
        BY <3>2, PushedNext DEF Pushed
      <3> QED
        BY <3>1, <3>3
    <2> QED
      BY <2>1, <2>2
  <1>6. \A b \in Batches \ {batch[t]} : given'[b] = given[b]
    BY <1>5 DEF given
  <1>7. given'[batch[t]] = Append(given[batch[t]], <<batch[t], pos[t] + 1>>)
    <2>1. PICK b \in Batches, k \in Nat : b = batch[t] /\ k = pos[t]
      BY <1>0, <1>1
    <2>2. given[b] = [i \in 1..k |-> <<b, i>>]
      BY <1>4, <2>1 DEF given
    <2>3. given'[b] = [i \in 1..k + 1 |-> <<b, i>>]
      BY <1>4, <2>1 DEF given
    <2>4. [i \in 1..k + 1 |-> <<b, i>>] = Append([i \in 1..k |-> <<b, i>>], <<b, k + 1>>)
      OBVIOUS
    <2> QED
      BY <2>1, <2>2, <2>3, <2>4
  <1>8. given' \in [1..NumBatches -> Seq(Pairs)]
    <2>1. given \in [1..NumBatches -> Seq(Pairs)]
      BY GivenType
    <2>2. \A b \in Batches : given[b] \in Seq(Pairs)
      BY <2>1, Sizes
    <2>3. Append(given[batch[t]], <<batch[t], pos[t] + 1>>) \in Seq(Pairs)
      BY <1>0, <1>2, <2>2
    <2>4. \A b \in Batches : given'[b] \in Seq(Pairs)
      BY <1>6, <1>7, <2>2, <2>3
    <2>5. given' = [b \in Batches |-> given'[b]]
      BY DEF given
    <2> QED
      BY <2>4, <2>5, Sizes
  <1> QED
    BY <1>0, <1>1, <1>2, <1>6, <1>7, <1>8

-----------------------------------------------------------------------------
(***************************************************************************)
(* What a step leaves alone.                                               *)
(***************************************************************************)

\* The task t took the step: the other tasks are where they were.
OthersStay(t) ==
  \A u \in Tasks \ {t} : tpc'[u] = tpc[u] /\ batch'[u] = batch[u] /\ minSeen'[u] = minSeen[u]
                         /\ current'[u] = current[u] /\ target'[u] = target[u] /\ pos'[u] = pos[u]

LEMMA PlacesStay ==
  ASSUME BatchedTypes, BatchPlaces, NEW t \in Tasks, OthersStay(t), UNCHANGED size,
         nextBatch' \in 1..MaxBatch, nextBatch <= nextBatch', BatchOf(t)'
  PROVE  BatchPlaces'
  <1>1. nextBatch \in Nat /\ nextBatch' \in Nat /\ nextBatch' <= MaxBatch /\ Batches \subseteq Nat
        /\ MaxBatch \in Nat
    BY Sizes DEF BatchedTypes
  <1>2. ASSUME NEW u \in Tasks \ {t} PROVE BatchOf(u)'
    <2>1. BatchOf(u) /\ batch[u] \in Nat /\ current[u] \in Nat
      BY Sizes DEF BatchPlaces, BatchedTypes
    <2>2. tpc'[u] = tpc[u] /\ batch'[u] = batch[u] /\ current'[u] = current[u]
          /\ target'[u] = target[u] /\ pos'[u] = pos[u]
      BY DEF OthersStay
    <2>3. /\ batch[u] <= nextBatch' /\ (batch[u] \in Batches => batch[u] < nextBatch')
          /\ current[u] \in Batches => current[u] < nextBatch'
          /\ nextBatch = MaxBatch => nextBatch' = MaxBatch
      BY <1>1, <2>1 DEF BatchOf
    <2> QED
      BY <2>1, <2>2, <2>3 DEF BatchOf, Works
  <1> QED
    BY <1>2 DEF BatchPlaces

LEMMA LeastStays ==
  ASSUME BatchedTypes, BatchPlaces, LeastKnown, UNCHANGED <<batch, minSeen>>,
         \A u \in Tasks : Started(u)' <=> Started(u),
         nextBatch' \in 1..MaxBatch, nextBatch <= nextBatch',
         NEW t \in Tasks, Started(t),
         minBatch' = minBatch \/ minBatch' = minSeen[t], minBatch <= minBatch', minBatch' \in 0..MaxBatch,
         \A u \in Tasks : tpc'[u] \in {"should", "append", "done"} =>
           tpc[u] \in {"should", "append", "done"} \/ minSeen[u] <= minBatch'
  PROVE  LeastKnown'
  <1>1. /\ nextBatch \in Nat /\ nextBatch' \in Nat /\ minBatch \in Nat /\ minBatch' \in Nat
        /\ \A u \in Tasks : batch[u] \in Nat /\ minSeen[u] \in Nat
    BY Sizes DEF BatchedTypes
  <1>2. minBatch' <= nextBatch'
    <2>1. minBatch <= nextBatch /\ minSeen[t] <= batch[t] /\ batch[t] <= nextBatch
      BY DEF LeastKnown, BatchPlaces, BatchOf
    <2> QED
      BY <1>1, <2>1
  <1>3. \A u \in Tasks : tpc'[u] \in {"should", "append", "done"} => minSeen[u] <= minBatch'
    <2> TAKE u \in Tasks
    <2>1. tpc[u] \in {"should", "append", "done"} => minSeen[u] <= minBatch
      BY DEF LeastKnown
    <2> QED
      BY <1>1, <2>1
  <1> QED
    BY <1>1, <1>2, <1>3 DEF LeastKnown

LEMMA BlockedStay ==
  ASSUME BatchedTypes, BlockedPlaces, NEW t \in Tasks, Runs(t), tpc[t] # "desched",
         UNCHANGED blockedSinks,
         \A u \in Tasks \ {t} : tpc'[u] = tpc[u] /\ loc'[u] = loc[u] /\ batch'[u] = batch[u]
  PROVE  BlockedPlaces'
  <1>1. ASSUME NEW s \in blockedSinks PROVE s[2] \in Tasks \ {t}
    BY DEF BlockedPlaces, Runs, BatchedTypes
  <1> QED
    BY <1>1 DEF BlockedPlaces

LEMMA CountIs ==
  ASSUME NEW q \in [Batches -> Seq(Pairs)]
  PROVE  /\ Batched!FlattenSeq(q) = FlatTo(q, NumBatches)
         /\ Len(Batched!FlattenSeq(q)) \in Nat
  <1>1. q = [b \in 1..NumBatches |-> q[b]]
    BY Sizes
  <1>2. Batched!FlattenSeq(q) = FlatTo(q, NumBatches)
    BY <1>1 DEF FlatTo
  <1>3. FlatTo(q, NumBatches) \in Seq(Pairs)
    <2>1. NumBatches \in 0..NumBatches /\ q \in [1..NumBatches -> Seq(Pairs)] /\ NumBatches \in Nat
      BY Sizes
    <2> QED
      BY <2>1, FlatStep
  <1> QED
    BY <1>2, <1>3

LEMMA TasksFinite == IsFiniteSet(Tasks) /\ Cardinality(Tasks) = NumTasks
  BY FS_Interval, Sizes DEF Tasks

LEMMA LetInFinite ==
  /\ IsFiniteSet(LetIn) /\ Cardinality(LetIn) \in Nat
  /\ IsFiniteSet(LetIn') /\ Cardinality(LetIn)' \in Nat
  <1>1. LetIn \subseteq Tasks /\ LetIn' \subseteq Tasks
    BY DEF LetIn
  <1>2. IsFiniteSet(LetIn) /\ IsFiniteSet(LetIn')
    BY <1>1, TasksFinite, FS_Subset
  <1>3. Cardinality(LetIn) \in Nat /\ Cardinality(LetIn') \in Nat
    BY <1>2, FS_CardinalityType
  <1> QED
    BY <1>2, <1>3

LEMMA RoomStays ==
  ASSUME BatchedTypes, RoomLeft, buffer' \in [Batches -> Seq(Pairs)],
         \A b \in Batches : buffer'[b] = buffer[b] \/ buffer'[b] = <<>>,
         LetIn' \subseteq LetIn
  PROVE  RoomLeft'
  <1>1. buffer \in [Batches -> Seq(Pairs)]
    BY DEF BatchedTypes
  <1>2. /\ Batched!BufferCount = Len(FlatTo(buffer, NumBatches)) /\ Batched!BufferCount \in Nat
        /\ Batched!BufferCount' = Len(FlatTo(buffer', NumBatches)) /\ Batched!BufferCount' \in Nat
    BY <1>1, CountIs DEF Batched!BufferCount
  <1>3. Batched!BufferCount' <= Batched!BufferCount
    <2>1. /\ buffer \in [1..NumBatches -> Seq(Pairs)] /\ buffer' \in [1..NumBatches -> Seq(Pairs)]
          /\ \A b \in 1..NumBatches : buffer'[b] = buffer[b] \/ buffer'[b] = <<>>
          /\ NumBatches \in Nat
      BY <1>1, Sizes
    <2>2. Len(FlatTo(buffer', NumBatches)) <= Len(FlatTo(buffer, NumBatches))
      BY <2>1, FlatShorter
    <2> QED
      BY <1>2, <2>2
  <1>4. Cardinality(LetIn') <= Cardinality(LetIn)
    BY LetInFinite, FS_Subset
  <1>5. BufferCap \in Nat /\ NumTasks \in Nat /\ Cardinality(LetIn) \in Nat /\ Cardinality(LetIn') \in Nat
    BY Sizes, LetInFinite
  <1>6. PICK c \in Nat, d \in Nat, k \in Nat, l \in Nat :
           /\ c = Batched!BufferCount /\ d = Batched!BufferCount'
           /\ k = Cardinality(LetIn) /\ l = Cardinality(LetIn')
    BY <1>2, <1>5
  <1>7. c + k <= BufferCap + NumTasks - 2
    BY <1>6 DEF RoomLeft
  <1>8. d + l <= BufferCap + NumTasks - 2
    BY <1>3, <1>4, <1>5, <1>6, <1>7
  <1> QED
    BY <1>6, <1>8 DEF RoomLeft

\* Some task is not let in: while all append, one is at the least batch of them.
LEMMA OneStaysOut ==
  ASSUME BatchedTypes, LeastKnown
  PROVE  /\ \E u \in Tasks : u \notin LetIn
         /\ Cardinality(LetIn) <= NumTasks - 1
  <1>1. \E u \in Tasks : u \notin LetIn
    <2> SUFFICES ASSUME \A u \in Tasks : u \in LetIn
                 PROVE  FALSE
      OBVIOUS
    <2>1. 1 \in Tasks /\ \A u \in Tasks : tpc[u] = "append" /\ batch[u] # minBatch /\ Started(u)
      BY Sizes DEF LetIn, Started, Tasks
    <2>2. PICK t \in Tasks, u \in Tasks : minSeen[t] = batch[u]
      BY <2>1 DEF LeastKnown
    <2>3. minSeen[t] <= minBatch /\ minBatch <= batch[u]
      BY <2>1 DEF LeastKnown
    <2>4. minBatch \in Nat /\ batch[u] \in Nat
      BY Sizes DEF BatchedTypes
    <2> QED
      BY <2>1, <2>2, <2>3, <2>4
  <1>2. PICK u \in Tasks : u \notin LetIn
    BY <1>1
  <1>3. LetIn \subseteq Tasks \ {u}
    BY <1>2 DEF LetIn
  <1>4. IsFiniteSet(Tasks \ {u}) /\ Cardinality(Tasks \ {u}) = NumTasks - 1
    BY TasksFinite, FS_RemoveElement
  <1>5. Cardinality(LetIn) <= Cardinality(Tasks \ {u})
    BY <1>3, <1>4, FS_Subset
  <1> QED
    BY <1>1, <1>4, <1>5

-----------------------------------------------------------------------------
(***************************************************************************)
(* The steps of a task.                                                    *)
(***************************************************************************)

LEMMA OneStaysOutNext == BatchedTypes' /\ LeastKnown' => Cardinality(LetIn') <= NumTasks - 1
  <1>1. BatchedTypes /\ LeastKnown => Cardinality(LetIn) <= NumTasks - 1
    BY OneStaysOut
  <1>2. (BatchedTypes /\ LeastKnown => Cardinality(LetIn) <= NumTasks - 1)'
    BY <1>1, PTL
  <1> QED
    BY <1>2

\* The steps that change nothing but where the task is.
LEMMA QuietStep ==
  ASSUME BatchedOrder, NEW t \in Tasks, Started(t), Started(t)',
         UNCHANGED <<size, nextBatch, batch, minSeen, current, target, pos, minBatch, buffer,
                     readQueue, completed, blockedSinks, todo, delivered>>,
         \A u \in Tasks \ {t} : tpc'[u] = tpc[u],
         BatchOf(t)', BlockedPlaces',
         tpc'[t] \in {"should", "append", "done"} =>
           tpc[t] \in {"should", "append", "done"} \/ minSeen[t] <= minBatch,
         RoomLeft' \/ tpc'[t] # "append"
  PROVE  BatchedOrder'
  <1>0. BatchedTypes /\ BatchPlaces /\ OneWorks /\ LeastKnown /\ ChunksInOrder /\ RoomLeft
    BY DEF BatchedOrder
  <1>1. BatchedTypes'
    BY <1>0 DEF BatchedTypes
  <1>2. BatchPlaces'
    <2>1. nextBatch' \in 1..MaxBatch /\ nextBatch <= nextBatch'
      BY <1>0, Sizes DEF BatchedTypes
    <2> QED
      BY <1>0, <2>1, PlacesStay DEF OthersStay
  <1>3. OneWorks' /\ ChunksInOrder'
    <2>1. given' = given /\ Front' = Front
      BY DEF given, Pushed, Front
    <2> QED
      BY <1>0, <2>1 DEF OneWorks, ChunksInOrder
  <1>4. LeastKnown'
    <2>1. \A u \in Tasks : Started(u)' <=> Started(u)
      BY DEF Started
    <2>2. /\ nextBatch' \in 1..MaxBatch /\ nextBatch <= nextBatch'
          /\ minBatch' = minBatch /\ minBatch <= minBatch' /\ minBatch' \in 0..MaxBatch
      BY <1>0, Sizes DEF BatchedTypes
    <2>3. \A u \in Tasks : tpc'[u] \in {"should", "append", "done"} =>
            tpc[u] \in {"should", "append", "done"} \/ minSeen[u] <= minBatch'
      OBVIOUS
    <2> QED
      BY <1>0, <2>1, <2>2, <2>3, LeastStays
  <1>5. RoomLeft'
    <2>1. CASE tpc'[t] # "append"
      <3>1. LetIn' \subseteq LetIn
        BY <2>1 DEF LetIn
      <3>2. buffer' \in [Batches -> Seq(Pairs)] /\ \A b \in Batches : buffer'[b] = buffer[b] \/ buffer'[b] = <<>>
        BY <1>0 DEF BatchedTypes
      <3> QED
        BY <1>0, <3>1, <3>2, RoomStays
    <2> QED
      BY <2>1
  <1> QED
    BY <1>1, <1>2, <1>3, <1>4, <1>5 DEF BatchedOrder

LEMMA QuietActions ==
  ASSUME TasksPlaced, BatchedOrder, NEW t \in Tasks,
         \/ Batched!FetchesSame(t) \/ Batched!Fails(t) \/ Batched!Retries(t) \/ Batched!Combines(t)
         \/ Batched!Rest(t)
  PROVE  BatchedOrder'
  <1> USE DEF Batched!At, Batched!Runs, Runs, Batched!Goes, Goes, Batched!RoundStarts,
              Batched!client, Batched!source, Batched!task, Batched!data, Batched!sinks
  <1>0. /\ BatchedTypes /\ BatchPlaces /\ BlockedPlaces /\ BatchOf(t) /\ tpc \in [Tasks -> TaskPlaces]
        /\ loc \in [Tasks -> Locations]
    BY DEF BatchedOrder, BatchPlaces, TasksPlaced
  <1>1. UNCHANGED <<size, nextBatch, batch, minSeen, current, target, pos, minBatch, buffer,
                     readQueue, completed, blockedSinks, todo, delivered>>
    BY DEF Batched!FetchesSame, Batched!Fails, Batched!Retries, Batched!Combines, Batched!Rest
  <1>2. CASE Batched!PoolTakes(t)
    <2>1. /\ tpc' = tpc /\ loc[t] = "queue" /\ tpc[t] # "desched"
          /\ \A u \in Tasks \ {t} : loc'[u] = loc[u]
      BY <1>0, <1>2 DEF Batched!PoolTakes, TasksPlaced
    <2>2. \A s \in blockedSinks : s[2] # t
      BY <1>0, <2>1 DEF BlockedPlaces
    <2>3. BlockedPlaces'
      BY <1>0, <1>1, <2>1, <2>2 DEF BlockedPlaces, BatchedTypes
    <2>4. BatchedTypes' /\ BatchPlaces'
      BY <1>0, <1>1, <2>1 DEF BatchedTypes, BatchPlaces, BatchOf, Works
    <2>5. OneWorks' /\ ChunksInOrder' /\ LeastKnown'
      <3>1. given' = given /\ Front' = Front
        BY <1>1 DEF given, Pushed, Front
      <3> QED
        BY <1>1, <2>1, <3>1 DEF BatchedOrder, OneWorks, ChunksInOrder, LeastKnown, Started
    <2>6. RoomLeft'
      BY <1>1, <2>1 DEF BatchedOrder, RoomLeft, LetIn, Batched!BufferCount
    <2> QED
      BY <2>3, <2>4, <2>5, <2>6 DEF BatchedOrder
  <1>3. ASSUME NEW q \in TaskPlaces, tpc' = [tpc EXCEPT ![t] = q],
               tpc[t] # "start", q # "start", q # "append",
               q \in {"should", "done"} => FALSE,
               BatchOf(t)', BlockedPlaces'
        PROVE  BatchedOrder'
    BY <1>0, <1>1, <1>3, QuietStep DEF Started
  <1>4. CASE Batched!FetchesSame(t)
    <2>1. tpc' = [tpc EXCEPT ![t] = "push"] /\ tpc[t] = "head" /\ Runs(t) /\ UNCHANGED loc
      BY <1>4 DEF Batched!FetchesSame
    <2>2. batch[t] \in Batches /\ current[t] = batch[t] /\ pos[t] < size[batch[t]]
      BY <1>4, Sizes DEF Batched!FetchesSame
    <2>3. BatchOf(t)'
      BY <1>0, <1>1, <2>1, <2>2 DEF BatchOf, Works, Holding
    <2>4. BlockedPlaces'
      BY <1>0, <1>1, <2>1, BlockedStay
    <2> QED
      BY <1>3, <2>1, <2>3, <2>4 DEF TaskPlaces
  <1>5. CASE Batched!Fails(t)
    <2>1. /\ tpc' = [tpc EXCEPT ![t] = "threw"] /\ tpc[t] = "push" /\ Runs(t)
          /\ loc' = [loc EXCEPT ![t] = "gone"]
      BY <1>5 DEF Batched!Fails, Batched!Throws
    <2>3. BatchOf(t)'
      BY <1>0, <1>1, <2>1 DEF BatchOf, Works, Holding
    <2>4. BlockedPlaces'
      BY <1>0, <1>1, <2>1, BlockedStay
    <2> QED
      BY <1>3, <2>1, <2>3, <2>4 DEF TaskPlaces
  <1>6. CASE Batched!Retries(t)
    <2>1. tpc' = [tpc EXCEPT ![t] = "push"] /\ tpc[t] = "retry" /\ Runs(t) /\ UNCHANGED loc
      BY <1>6 DEF Batched!Retries
    <2>3. BatchOf(t)'
      BY <1>0, <1>1, <2>1 DEF BatchOf, Works, Holding
    <2>4. BlockedPlaces'
      BY <1>0, <1>1, <2>1, BlockedStay
    <2> QED
      BY <1>3, <2>1, <2>3, <2>4 DEF TaskPlaces
  <1>7. CASE Batched!Combines(t)
    <2>1. tpc' = [tpc EXCEPT ![t] = "combine"] /\ tpc[t] = "last" /\ Runs(t) /\ UNCHANGED loc
      BY <1>7 DEF Batched!Combines
    <2>3. BatchOf(t)'
      BY <1>0, <1>1, <2>1 DEF BatchOf, Works, Holding
    <2>4. BlockedPlaces'
      BY <1>0, <1>1, <2>1, BlockedStay
    <2> QED
      BY <1>3, <2>1, <2>3, <2>4 DEF TaskPlaces
  <1>8. CASE Batched!Interrupted(t)
    <2>1. /\ tpc' = [tpc EXCEPT ![t] = "threw"] /\ tpc[t] \in {"head", "retry", "last"} /\ Runs(t)
          /\ loc' = [loc EXCEPT ![t] = "gone"]
      BY <1>8 DEF Batched!Interrupted, Batched!Throws, Batched!Heads
    <2>3. BatchOf(t)'
      BY <1>0, <1>1, <2>1 DEF BatchOf, Works, Holding
    <2>4. BlockedPlaces'
      BY <1>0, <1>1, <2>1, BlockedStay
    <2> QED
      BY <1>3, <2>1, <2>3, <2>4 DEF TaskPlaces
  <1>9. CASE Batched!Deschedules(t)
    <2>1. /\ tpc' = [tpc EXCEPT ![t] = "retry"] /\ tpc[t] = "desched" /\ Runs(t)
          /\ loc' = [loc EXCEPT ![t] = IF cancelled THEN "gone" ELSE "blocked"]
      BY <1>9 DEF Batched!Deschedules
    <2>3. BatchOf(t)'
      BY <1>0, <1>1, <2>1 DEF BatchOf, Works, Holding
    <2>4. BlockedPlaces'
      BY <1>0, <1>1, <2>1 DEF BlockedPlaces, BatchedTypes
    <2> QED
      BY <1>3, <2>1, <2>3, <2>4 DEF TaskPlaces
  <1> QED
    BY <1>2, <1>4, <1>5, <1>6, <1>7, <1>8, <1>9 DEF Batched!Rest

LEMMA DecidesKeeps ==
  ASSUME TasksPlaced, BatchedOrder, NEW t \in Tasks, Batched!Decides(t)
  PROVE  BatchedOrder'
  <1> USE DEF Batched!At, Batched!Runs, Runs, Batched!Goes, Goes,
              Batched!client, Batched!source, Batched!task, Batched!data, Batched!sinks
  <1>0. /\ BatchedTypes /\ BatchPlaces /\ BlockedPlaces /\ BatchOf(t) /\ tpc \in [Tasks -> TaskPlaces]
        /\ LeastKnown /\ RoomLeft
    BY DEF BatchedOrder, BatchPlaces, TasksPlaced
  <1>1. UNCHANGED <<size, nextBatch, batch, minSeen, current, target, pos, minBatch, buffer,
                     readQueue, completed, blockedSinks, todo, delivered, loc>>
    BY DEF Batched!Decides
  <1>2. PICK q \in {"block", "append"} : tpc' = [tpc EXCEPT ![t] = q]
                    /\ (q = "append" <=> ~Batched!NoRoomFor(batch[t]))
    BY DEF Batched!Decides
  <1>3. tpc[t] = "should" /\ Runs(t)
    BY DEF Batched!Decides
  <1>4. BatchOf(t)' /\ BlockedPlaces'
    <2>1. BatchOf(t)'
      BY <1>0, <1>1, <1>2, <1>3 DEF BatchOf, Works, Holding
    <2> QED
      BY <1>0, <1>1, <1>2, <1>3, <2>1, BlockedStay
  <1>5. Started(t) /\ Started(t)' /\ \A u \in Tasks \ {t} : tpc'[u] = tpc[u]
    BY <1>0, <1>2, <1>3 DEF Started
  <1>6. CASE q = "append" /\ batch[t] # minBatch
    <2>1. Batched!BufferCount < BufferCap
      <3>1. ~(Batched!BufferCount >= BufferCap)
        BY <1>2, <1>6 DEF Batched!NoRoomFor
      <3>2. Batched!BufferCount \in Nat
        BY <1>0, CountIs DEF BatchedTypes, Batched!BufferCount
      <3> QED
        BY <3>1, <3>2, Sizes
    <2>2. BatchedTypes' /\ LeastKnown'
      <3>1. BatchedTypes'
        BY <1>0, <1>1 DEF BatchedTypes
      <3>2. minSeen[t] <= minBatch
        BY <1>0, <1>3 DEF LeastKnown
      <3>3. \A u \in Tasks : Started(u)' <=> Started(u)
        BY <1>5 DEF Started
      <3>4. \A u \in Tasks : tpc'[u] \in {"should", "append", "done"} => minSeen[u] <= minBatch
        BY <1>0, <1>5, <3>2 DEF LeastKnown
      <3>5. LeastKnown'
        BY <1>0, <1>1, <3>3, <3>4 DEF LeastKnown
      <3> QED
        BY <3>1, <3>5
    <2>3. Cardinality(LetIn') <= NumTasks - 1
      BY <2>2, OneStaysOutNext
    <2>4. Batched!BufferCount' = Batched!BufferCount /\ Batched!BufferCount \in Nat
      BY <1>0, <1>1, CountIs DEF BatchedTypes, Batched!BufferCount
    <2>5. RoomLeft'
      <3>1. PICK c \in Nat, l \in Nat : c = Batched!BufferCount /\ l = Cardinality(LetIn')
        BY <2>4, LetInFinite
      <3>2. c + l <= BufferCap + NumTasks - 2
        BY <2>1, <2>3, <3>1, Sizes
      <3> QED
        BY <2>4, <3>1, <3>2 DEF RoomLeft
    <2> QED
      BY <1>0, <1>1, <1>3, <1>4, <1>5, <2>5, QuietStep
  <1>7. CASE ~(q = "append" /\ batch[t] # minBatch)
    <2>1. LetIn' \subseteq LetIn
      BY <1>0, <1>1, <1>2, <1>7 DEF LetIn
    <2>2. buffer' \in [Batches -> Seq(Pairs)] /\ \A b \in Batches : buffer'[b] = buffer[b] \/ buffer'[b] = <<>>
      BY <1>0, <1>1 DEF BatchedTypes
    <2>3. RoomLeft'
      BY <1>0, <2>1, <2>2, RoomStays
    <2> QED
      BY <1>0, <1>1, <1>3, <1>4, <1>5, <2>3, QuietStep
  <1> QED
    BY <1>6, <1>7

\* The steps that call UpdateMinBatchIndex.
LEMMA UpdateStep ==
  ASSUME BatchedOrder, NEW t \in Tasks, Runs(t), Batched!UpdateMinBatchIndex(minSeen[t]),
         tpc \in [Tasks -> TaskPlaces], tpc' \in [Tasks -> TaskPlaces],
         \A u \in Tasks \ {t} : tpc'[u] = tpc[u],
         tpc[t] \notin {"start", "desched"}, tpc'[t] \notin {"start", "append"},
         UNCHANGED <<size, nextBatch, batch, minSeen, current, target, pos, blockedSinks, todo,
                     delivered>>,
         \A u \in Tasks \ {t} : loc'[u] = loc[u],
         BatchOf(t)'
  PROVE  BatchedOrder'
  <1>0. /\ BatchedTypes /\ BatchPlaces /\ OneWorks /\ LeastKnown /\ ChunksInOrder
        /\ BlockedPlaces /\ RoomLeft
    BY DEF BatchedOrder
  <1>1. minSeen[t] \in 0..MaxBatch /\ minBatch \in 0..MaxBatch /\ MaxBatch \in Nat
    BY <1>0, Sizes DEF BatchedTypes
  <1>2. /\ minBatch' = (IF minSeen[t] > minBatch THEN minSeen[t] ELSE minBatch)
        /\ minBatch' \in 0..MaxBatch
        /\ buffer' \in [Batches -> Seq(Pairs)] /\ readQueue' \in Seq(Pairs)
        /\ completed' \subseteq Batches
        /\ \A b \in Batches : buffer'[b] = buffer[b] \/ buffer'[b] = <<>>
        /\ ChunksInOrder'
    BY <1>0, <1>1, UpdateMoves
  <1>3. BatchedTypes'
    BY <1>0, <1>2 DEF BatchedTypes
  <1>4. /\ \A u \in Tasks \ {t} : tpc'[u] = tpc[u]
        /\ tpc'[t] \notin {"start", "append"} /\ tpc[t] # "start"
    OBVIOUS
  <1>5. nextBatch' \in 1..MaxBatch /\ nextBatch <= nextBatch'
    BY <1>0, Sizes DEF BatchedTypes
  <1>6. BatchPlaces'
    BY <1>0, <1>4, <1>5, PlacesStay DEF OthersStay
  <1>7. OneWorks'
    BY <1>0 DEF OneWorks
  <1>8. LeastKnown'
    <2>1. Started(t) /\ \A u \in Tasks : Started(u)' <=> Started(u)
      BY <1>4 DEF Started
    <2>2. (minBatch' = minBatch \/ minBatch' = minSeen[t]) /\ minBatch <= minBatch'
          /\ minSeen[t] <= minBatch'
      BY <1>1, <1>2
    <2>3. \A u \in Tasks : tpc'[u] \in {"should", "append", "done"} =>
            tpc[u] \in {"should", "append", "done"} \/ minSeen[u] <= minBatch'
      BY <1>4, <2>2
    <2> QED
      BY <1>0, <1>2, <1>5, <2>1, <2>2, <2>3, LeastStays
  <1>9. BlockedPlaces'
    BY <1>0, <1>4, BlockedStay
  <1>10. RoomLeft'
    <2>1. LetIn' \subseteq LetIn
      <3>1. ASSUME NEW u \in Tasks, tpc'[u] = "append", batch'[u] # minBatch' PROVE batch[u] # minBatch
        <4>1. u # t /\ tpc[u] = "append" /\ Started(u)
          BY <1>4, <3>1 DEF Started
        <4>2. CASE minBatch' = minBatch
          BY <3>1, <4>2
        <4>3. CASE minBatch' = minSeen[t] /\ minSeen[t] > minBatch
          <5>1. minSeen[t] <= batch[u] /\ batch[u] \in Nat
            BY <1>0, <4>1, Sizes DEF LeastKnown, Started, BatchedTypes
          <5> QED
            BY <1>1, <4>3, <5>1
        <4> QED
          BY <1>2, <4>2, <4>3
      <3>2. \A u \in Tasks : tpc'[u] = "append" => tpc[u] = "append"
        BY <1>4
      <3> QED
        BY <3>1, <3>2 DEF LetIn
    <2> QED
      BY <1>0, <1>2, <2>1, RoomStays
  <1> QED
    BY <1>2, <1>3, <1>6, <1>7, <1>8, <1>9, <1>10 DEF BatchedOrder

LEMMA UpdateActions ==
  ASSUME TasksPlaced, BatchedOrder, NEW t \in Tasks,
         Batched!UpdatesMin(t) \/ Batched!Pushes(t) \/ Batched!Ends(t)
  PROVE  BatchedOrder'
  <1> USE DEF Batched!At, Batched!Runs, Runs, Batched!Goes, Goes,
              Batched!client, Batched!source, Batched!task, Batched!sinks
  <1>0. BatchOf(t) /\ tpc \in [Tasks -> TaskPlaces] /\ loc \in [Tasks -> Locations]
    BY DEF BatchedOrder, BatchPlaces, TasksPlaced
  <1>1. CASE Batched!UpdatesMin(t)
    <2>1. /\ tpc' = [tpc EXCEPT ![t] = "reindex"] /\ tpc[t] = "nextmin" /\ Runs(t)
          /\ Batched!UpdateMinBatchIndex(minSeen[t]) /\ UNCHANGED loc
          /\ UNCHANGED <<size, nextBatch, batch, minSeen, current, target, pos, blockedSinks,
                         todo, delivered>>
      BY <1>1 DEF Batched!UpdatesMin
    <2>2. BatchOf(t)'
      BY <1>0, <2>1 DEF BatchOf, Works, Holding
    <2>3. \A u \in Tasks \ {t} : loc'[u] = loc[u]
      BY <2>1
    <2>4. /\ tpc' \in [Tasks -> TaskPlaces] /\ \A u \in Tasks \ {t} : tpc'[u] = tpc[u]
          /\ tpc[t] \notin {"start", "desched"} /\ tpc'[t] \notin {"start", "append"}
      BY <1>0, <2>1 DEF TaskPlaces
    <2> QED
      BY <1>0, <2>1, <2>2, <2>3, <2>4, UpdateStep
  <1>2. CASE Batched!Pushes(t)
    <2>1. /\ tpc' = [tpc EXCEPT ![t] = "should"] /\ tpc[t] = "push" /\ Runs(t)
          /\ Batched!UpdateMinBatchIndex(minSeen[t]) /\ UNCHANGED loc
          /\ UNCHANGED <<size, nextBatch, batch, minSeen, current, target, pos, blockedSinks,
                         todo, delivered>>
      BY <1>2 DEF Batched!Pushes
    <2>2. BatchOf(t)'
      BY <1>0, <2>1 DEF BatchOf, Works, Holding
    <2>3. \A u \in Tasks \ {t} : loc'[u] = loc[u]
      BY <2>1
    <2>4. /\ tpc' \in [Tasks -> TaskPlaces] /\ \A u \in Tasks \ {t} : tpc'[u] = tpc[u]
          /\ tpc[t] \notin {"start", "desched"} /\ tpc'[t] \notin {"start", "append"}
      BY <1>0, <2>1 DEF TaskPlaces
    <2> QED
      BY <1>0, <2>1, <2>2, <2>3, <2>4, UpdateStep
  <1>3. CASE Batched!Ends(t)
    <2>1. /\ tpc' = [tpc EXCEPT ![t] = "done"] /\ tpc[t] = "combine" /\ Runs(t)
          /\ Batched!UpdateMinBatchIndex(minSeen[t]) /\ loc' = [loc EXCEPT ![t] = "gone"]
          /\ UNCHANGED <<size, nextBatch, batch, minSeen, current, target, pos, blockedSinks,
                         todo, delivered>>
      BY <1>3 DEF Batched!Ends, Batched!Finishes
    <2>2. BatchOf(t)'
      BY <1>0, <2>1 DEF BatchOf, Works, Holding
    <2>3. \A u \in Tasks \ {t} : loc'[u] = loc[u]
      BY <1>0, <2>1
    <2>4. /\ tpc' \in [Tasks -> TaskPlaces] /\ \A u \in Tasks \ {t} : tpc'[u] = tpc[u]
          /\ tpc[t] \notin {"start", "desched"} /\ tpc'[t] \notin {"start", "append"}
      BY <1>0, <2>1 DEF TaskPlaces
    <2> QED
      BY <1>0, <2>1, <2>2, <2>3, <2>4, UpdateStep
  <1> QED
    BY <1>1, <1>2, <1>3

LEMMA StartsKeeps ==
  ASSUME TasksPlaced, BatchedOrder, NEW t \in Tasks, Batched!Starts(t)
  PROVE  BatchedOrder'
  <1> USE DEF Batched!At, Batched!Runs, Runs, Batched!Goes, Goes,
              Batched!client, Batched!source, Batched!task, Batched!data, Batched!sinks
  <1> DEFINE R == Batched!Registered
             m == IF R = {} THEN 0 ELSE Batched!Min(R)
  <1>0. /\ BatchedTypes /\ BatchPlaces /\ OneWorks /\ LeastKnown /\ ChunksInOrder
        /\ BlockedPlaces /\ RoomLeft /\ BatchOf(t) /\ tpc \in [Tasks -> TaskPlaces]
    BY DEF BatchedOrder, BatchPlaces, TasksPlaced
  <1>1. /\ tpc' = [tpc EXCEPT ![t] = "head"] /\ tpc[t] = "start" /\ Runs(t)
        /\ batch' = [batch EXCEPT ![t] = m] /\ minSeen' = [minSeen EXCEPT ![t] = m]
        /\ UNCHANGED <<loc, size, nextBatch, current, target, pos, minBatch, buffer, readQueue,
                       completed, blockedSinks, todo, delivered>>
    BY DEF Batched!Starts, Batched!NoBatch
  <1>2. R = {batch[u] : u \in {v \in Tasks : Started(v)}}
    BY Sizes DEF Batched!Registered, Started
  <1>3. /\ m \in Nat /\ (R = {} => m = 0) /\ (R # {} => m \in R /\ \A x \in R : m <= x)
    <2>1. \A u \in Tasks : batch[u] \in Nat
      BY <1>0, Sizes DEF BatchedTypes
    <2>2. R \in SUBSET Nat
      BY <1>2, <2>1
    <2> HIDE DEF R
    <2> QED
      BY <2>2, LeastIs
  <1> HIDE DEF R, m
  <1>4. /\ m \in 0..MaxBatch /\ m <= nextBatch /\ (m \in Batches => m < nextBatch)
    <2>1. CASE R = {}
      BY <1>0, <1>3, <2>1, Sizes DEF BatchedTypes
    <2>2. CASE R # {}
      <3>1. PICK u \in Tasks : m = batch[u]
        BY <1>2, <1>3, <2>2
      <3> QED
        BY <1>0, <3>1 DEF BatchedTypes, BatchPlaces, BatchOf
    <2> QED
      BY <2>1, <2>2
  <1>5. BatchedTypes'
    BY <1>0, <1>1, <1>4 DEF BatchedTypes
  <1>6. /\ tpc'[t] = "head" /\ batch'[t] = m /\ minSeen'[t] = m /\ current'[t] = 0
        /\ \A u \in Tasks \ {t} : tpc'[u] = tpc[u] /\ batch'[u] = batch[u] /\ minSeen'[u] = minSeen[u]
    BY <1>0, <1>1 DEF BatchOf, BatchedTypes
  <1>7. BatchPlaces'
    <2>1. nextBatch' \in 1..MaxBatch /\ nextBatch <= nextBatch'
      BY <1>0, <1>1, Sizes DEF BatchedTypes
    <2>2. 0 \notin Batches
      BY Sizes
    <2>3. BatchOf(t)'
      BY <1>1, <1>4, <1>6, <2>2 DEF BatchOf, Works, Holding
    <2> QED
      BY <1>0, <1>1, <1>6, <2>1, <2>3, PlacesStay DEF OthersStay
  <1>8. OneWorks'
    BY <1>0, <1>1 DEF OneWorks
  <1>9. LeastKnown'
    <2>1. \A u \in Tasks : Started(u)' <=> Started(u) \/ u = t
      BY <1>0, <1>1 DEF Started
    <2>2. ~Started(t)
      BY <1>1 DEF Started
    <2>3. \A u \in Tasks : batch[u] \in Nat /\ minSeen[u] \in Nat
      BY <1>0, Sizes DEF BatchedTypes
    <2>3a. minBatch \in Nat
      BY <1>0, Sizes DEF BatchedTypes
    <2>4. \A u \in Tasks : Started(u) => m <= batch[u] /\ minSeen[u] <= m /\ minBatch <= m
      <3> TAKE u \in Tasks
      <3> HAVE Started(u)
      <3>1. R # {} /\ m <= batch[u]
        BY <1>2, <1>3
      <3>2. PICK v \in Tasks : Started(v) /\ m = batch[v]
        BY <1>2, <1>3, <3>1
      <3> QED
        BY <1>0, <3>1, <3>2 DEF LeastKnown
    <2>5. (\A u \in Tasks : ~Started(u)) => minBatch <= m
      <3>0. SUFFICES ASSUME \A u \in Tasks : ~Started(u)
                     PROVE  minBatch <= m
        OBVIOUS
      <3>1. minBatch = 0
        BY <1>0, <3>0 DEF LeastKnown
      <3> QED
        BY <1>3, <3>1
    <2>6. minBatch <= m
      BY <2>4, <2>5
    <2>7. \A u, v \in Tasks : Started(u)' /\ Started(v)' => minSeen'[u] <= batch'[v] /\ minBatch' <= batch'[v]
      BY <1>0, <1>1, <1>3, <1>6, <2>1, <2>3, <2>4, <2>6 DEF LeastKnown
    <2>8. \E u, v \in Tasks : Started(u)' /\ Started(v)' /\ minSeen'[u] = batch'[v]
      BY <1>6, <2>1
    <2>9. \A u \in Tasks : tpc'[u] \in {"should", "append", "done"} => minSeen'[u] <= minBatch'
      BY <1>0, <1>1, <1>6 DEF LeastKnown
    <2>10. minBatch' <= nextBatch'
      BY <1>0, <1>1 DEF LeastKnown
    <2> QED
      BY <2>7, <2>8, <2>9, <2>10 DEF LeastKnown
  <1>10. ChunksInOrder'
    <2>1. \A b \in Batches : Pushed(b)' = Pushed(b)
      <3> TAKE b \in Batches
      <3>1. b # 0 /\ current[t] # b /\ current' = current
        BY <1>0, <1>1, Sizes DEF BatchOf
      <3>2. CASE \E u \in Tasks : current[u] = b
        <4>1. PICK u \in Tasks : current[u] = b
          BY <3>2
        <4>2. \A v \in Tasks : current[v] = b => v = u
          BY <1>0, <4>1 DEF OneWorks
        <4>3. Pushed(b) = IF batch[u] = b THEN pos[u] ELSE 0
          BY <4>1, <4>2, PushedNow
        <4>4. current'[u] = b /\ \A v \in Tasks : current'[v] = b => v = u
          BY <3>1, <4>1, <4>2
        <4>5. Pushed(b)' = IF batch'[u] = b THEN pos'[u] ELSE 0
          BY <4>4, PushedNext DEF Pushed
        <4>6. u # t
          BY <3>1, <4>1
        <4> QED
          BY <1>1, <1>6, <4>3, <4>5, <4>6
      <3>3. CASE \A u \in Tasks : current[u] # b
        <4>1. Pushed(b) = IF b < nextBatch THEN size[b] ELSE 0
          BY <3>3, PushedNow
        <4>2. \A u \in Tasks : current'[u] # b
          BY <3>1, <3>3
        <4>3. Pushed(b)' = IF b < nextBatch' THEN size'[b] ELSE 0
          BY <4>2, PushedNext DEF Pushed
        <4> QED
          BY <1>1, <4>1, <4>3
      <3> QED
        BY <3>2, <3>3
    <2> QED
      BY <1>0, <1>1, <2>1 DEF ChunksInOrder, given, Front
  <1>11. BlockedPlaces'
    BY <1>0, <1>1, <1>6, BlockedStay
  <1>12. RoomLeft'
    <2>1. LetIn' \subseteq LetIn
      BY <1>1, <1>6 DEF LetIn
    <2>2. buffer' \in [Batches -> Seq(Pairs)] /\ \A b \in Batches : buffer'[b] = buffer[b] \/ buffer'[b] = <<>>
      BY <1>0, <1>1 DEF BatchedTypes
    <2> QED
      BY <1>0, <2>1, <2>2, RoomStays
  <1> QED
    BY <1>5, <1>7, <1>8, <1>9, <1>10, <1>11, <1>12 DEF BatchedOrder

LEMMA FetchesNextKeeps ==
  ASSUME TasksPlaced, BatchedOrder, NEW t \in Tasks, Batched!FetchesNext(t)
  PROVE  BatchedOrder'
  <1>0. /\ BatchedTypes /\ BatchPlaces /\ OneWorks /\ LeastKnown /\ ChunksInOrder
        /\ BlockedPlaces /\ RoomLeft /\ BatchOf(t) /\ tpc \in [Tasks -> TaskPlaces]
    BY DEF BatchedOrder, BatchPlaces, TasksPlaced
  <1>1. /\ Runs(t) /\ tpc[t] = "head"
        /\ ~(Works(t) /\ pos[t] < size[batch[t]])
        /\ nextBatch' = Batched!Min({nextBatch + 1, MaxBatch})
        /\ target' = [target EXCEPT ![t] = nextBatch]
        /\ UNCHANGED <<loc, size, batch, minSeen, pos, minBatch, buffer, readQueue,
                       blockedSinks, todo, delivered>>
    BY Sizes DEF Batched!FetchesNext, Batched!At, Batched!Runs, Runs, Works, Batched!sinks
  <1>2. \/ /\ nextBatch = batch[t]
           /\ tpc' = [tpc EXCEPT ![t] = "last"] /\ UNCHANGED <<current, completed>>
        \/ /\ nextBatch # batch[t]
           /\ tpc' = [tpc EXCEPT ![t] = "nextmin"]
           /\ current' = [current EXCEPT ![t] = nextBatch]
           /\ completed' = completed \cup {b \in {current[t]} \cap Batches : buffer[b] # <<>>}
    BY Sizes DEF Batched!FetchesNext, Batched!Goes
  <1>3. /\ nextBatch \in 1..MaxBatch /\ batch[t] \in 0..MaxBatch /\ current[t] \in 0..MaxBatch
        /\ batch[t] <= nextBatch /\ (batch[t] \in Batches => batch[t] < nextBatch)
        /\ current[t] = 0 \/ Works(t)
    BY <1>0, <1>1 DEF BatchedTypes, BatchOf
  <1>4. \A u \in Tasks \ {t} : tpc'[u] = tpc[u] /\ current'[u] = current[u] /\ target'[u] = target[u]
    BY <1>0, <1>1, <1>2 DEF BatchedTypes
  <1>5. /\ given' = given
        /\ nextBatch' \in 1..MaxBatch /\ nextBatch <= nextBatch'
        /\ nextBatch \in Batches => nextBatch < nextBatch'
        /\ nextBatch = MaxBatch => nextBatch' = MaxBatch
    <2>1. CASE nextBatch = batch[t]
      <3>1. nextBatch = MaxBatch
        BY <1>3, <2>1, Sizes
      <3>2. nextBatch' = MaxBatch
        <4>1. MaxBatch + 1 \in Nat /\ MaxBatch \in Nat /\ ~(MaxBatch + 1 <= MaxBatch)
          BY Sizes
        <4> QED
          BY <1>1, <3>1, <4>1, LessOfTwo
      <3>3. given' = given
        BY <1>1, <1>2, <2>1, <3>1, <3>2 DEF given, Pushed
      <3> QED
        BY <1>3, <3>1, <3>2, <3>3, Sizes
    <2>2. CASE nextBatch # batch[t]
      BY <1>0, <1>1, <1>2, <2>2, FetchPushes
    <2> QED
      BY <2>1, <2>2
  <1>6. BatchedTypes'
    <2>1. nextBatch \in 0..MaxBatch
      BY <1>3, Sizes
    <2>2. current' \in [Tasks -> 0..MaxBatch] /\ target' \in [Tasks -> 0..MaxBatch] /\ completed' \subseteq Batches
      BY ZenonT(60), <1>0, <1>1, <1>2, <2>1 DEF BatchedTypes
    <2> QED
      BY <1>0, <1>1, <1>5, <2>2 DEF BatchedTypes
  <1>7. BatchOf(t)'
    <2>0. target \in [Tasks -> 0..MaxBatch] /\ current \in [Tasks -> 0..MaxBatch]
          /\ Batches \subseteq Nat /\ MaxBatch \notin Batches /\ 0 \notin Batches /\ MaxBatch \in Nat
          /\ Batches = 1..NumBatches /\ MaxBatch = NumBatches + 1 /\ NumBatches \in Nat
      BY <1>0, Sizes DEF BatchedTypes
    <2>1. CASE nextBatch = batch[t]
      <3>1. nextBatch = MaxBatch /\ current[t] \notin Batches
        BY <1>3, <2>0, <2>1 DEF Works
      <3>2. tpc'[t] = "last" /\ current'[t] = current[t] /\ batch'[t] = batch[t]
            /\ nextBatch' = MaxBatch
        BY <1>0, <1>1, <1>2, <1>5, <2>1, <3>1
      <3> QED
        BY <1>3, <2>0, <2>1, <3>1, <3>2 DEF BatchOf, Works, Holding
    <2>2. CASE nextBatch # batch[t]
      <3>1. tpc'[t] = "nextmin" /\ current'[t] = nextBatch /\ target'[t] = nextBatch /\ batch'[t] = batch[t]
        BY <1>0, <1>1, <1>2, <2>0, <2>2
      <3>2. batch[t] < nextBatch
        BY <1>3, <2>2, Sizes
      <3>3. batch[t] <= nextBatch' /\ batch[t] < nextBatch'
        BY <1>3, <1>5, <3>2, Sizes
      <3> QED
        BY <1>3, <1>5, <3>1, <3>2, <3>3 DEF BatchOf, Works, Holding
    <2> QED
      BY <2>1, <2>2
  <1>8. BatchPlaces'
    BY <1>0, <1>1, <1>4, <1>5, <1>7, PlacesStay DEF OthersStay
  <1>9. OneWorks'
    <2>1. CASE nextBatch = batch[t]
      BY <1>0, <1>2, <2>1 DEF OneWorks
    <2>2. CASE nextBatch # batch[t]
      <3>1. \A u \in Tasks : current'[u] = IF u = t THEN nextBatch ELSE current[u]
        BY <1>0, <1>2, <2>2 DEF BatchedTypes
      <3>2. \A u \in Tasks : current[u] \in Batches => current[u] # nextBatch
        <4> TAKE u \in Tasks
        <4> HAVE current[u] \in Batches
        <4>1. current[u] < nextBatch /\ current[u] \in Nat
          BY <1>0, Sizes DEF BatchPlaces, BatchOf
        <4> QED
          BY <1>3, <4>1
      <3>3. \A u, v \in Tasks : current'[u] \in Batches /\ current'[u] = current'[v] => u = v
        BY <1>0, <3>1, <3>2 DEF OneWorks
      <3> QED
        BY <3>3 DEF OneWorks
    <2> QED
      BY <2>1, <2>2
  <1>10. LeastKnown'
    <2>1. Started(t) /\ \A u \in Tasks : Started(u)' <=> Started(u)
      BY <1>0, <1>1, <1>2 DEF Started
    <2>2. minBatch' = minBatch /\ minBatch <= minBatch' /\ minBatch' \in 0..MaxBatch
      BY <1>0, <1>1, Sizes DEF BatchedTypes
    <2>3. \A u \in Tasks : tpc'[u] \in {"should", "append", "done"} =>
            tpc[u] \in {"should", "append", "done"} \/ minSeen[u] <= minBatch'
      BY <1>0, <1>2
    <2> QED
      BY <1>0, <1>1, <1>5, <2>1, <2>2, <2>3, LeastStays
  <1>11. ChunksInOrder'
    <2>1. ASSUME NEW b \in Batches, buffer[b] # <<>>, \A u \in Tasks : current'[u] # b
          PROVE  b \in completed'
      <3>1. CASE \A u \in Tasks : current[u] # b
        BY <1>0, <1>2, <2>1, <3>1 DEF ChunksInOrder
      <3>2. CASE \E u \in Tasks : current[u] = b
        <4>1. PICK u \in Tasks : current[u] = b
          BY <3>2
        <4>2. current[t] = b
          BY <1>4, <2>1, <4>1
        <4>3. nextBatch # batch[t]
          BY <1>2, <2>1, <4>1
        <4> QED
          BY <1>2, <2>1, <4>2, <4>3
      <3> QED
        BY <3>1, <3>2
    <2>2. Front' = Front
      BY <1>1 DEF Front
    <2> QED
      BY <1>0, <1>1, <1>5, <2>1, <2>2 DEF ChunksInOrder
  <1>12. BlockedPlaces'
    BY <1>0, <1>1, <1>4, BlockedStay
  <1>13. RoomLeft'
    <2>1. LetIn' \subseteq LetIn
      BY <1>0, <1>1, <1>2 DEF LetIn
    <2>2. buffer' \in [Batches -> Seq(Pairs)] /\ \A b \in Batches : buffer'[b] = buffer[b] \/ buffer'[b] = <<>>
      BY <1>0, <1>1 DEF BatchedTypes
    <2> QED
      BY <1>0, <2>1, <2>2, RoomStays
  <1> QED
    BY <1>6, <1>8, <1>9, <1>10, <1>11, <1>12, <1>13 DEF BatchedOrder

LEMMA ReindexKeeps ==
  ASSUME TasksPlaced, BatchedOrder, NEW t \in Tasks, Batched!Reindexes(t)
  PROVE  BatchedOrder'
  <1> DEFINE R == {batch'[u] : u \in {v \in Tasks : Started(v)}}
             m == Batched!Min(R)
  <1>0. /\ BatchedTypes /\ BatchPlaces /\ OneWorks /\ LeastKnown /\ ChunksInOrder
        /\ BlockedPlaces /\ RoomLeft /\ BatchOf(t) /\ tpc \in [Tasks -> TaskPlaces]
    BY DEF BatchedOrder, BatchPlaces, TasksPlaced
  <1>1. /\ Runs(t) /\ tpc[t] = "reindex"
        /\ batch' = [batch EXCEPT ![t] = target[t]] /\ minSeen' = [minSeen EXCEPT ![t] = m]
        /\ pos' = [pos EXCEPT ![t] = 0]
        /\ UNCHANGED <<loc, size, nextBatch, current, target, minBatch, buffer, readQueue,
                       completed, blockedSinks, todo, delivered>>
    BY Sizes DEF Batched!Reindexes, Batched!At, Batched!Runs, Runs, Batched!sinks, Batched!data,
                 Batched!source, Started
  <1>2. PICK q \in {"last", "head", "push"} :
          /\ tpc' = [tpc EXCEPT ![t] = q]
          /\ q = "last" <=> target[t] = MaxBatch
          /\ q = "push" => size[target[t]] # 0
    <2>1. tpc' = [tpc EXCEPT ![t] = CASE target[t] = MaxBatch  -> "last"
               [] target[t] # MaxBatch /\ size[target[t]] = 0 -> "head"
               [] OTHER -> "push"]
      BY Sizes DEF Batched!Reindexes, Batched!Goes
    <2>2. CASE target[t] = MaxBatch
      BY <2>1, <2>2
    <2>3. CASE target[t] # MaxBatch /\ size[target[t]] = 0
      BY <2>1, <2>3
    <2>4. CASE target[t] # MaxBatch /\ size[target[t]] # 0
      BY <2>1, <2>4
    <2> QED
      BY <2>2, <2>3, <2>4
  <1>3. /\ current[t] = target[t] /\ batch[t] < target[t] /\ target[t] \in 0..MaxBatch
        /\ batch[t] \in 0..MaxBatch /\ (target[t] = MaxBatch => nextBatch = MaxBatch)
        /\ (current[t] \in Batches => current[t] < nextBatch)
    BY <1>0, <1>1 DEF BatchOf, BatchedTypes
  <1>4. target[t] \in 1..MaxBatch /\ (target[t] # MaxBatch => target[t] \in Batches)
        /\ target[t] <= nextBatch /\ batch[t] # target[t]
    <2>1. nextBatch \in 1..MaxBatch
      BY <1>0 DEF BatchedTypes
    <2> QED
      BY <1>3, <2>1, Sizes
  <1>5. /\ \A u \in Tasks \ {t} : tpc'[u] = tpc[u] /\ batch'[u] = batch[u] /\ minSeen'[u] = minSeen[u]
                                  /\ pos'[u] = pos[u]
        /\ tpc'[t] = q /\ batch'[t] = target[t] /\ minSeen'[t] = m /\ pos'[t] = 0
    BY <1>0, <1>1, <1>2 DEF BatchedTypes
  <1>6. \A u \in Tasks : batch[u] \in Nat /\ batch'[u] \in Nat /\ minSeen[u] \in Nat /\ batch[u] <= batch'[u]
                         /\ batch'[u] \in 0..MaxBatch /\ batch'[u] <= nextBatch
    <2> TAKE u \in Tasks
    <2>1. batch[u] \in 0..MaxBatch /\ minSeen[u] \in Nat /\ batch[u] <= nextBatch
      BY <1>0, Sizes DEF BatchedTypes, BatchPlaces, BatchOf
    <2> QED
      BY <1>3, <1>4, <1>5, <2>1, Sizes
  <1>7. m \in R /\ \A x \in R : m <= x
    <2>1. R \in SUBSET Nat /\ R # {}
      <3>1. Started(t)
        BY <1>1 DEF Started
      <3> QED
        BY <1>6, <3>1
    <2> HIDE DEF R
    <2> QED
      BY <2>1, LeastIs
  <1>8. PICK w \in Tasks : Started(w) /\ m = batch'[w]
    BY <1>7
  <1>8a. \A u \in Tasks : Started(u) => m <= batch'[u]
    BY <1>7
  <1>9. m \in 0..MaxBatch
    BY <1>6, <1>8
  <1> HIDE DEF R, m
  <1>10. BatchedTypes'
    <2>1. 0 \in 0..MaxPer /\ 0..MaxPer \subseteq Nat
      BY Sizes
    <2> QED
      BY <1>0, <1>1, <1>3, <1>9, <2>1 DEF BatchedTypes
  <1>11. BatchOf(t)'
    <2>1. CASE target[t] = MaxBatch
      <3>1. q = "last" /\ MaxBatch \notin Batches
        BY <1>2, <2>1, Sizes
      <3> QED
        BY <1>1, <1>3, <1>4, <1>5, <2>1, <3>1 DEF BatchOf, Works, Holding
    <2>2. CASE target[t] # MaxBatch
      <3>1. target[t] \in Batches /\ size[target[t]] \in Nat /\ target[t] < nextBatch
        BY <1>0, <1>3, <1>4, <2>2, Sizes DEF BatchedTypes
      <3>2. q \in {"head", "push"} /\ (q = "push" => 0 < size[target[t]]) /\ 0 <= size[target[t]]
        BY <1>2, <2>2, <3>1
      <3> QED
        BY <1>1, <1>3, <1>4, <1>5, <2>2, <3>1, <3>2 DEF BatchOf, Works, Holding
    <2> QED
      BY <2>1, <2>2
  <1>12. BatchPlaces'
    <2>1. nextBatch' \in 1..MaxBatch /\ nextBatch <= nextBatch'
      BY <1>0, <1>1, Sizes DEF BatchedTypes
    <2> QED
      BY <1>0, <1>1, <1>5, <1>11, <2>1, PlacesStay DEF OthersStay
  <1>13. OneWorks'
    BY <1>0, <1>1 DEF OneWorks
  <1>14. LeastKnown'
    <2>1. Started(t) /\ \A u \in Tasks : Started(u)' <=> Started(u)
      BY <1>1, <1>2, <1>5 DEF Started
    <2>2. minBatch \in Nat /\ m \in Nat
      BY <1>0, <1>9, Sizes DEF BatchedTypes
    <2>3. \A u, v \in Tasks : Started(u) /\ Started(v) => minSeen'[u] <= batch'[v] /\ minBatch <= batch'[v]
      <3> TAKE u \in Tasks, v \in Tasks
      <3> HAVE Started(u) /\ Started(v)
      <3>1. minSeen[u] <= batch[v] /\ minBatch <= batch[v]
        BY <1>0 DEF LeastKnown
      <3>2. minSeen[u] <= batch'[v] /\ minBatch <= batch'[v]
        BY <1>6, <2>2, <3>1
      <3> QED
        BY <1>5, <1>8a, <3>2
    <2>4. minSeen'[t] = batch'[w] /\ Started(w)
      BY <1>5, <1>8
    <2>5. \A u \in Tasks : tpc'[u] \in {"should", "append", "done"} => minSeen'[u] <= minBatch
      BY <1>0, <1>5 DEF LeastKnown
    <2>6. minBatch' <= nextBatch' /\ minBatch' = minBatch
      BY <1>0, <1>1 DEF LeastKnown
    <2> QED
      BY <2>1, <2>3, <2>4, <2>5, <2>6 DEF LeastKnown
  <1>15. ChunksInOrder'
    <2>1. given' = given
      BY <1>0, <1>1, <1>3, <1>4, ReindexPushes
    <2>2. Front' = Front
      BY <1>1 DEF Front
    <2> QED
      BY <1>0, <1>1, <2>1, <2>2 DEF ChunksInOrder
  <1>16. BlockedPlaces'
    BY <1>0, <1>1, <1>5, BlockedStay
  <1>17. RoomLeft'
    <2>1. LetIn' \subseteq LetIn
      BY <1>1, <1>5 DEF LetIn
    <2>2. buffer' \in [Batches -> Seq(Pairs)] /\ \A b \in Batches : buffer'[b] = buffer[b] \/ buffer'[b] = <<>>
      BY <1>0, <1>1 DEF BatchedTypes
    <2> QED
      BY <1>0, <2>1, <2>2, RoomStays
  <1> QED
    BY <1>10, <1>12, <1>13, <1>14, <1>15, <1>16, <1>17 DEF BatchedOrder

LEMMA BlocksKeeps ==
  ASSUME TasksPlaced, BatchedOrder, NEW t \in Tasks, Batched!Blocks(t)
  PROVE  BatchedOrder'
  <1>0. /\ BatchedTypes /\ BatchPlaces /\ OneWorks /\ LeastKnown /\ ChunksInOrder
        /\ BlockedPlaces /\ RoomLeft /\ BatchOf(t) /\ tpc \in [Tasks -> TaskPlaces]
    BY DEF BatchedOrder, BatchPlaces, TasksPlaced
  <1>1. /\ Runs(t) /\ tpc[t] = "block"
        /\ tpc' = [tpc EXCEPT ![t] = "desched"]
        /\ blockedSinks' = blockedSinks \cup {<<batch[t], t>>}
        /\ UNCHANGED <<loc, size, nextBatch, batch, minSeen, current, target, pos, minBatch, buffer,
                       readQueue, completed, todo, delivered>>
    BY DEF Batched!Blocks, Batched!At, Batched!Runs, Runs, Batched!Goes, Batched!data,
                 Batched!source, Batched!task
  <1>2. tpc'[t] = "desched" /\ \A u \in Tasks \ {t} : tpc'[u] = tpc[u]
    BY <1>0, <1>1
  <1>3. BatchedTypes'
    <2>1. batch[t] \in Batches
      BY <1>0, <1>1 DEF BatchOf, Works, Holding
    <2>2. blockedSinks' \subseteq Batches \X Tasks /\ todo' \subseteq blockedSinks'
      BY <1>0, <1>1, <2>1 DEF BatchedTypes
    <2> QED
      BY <1>0, <1>1, <2>2 DEF BatchedTypes
  <1>4. BatchPlaces'
    <2>1. nextBatch' \in 1..MaxBatch /\ nextBatch <= nextBatch'
      BY <1>0, <1>1, Sizes DEF BatchedTypes
    <2>2. BatchOf(t)'
      BY <1>0, <1>1, <1>2 DEF BatchOf, Works, Holding
    <2> QED
      BY <1>0, <1>1, <1>2, <2>1, <2>2, PlacesStay DEF OthersStay
  <1>5. OneWorks' /\ ChunksInOrder'
    <2>1. given' = given /\ Front' = Front
      BY <1>1 DEF given, Pushed, Front
    <2> QED
      BY <1>0, <1>1, <2>1 DEF OneWorks, ChunksInOrder
  <1>6. LeastKnown'
    <2>1. \A u \in Tasks : Started(u)' <=> Started(u)
      BY <1>1, <1>2 DEF Started
    <2>2. \A u \in Tasks : tpc'[u] \in {"should", "append", "done"} => minSeen[u] <= minBatch
      BY <1>0, <1>2 DEF LeastKnown
    <2> QED
      BY <1>0, <1>1, <2>1, <2>2 DEF LeastKnown
  <1>7. BlockedPlaces'
    <2>1. \A s \in blockedSinks : s[2] \in Tasks \ {t} /\ s[1] = batch[s[2]]
             /\ (tpc[s[2]] = "desched" \/ (tpc[s[2]] = "retry" /\ loc[s[2]] \in {"blocked", "gone"}))
      BY <1>0, <1>1 DEF BlockedPlaces, BatchedTypes
    <2>2. ASSUME NEW s \in blockedSinks'
          PROVE  /\ s[1] = batch'[s[2]]
                 /\ tpc'[s[2]] = "desched" \/ (tpc'[s[2]] = "retry" /\ loc'[s[2]] \in {"blocked", "gone"})
      <3>1. CASE s = <<batch[t], t>>
        BY <1>1, <1>2, <3>1
      <3>2. CASE s \in blockedSinks
        BY <1>1, <1>2, <2>1, <3>2
      <3> QED
        BY <1>1, <3>1, <3>2
    <2> QED
      BY <2>2 DEF BlockedPlaces
  <1>8. RoomLeft'
    <2>1. LetIn' \subseteq LetIn
      BY <1>1, <1>2 DEF LetIn
    <2>2. buffer' \in [Batches -> Seq(Pairs)] /\ \A b \in Batches : buffer'[b] = buffer[b] \/ buffer'[b] = <<>>
      BY <1>0, <1>1 DEF BatchedTypes
    <2> QED
      BY <1>0, <2>1, <2>2, RoomStays
  <1> QED
    BY <1>3, <1>4, <1>5, <1>6, <1>7, <1>8 DEF BatchedOrder

LEMMA AppendsKeeps ==
  ASSUME TasksPlaced, BatchedOrder, NEW t \in Tasks, Batched!Appends(t)
  PROVE  BatchedOrder'
  <1>0. /\ BatchedTypes /\ BatchPlaces /\ OneWorks /\ LeastKnown /\ ChunksInOrder
        /\ BlockedPlaces /\ RoomLeft /\ BatchOf(t) /\ tpc \in [Tasks -> TaskPlaces]
    BY DEF BatchedOrder, BatchPlaces, TasksPlaced
  <1>1. /\ Runs(t) /\ tpc[t] = "append"
        /\ tpc' = [tpc EXCEPT ![t] = "head"]
        /\ pos' = [pos EXCEPT ![t] = @ + 1]
        /\ UNCHANGED <<loc, size, nextBatch, batch, minSeen, current, target, minBatch,
                       blockedSinks, todo, delivered>>
    BY DEF Batched!Appends, Batched!At, Batched!Runs, Runs, Batched!Goes, Batched!source, Batched!sinks
  <1>2. PICK c : c = <<batch[t], pos[t] + 1>>
    OBVIOUS
  <1>3. IF batch[t] = minBatch
          THEN readQueue' = Append(readQueue, c) /\ UNCHANGED <<buffer, completed>>
          ELSE /\ buffer' = [buffer EXCEPT ![batch[t]] = Append(@, c)]
               /\ completed' = completed \ {batch[t]}
               /\ UNCHANGED readQueue
    BY <1>2 DEF Batched!Appends, Batched!ChunkAt
  <1>4. Works(t) /\ pos[t] < size[batch[t]]
    BY <1>0, <1>1 DEF BatchOf, Holding
  <1>5. /\ batch[t] \in Batches /\ c \in Pairs
        /\ given'[batch[t]] = Append(given[batch[t]], c)
        /\ \A b \in Batches \ {batch[t]} : given'[b] = given[b]
        /\ given' \in [1..NumBatches -> Seq(Pairs)]
        /\ pos[t] + 1 \in 0..MaxPer
    BY <1>0, <1>1, <1>2, <1>4, AppendPushes
  <1>6. /\ tpc'[t] = "head" /\ pos'[t] = pos[t] + 1
        /\ \A u \in Tasks \ {t} : tpc'[u] = tpc[u] /\ pos'[u] = pos[u]
    BY <1>0, <1>1 DEF BatchedTypes
  <1>7. /\ given \in [1..NumBatches -> Seq(Pairs)] /\ buffer \in [1..NumBatches -> Seq(Pairs)]
        /\ readQueue \in Seq(Pairs) /\ delivered \in Seq(Pairs) /\ minBatch \in 0..MaxBatch
        /\ minBatch <= batch[t] /\ batch[t] \in 1..NumBatches
    BY <1>0, <1>1, <1>5, GivenType, Sizes DEF BatchedTypes, LeastKnown, Started
  <1>8. minBatch \in 0..NumBatches /\ Front = minBatch /\ Front' = minBatch
    BY <1>1, <1>7, Sizes DEF Front
  <1>9. BatchedTypes'
    <2>0. pos' \in [Tasks -> 0..MaxPer]
      BY <1>0, <1>1, <1>5 DEF BatchedTypes
    <2>1. CASE batch[t] = minBatch
      <3>1. Append(readQueue, c) \in Seq(Pairs)
        BY <1>5, <1>7
      <3> QED
        BY <1>0, <1>1, <1>3, <2>0, <2>1, <3>1 DEF BatchedTypes
    <2>2. CASE batch[t] # minBatch
      <3>0. Append(buffer[batch[t]], c) \in Seq(Pairs)
        <4>1. buffer[batch[t]] \in Seq(Pairs)
          BY <1>7
        <4> QED
          BY <1>5, <4>1
      <3>1. buffer' \in [Batches -> Seq(Pairs)]
        BY <1>0, <1>3, <2>2, <3>0 DEF BatchedTypes
      <3> QED
        BY <1>0, <1>1, <1>3, <2>0, <2>2, <3>1 DEF BatchedTypes
    <2> QED
      BY <2>1, <2>2
  <1>10. BatchPlaces'
    <2>1. nextBatch' \in 1..MaxBatch /\ nextBatch <= nextBatch'
      BY <1>0, <1>1, Sizes DEF BatchedTypes
    <2>2. pos[t] + 1 <= size[batch[t]]
      BY SMTT(60), <1>0, <1>4, <1>5, Sizes DEF BatchedTypes
    <2>3. BatchOf(t)'
      BY <1>0, <1>1, <1>4, <1>6, <2>2 DEF BatchOf, Works, Holding
    <2> QED
      BY <1>0, <1>1, <1>6, <2>1, <2>3, PlacesStay DEF OthersStay
  <1>11. OneWorks'
    BY <1>0, <1>1 DEF OneWorks
  <1>12. LeastKnown'
    <2>1. \A u \in Tasks : Started(u)' <=> Started(u)
      BY <1>1, <1>6 DEF Started
    <2>2. \A u \in Tasks : tpc'[u] \in {"should", "append", "done"} => minSeen[u] <= minBatch
      BY <1>0, <1>6 DEF LeastKnown
    <2> QED
      BY <1>0, <1>1, <2>1, <2>2 DEF LeastKnown
  <1>13. BlockedPlaces'
    BY <1>0, <1>1, <1>6, BlockedStay
  <1>14. \A b \in Batches : b <= minBatch /\ b # batch[t] => given'[b] = given[b]
    BY <1>5
  <1>15. CASE batch[t] = minBatch
    <2>1. PICK b \in 1..NumBatches : b = minBatch
      BY <1>7, <1>15
    <2>2. /\ FlatTo(given', b) = FlatTo(given', b - 1) \o given'[b]
          /\ FlatTo(given, b) = FlatTo(given, b - 1) \o given[b]
          /\ FlatTo(given, b - 1) \in Seq(Pairs) /\ given[b] \in Seq(Pairs)
      <3>1. NumBatches \in Nat
        BY Sizes
      <3>2. /\ FlatTo(given, b) = FlatTo(given, b - 1) \o given[b]
            /\ FlatTo(given, b - 1) \in Seq(Pairs) /\ given[b] \in Seq(Pairs)
        BY ZenonT(60), <1>7, <3>1, FlatSteps
      <3>3. PICK g \in [1..NumBatches -> Seq(Pairs)] : g = given'
        BY <1>5
      <3>4. FlatTo(g, b) = FlatTo(g, b - 1) \o g[b]
        BY ZenonT(60), <3>1, FlatSteps
      <3> QED
        BY <3>2, <3>3, <3>4
    <2>3. FlatTo(given', b - 1) = FlatTo(given, b - 1)
      <3>1. b - 1 \in Nat
        OBVIOUS
      <3>2. \A k \in 1..b - 1 : given'[k] = given[k]
        <4> TAKE k \in 1..b - 1
        <4>1. k \in Batches /\ k # batch[t]
          BY <1>15, <2>1, Sizes
        <4> QED
          BY <1>5, <4>1
      <3>3. PICK g : g = given'
        OBVIOUS
      <3>4. \A k \in 1..b - 1 : g[k] = given[k]
        BY <3>2, <3>3
      <3>5. FlatTo(g, b - 1) = FlatTo(given, b - 1)
        BY <3>1, <3>4, FlatSame
      <3> QED
        BY <3>3, <3>5
    <2>4. delivered \o readQueue' = FlatTo(given', b)
      <3>1. PICK D \in Seq(Pairs), Q \in Seq(Pairs), F \in Seq(Pairs), G \in Seq(Pairs) :
              D = delivered /\ Q = readQueue /\ F = FlatTo(given, b - 1) /\ G = given[b]
        BY <1>7, <2>2
      <3>2. D \o Q = F \o G
        BY <1>0, <1>8, <2>1, <2>2, <3>1 DEF ChunksInOrder
      <3>3. D \o Append(Q, c) = Append(D \o Q, c) /\ Append(F \o G, c) = F \o Append(G, c)
        <4>1. PICK x \in Pairs : x = c
          BY <1>5
        <4>2. D \o Append(Q, x) = Append(D \o Q, x)
          OBVIOUS
        <4>3. F \o Append(G, x) = Append(F \o G, x)
          OBVIOUS
        <4> QED
          BY <4>1, <4>2, <4>3
      <3>4. FlatTo(given', b) = F \o Append(G, c)
        BY <1>5, <1>15, <2>1, <2>2, <2>3, <3>1
      <3> QED
        BY <1>3, <1>15, <3>1, <3>2, <3>3, <3>4
    <2>5. \A k \in Batches : buffer'[k] = IF k <= minBatch' THEN <<>> ELSE given'[k]
      <3> TAKE k \in Batches
      <3>1. buffer'[k] = buffer[k] /\ minBatch' = minBatch
        BY <1>1, <1>3, <1>15
      <3>2. CASE k <= minBatch
        BY <1>0, <3>1, <3>2 DEF ChunksInOrder
      <3>3. CASE ~(k <= minBatch)
        <4>1. k # batch[t]
          BY <1>7, <1>15, <3>3
        <4> QED
          BY <1>0, <1>5, <3>1, <3>3, <4>1 DEF ChunksInOrder
      <3> QED
        BY <3>2, <3>3
    <2>6. ChunksInOrder'
      BY <1>0, <1>1, <1>3, <1>8, <1>15, <2>1, <2>4, <2>5 DEF ChunksInOrder
    <2>7. RoomLeft'
      <3>1. LetIn' \subseteq LetIn
        BY <1>1, <1>6 DEF LetIn
      <3>2. buffer' \in [Batches -> Seq(Pairs)] /\ \A b1 \in Batches : buffer'[b1] = buffer[b1] \/ buffer'[b1] = <<>>
        BY <1>0, <1>3, <1>15 DEF BatchedTypes
      <3> QED
        BY <1>0, <3>1, <3>2, RoomStays
    <2> QED
      BY <1>9, <1>10, <1>11, <1>12, <1>13, <2>6, <2>7 DEF BatchedOrder
  <1>16. CASE batch[t] # minBatch
    <2>1. ~(batch[t] <= minBatch) /\ \A k \in 1..minBatch : k \in Batches /\ k # batch[t]
      BY <1>7, <1>8, <1>16, Sizes
    <2>2. /\ buffer'[batch[t]] = Append(buffer[batch[t]], c)
          /\ \A k \in Batches \ {batch[t]} : buffer'[k] = buffer[k]
          /\ completed' = completed \ {batch[t]} /\ readQueue' = readQueue
      BY <1>3, <1>5, <1>7, <1>16, Sizes
    <2>3. \A k \in Batches : buffer'[k] = IF k <= minBatch' THEN <<>> ELSE given'[k]
      <3> TAKE k \in Batches
      <3>1. CASE k = batch[t]
        BY <1>0, <1>1, <1>5, <2>1, <2>2, <3>1 DEF ChunksInOrder
      <3>2. CASE k # batch[t]
        BY <1>0, <1>1, <1>5, <2>2, <3>2 DEF ChunksInOrder
      <3> QED
        BY <3>1, <3>2
    <2>4. FlatTo(given', minBatch) = FlatTo(given, minBatch)
      <3>1. minBatch \in Nat
        BY <1>7, Sizes
      <3>2. PICK g : g = given'
        OBVIOUS
      <3>3. \A k \in 1..minBatch : g[k] = given[k]
        BY <1>5, <2>1, <3>2
      <3>4. FlatTo(g, minBatch) = FlatTo(given, minBatch)
        BY <3>1, <3>3, FlatSame
      <3> QED
        BY <3>2, <3>4
    <2>5. delivered' \o readQueue' = FlatTo(given', minBatch)
      BY <1>0, <1>1, <1>8, <2>2, <2>4 DEF ChunksInOrder
    <2>6. \A k \in Batches : buffer'[k] # <<>> /\ (\A u \in Tasks : current'[u] # k) => k \in completed'
      <3> TAKE k \in Batches
      <3> HAVE buffer'[k] # <<>> /\ (\A u \in Tasks : current'[u] # k)
      <3>1. k # batch[t]
        BY <1>1, <1>4 DEF Works
      <3> QED
        BY <1>0, <1>1, <2>2, <3>1 DEF ChunksInOrder
    <2>7. ChunksInOrder'
      BY <1>8, <2>3, <2>5, <2>6 DEF ChunksInOrder
    <2>8. RoomLeft'
      <3>1. buffer \in [Batches -> Seq(Pairs)] /\ buffer' \in [Batches -> Seq(Pairs)]
        BY <1>0, <1>9 DEF BatchedTypes
      <3>2. /\ Batched!BufferCount = Len(FlatTo(buffer, NumBatches)) /\ Batched!BufferCount \in Nat
            /\ Batched!BufferCount' = Len(FlatTo(buffer', NumBatches)) /\ Batched!BufferCount' \in Nat
        BY <3>1, CountIs DEF Batched!BufferCount
      <3>3. Batched!BufferCount' = Batched!BufferCount + 1
        <4>1. PICK r \in [1..NumBatches -> Seq(Pairs)], q \in [1..NumBatches -> Seq(Pairs)] :
                 r = buffer' /\ q = buffer
          BY <3>1, Sizes
        <4>1a. PICK k \in 1..NumBatches, x \in Pairs : k = batch[t] /\ x = c
          BY <1>5, <1>7
        <4>2. r[k] = Append(q[k], x) /\ \A b \in (1..NumBatches) \ {k} : r[b] = q[b]
          BY <2>2, <4>1, <4>1a, Sizes
        <4>3. NumBatches \in Nat
          BY Sizes
        <4>4. Len(FlatTo(r, NumBatches)) = Len(FlatTo(q, NumBatches)) + 1
          BY ZenonT(60), <4>2, <4>3, FlatLonger
        <4> QED
          BY <3>2, <4>1, <4>4
      <3>4. LetIn' = LetIn \ {t} /\ t \in LetIn
        BY <1>1, <1>6, <1>16 DEF LetIn
      <3>5. Cardinality(LetIn \ {t}) = Cardinality(LetIn) - 1
        BY <3>4, LetInFinite, FS_RemoveElement
      <3>6. PICK n \in Nat, m \in Nat, k \in Nat, l \in Nat :
              /\ n = Batched!BufferCount /\ m = Batched!BufferCount'
              /\ k = Cardinality(LetIn) /\ l = Cardinality(LetIn')
        BY <3>2, LetInFinite
      <3>7. m = n + 1 /\ l = k - 1 /\ n + k <= BufferCap + NumTasks - 2
        BY <1>0, <3>3, <3>4, <3>5, <3>6 DEF RoomLeft
      <3>8. m + l <= BufferCap + NumTasks - 2
        BY <3>6, <3>7, Sizes
      <3> QED
        BY <3>6, <3>8 DEF RoomLeft
    <2> QED
      BY <1>9, <1>10, <1>11, <1>12, <1>13, <2>7, <2>8 DEF BatchedOrder
  <1> QED
    BY <1>15, <1>16

\* A step of a task keeps the order of the batches.
LEMMA TaskKeepsOrder ==
  ASSUME TasksPlaced, BatchedOrder, NEW t \in Tasks, Batched!TaskStep(t)
  PROVE  BatchedOrder'
  BY QuietActions, DecidesKeeps, UpdateActions, StartsKeeps, FetchesNextKeeps, ReindexKeeps,
     BlocksKeeps, AppendsKeeps DEF Batched!TaskStep

-----------------------------------------------------------------------------
(***************************************************************************)
(* The steps of the client.                                                *)
(***************************************************************************)

\* What a step of the client leaves of the order: it wakes tasks, and Scan moves the
\* head of the read queue.
LEMMA ClientLeavesOrder ==
  ASSUME BatchedOrder,
         UNCHANGED <<tpc, size, nextBatch, batch, minSeen, current, target, pos, minBatch, buffer,
                     completed>>,
         \/ UNCHANGED <<readQueue, delivered>>
         \/ /\ readQueue # <<>>
            /\ delivered' = Append(delivered, Head(readQueue)) /\ readQueue' = Tail(readQueue),
         blockedSinks' \subseteq blockedSinks, todo' \subseteq blockedSinks',
         \A s \in blockedSinks' : loc[s[2]] \in {"blocked", "gone"} => loc'[s[2]] \in {"blocked", "gone"}
  PROVE  BatchedOrder'
  <1>0. /\ BatchedTypes /\ BatchPlaces /\ OneWorks /\ LeastKnown /\ ChunksInOrder
        /\ BlockedPlaces /\ RoomLeft
    BY DEF BatchedOrder
  <1>1. /\ readQueue' \in Seq(Pairs) /\ delivered' \in Seq(Pairs)
        /\ delivered' \o readQueue' = delivered \o readQueue
    <2>1. readQueue \in Seq(Pairs) /\ delivered \in Seq(Pairs)
      BY <1>0 DEF BatchedTypes
    <2>2. CASE UNCHANGED <<readQueue, delivered>>
      BY <2>1, <2>2
    <2>3. CASE readQueue # <<>> /\ delivered' = Append(delivered, Head(readQueue))
               /\ readQueue' = Tail(readQueue)
      BY <2>1, <2>3, TakesHead
    <2> QED
      BY <2>2, <2>3
  <1>2. BatchedTypes'
    BY <1>0, <1>1 DEF BatchedTypes
  <1>3. BatchPlaces' /\ OneWorks' /\ LeastKnown'
    BY <1>0 DEF BatchPlaces, BatchOf, Works, OneWorks, LeastKnown, Started
  <1>4. ChunksInOrder'
    <2>1. given' = given /\ Front' = Front
      BY DEF given, Pushed, Front
    <2> QED
      BY <1>0, <1>1, <2>1 DEF ChunksInOrder
  <1>5. BlockedPlaces'
    BY <1>0 DEF BlockedPlaces
  <1>6. RoomLeft'
    BY <1>0 DEF RoomLeft, LetIn, Batched!BufferCount
  <1> QED
    BY <1>2, <1>3, <1>4, <1>5, <1>6 DEF BatchedOrder

\* The client takes tasks that are queued, and drops those that wait.
LEMMA ClientStepWakesNone ==
  ASSUME TasksPlaced, ClientStep
  PROVE  \A t \in Tasks : loc[t] \in {"blocked", "gone"} => loc'[t] \in {"blocked", "gone"}
  <1>1. queue # <<>> => Head(queue) \in Tasks /\ loc[Head(queue)] = "queue"
    BY DEF TasksPlaced
  <1> QED
    BY <1>1 DEF TasksPlaced, ClientStep, ClientTakes, ClientFindsNone, ClientFinished, ClientLooks,
       ClientRan, CancelTasks, DrainTakes, DrainRan, Drained, SendLoops, executor

LEMMA ClientStepOver ==
  ASSUME ClientStep, ResultKnown, BatchedOver, UNCHANGED <<tpc, readQueue>>
  PROVE  BatchedOver'
  <1>1. AllDone' <=> AllDone
    BY DEF AllDone
  <1>2. CASE ClientFinished
    BY <1>1, <1>2 DEF ClientFinished, Completed, AllDone, Returns, BatchedOver
  <1>3. CASE Drained
    BY <1>1, <1>3 DEF Drained, BatchedOver, ResultKnown
  <1>4. CASE SendLoops
    BY <1>1, <1>4 DEF SendLoops, BatchedOver, ResultKnown
  <1> QED
    BY <1>1, <1>2, <1>3, <1>4
    DEF ClientStep, ClientTakes, ClientFindsNone, ClientLooks, ClientRan, CancelTasks,
        DrainTakes, DrainRan, Returns, BatchedOver

LEMMA ClientKeepsOrder ==
  ASSUME TasksPlaced, ResultKnown, BatchedInv, BatchedOrder, BatchedOver,
         Batched!ClientWorks \/ Batched!Calls
  PROVE  BatchedOrder' /\ BatchedOver'
  <1> USE DEF Batched!executor, Batched!source, Batched!task, Batched!data, Batched!sinks,
              Batched!Unaffected, Batched!AfterUnblocking
  <1>0. todo \subseteq blockedSinks /\ blockedSinks \subseteq Batches \X Tasks
        /\ \A s \in blockedSinks : s[2] \in Tasks
    BY DEF BatchedOrder, BatchedTypes
  <1>1. CASE Batched!Checks
    <2>1. BatchedOver'
      BY <1>1 DEF Batched!Checks, BatchedOver, AllDone
    <2> QED
      BY <1>0, <1>1, <2>1, ClientLeavesOrder DEF Batched!Checks
  <1>2. CASE Batched!Unblocks
    <2>1. BatchedOver'
      BY <1>2 DEF Batched!Unblocks, BatchedOver, AllDone
    <2> QED
      BY <1>0, <1>2, <2>1, ClientLeavesOrder DEF Batched!Unblocks
  <1>3. CASE Batched!Wakes
    <2> DEFINE b == Batched!Min({s[1] : s \in todo})
               t == CHOOSE u \in Batched!Tasks : <<b, u>> \in todo
    <2>1. t \in Tasks /\ <<b, t>> \in todo
      <3>1. {s[1] : s \in todo} \in SUBSET Nat /\ {s[1] : s \in todo} # {}
        <4>1. todo # {}
          BY <1>3 DEF Batched!Wakes, BatchedInv
        <4> QED
          BY <1>0, <4>1, Sizes
      <3>2. b \in {s[1] : s \in todo}
        BY <3>1, LeastIsIn
      <3> HIDE DEF b
      <3>3. PICK s \in todo : b = s[1]
        BY <3>2
      <3>4. s[2] \in Tasks /\ <<b, s[2]>> \in todo
        BY <1>0, <3>3
      <3> QED
        BY <3>4 DEF Batched!Tasks, Tasks
    <2>2. /\ loc' = [loc EXCEPT ![t] = "queue"]
          /\ todo' = todo \ {<<b, t>>}
          /\ blockedSinks' = blockedSinks \ {<<b, t>>}
      BY <1>3 DEF Batched!Wakes, Batched!Reschedules
    <2>3. /\ IF todo' = {} THEN Batched!AfterUnblocking ELSE UNCHANGED <<cpc, res>>
          /\ cpc = "waking"
          /\ UNCHANGED <<tpc, success, size, nextBatch, batch, minSeen, current, target, pos,
                         minBatch, buffer, readQueue, completed, delivered>>
      BY <1>3 DEF Batched!Wakes, Batched!Reschedules
    <2> HIDE DEF b, t
    <2>4. PICK c, u : c = b /\ u = t
      OBVIOUS
    <2>5. /\ u \in Tasks /\ <<c, u>> \in blockedSinks
          /\ loc' = [loc EXCEPT ![u] = "queue"]
          /\ todo' = todo \ {<<c, u>>}
          /\ blockedSinks' = blockedSinks \ {<<c, u>>}
      BY <1>0, <2>1, <2>2, <2>4
    <2>6. ASSUME NEW s \in blockedSinks' PROVE s[2] # u /\ loc'[s[2]] = loc[s[2]]
      <3>1. s \in blockedSinks /\ s # <<c, u>> /\ s = <<s[1], s[2]>> /\ s[2] \in Tasks
        BY <1>0, <2>5
      <3>2. s[1] = batch[s[2]] /\ c = batch[u]
        BY <2>5, <3>1 DEF BatchedOrder, BlockedPlaces
      <3>3. s[2] # u
        BY <3>1, <3>2
      <3> QED
        BY <2>5, <3>1, <3>3 DEF TasksPlaced
    <2>7. BatchedOver'
      BY <2>3 DEF BatchedOver, AllDone
    <2> QED
      BY <1>0, <2>3, <2>5, <2>6, <2>7, ClientLeavesOrder
  <1>4. CASE Batched!Rechecks
    <2>1. BatchedOver'
      BY <1>4 DEF Batched!Rechecks, BatchedOver, AllDone, ResultKnown
    <2> QED
      BY <1>0, <1>4, <2>1, ClientLeavesOrder DEF Batched!Rechecks
  <1>5. CASE Batched!Scans
    <2>1. BatchedOver'
      BY <1>5 DEF Batched!Scans, BatchedOver, AllDone
    <2>2. \/ UNCHANGED <<readQueue, delivered>>
          \/ /\ readQueue # <<>>
             /\ delivered' = Append(delivered, Head(readQueue)) /\ readQueue' = Tail(readQueue)
      BY <1>5 DEF Batched!Scans
    <2> QED
      BY <1>0, <1>5, <2>1, <2>2, ClientLeavesOrder DEF Batched!Scans
  <1>6. CASE Batched!ClientRest
    <2>1. ClientStep
      BY <1>6, SameClientStep DEF Batched!ClientRest
    <2>2. UNCHANGED tpc
      BY <2>1, ClientStepKeeps
    <2>3. BatchedOver'
      BY <1>6, <2>1, <2>2, ClientStepOver DEF Batched!ClientRest
    <2>4. \A s \in blockedSinks : loc[s[2]] \in {"blocked", "gone"} => loc'[s[2]] \in {"blocked", "gone"}
      BY <1>0, <2>1, ClientStepWakesNone
    <2> QED
      BY <1>0, <1>6, <2>2, <2>3, <2>4, ClientLeavesOrder DEF Batched!ClientRest
  <1>7. CASE Batched!Calls
    <2>1. BatchedOver'
      BY <1>7 DEF Batched!Calls, Batched!Fetches, Batched!Abandons, Batched!FetchThrows, BatchedOver, AllDone
    <2> QED
      BY <1>0, <1>7, <2>1, ClientLeavesOrder
      DEF Batched!Calls, Batched!Fetches, Batched!Abandons, Batched!FetchThrows
  <1> QED
    BY <1>1, <1>2, <1>3, <1>4, <1>5, <1>6, <1>7 DEF Batched!ClientWorks

\* What a step of a task leaves to the client.
LEMMA BatchedTaskLeaves ==
  ASSUME TasksPlaced, BatchedOrder, NEW t \in Tasks, Batched!TaskStep(t)
  PROVE  /\ UNCHANGED <<cpc, res, success, delivered, sending, size>>
         /\ AllDone => AllDone'
         /\ readQueue # <<>> => readQueue' # <<>>
  <1> USE DEF Batched!client, Batched!source, Batched!sinks, Batched!RoundStarts
  <1>0. /\ BatchedTypes /\ BatchPlaces /\ OneWorks /\ ChunksInOrder
        /\ minSeen[t] \in 0..MaxBatch /\ readQueue \in Seq(Pairs)
    BY DEF BatchedOrder, BatchedTypes
  <1>1. UNCHANGED <<cpc, res, success, delivered, sending, size>>
    BY DEF Batched!TaskStep, Batched!Starts, Batched!FetchesSame, Batched!FetchesNext,
       Batched!UpdatesMin, Batched!Reindexes, Batched!Fails, Batched!Pushes, Batched!Decides,
       Batched!Blocks, Batched!Appends, Batched!Retries, Batched!Combines, Batched!Ends,
       Batched!Rest, Batched!Interrupted, Batched!Deschedules, Batched!PoolTakes,
       Batched!Throws, Batched!Finishes
  <1>2. AllDone => AllDone'
    <2> SUFFICES ASSUME AllDone
                 PROVE  AllDone'
      OBVIOUS
    <2>1. tpc[t] = "done"
      BY DEF AllDone
    <2>2. Batched!PoolTakes(t)
      BY <2>1 DEF Batched!TaskStep, Batched!Starts, Batched!FetchesSame, Batched!FetchesNext,
         Batched!UpdatesMin, Batched!Reindexes, Batched!Fails, Batched!Pushes, Batched!Decides,
         Batched!Blocks, Batched!Appends, Batched!Retries, Batched!Combines, Batched!Ends,
         Batched!Rest, Batched!Interrupted, Batched!Deschedules, Batched!At, Batched!Heads
    <2> QED
      BY <2>2 DEF Batched!PoolTakes, AllDone
  <1>3. readQueue # <<>> => readQueue' # <<>>
    <2>1. CASE Batched!UpdatesMin(t) \/ Batched!Pushes(t) \/ Batched!Ends(t)
      <3>1. Batched!UpdateMinBatchIndex(minSeen[t])
            /\ UNCHANGED <<current, batch, pos, nextBatch, size, delivered>>
        BY <2>1 DEF Batched!UpdatesMin, Batched!Pushes, Batched!Ends, Batched!task
      <3> QED
        BY <1>0, <3>1, UpdateMoves
    <2>2. CASE Batched!Appends(t)
      <3>1. PICK c : readQueue' = Append(readQueue, c) \/ readQueue' = readQueue
        BY <2>2 DEF Batched!Appends
      <3>2. \A x : Len(Append(readQueue, x)) = Len(readQueue) + 1 /\ Len(readQueue) \in Nat
        BY <1>0
      <3>3. Append(readQueue, c) # <<>>
        BY <1>0, <3>2
      <3> QED
        BY <3>1, <3>3
    <2>3. CASE ~(Batched!UpdatesMin(t) \/ Batched!Pushes(t) \/ Batched!Ends(t) \/ Batched!Appends(t))
      <3>1. readQueue' = readQueue
        BY <2>3 DEF Batched!TaskStep, Batched!Starts, Batched!FetchesSame, Batched!FetchesNext,
           Batched!Reindexes, Batched!Fails, Batched!Decides, Batched!Blocks, Batched!Retries,
           Batched!Combines, Batched!Rest, Batched!data
      <3> QED
        BY <3>1
    <2> QED
      BY <2>1, <2>2, <2>3
  <1> QED
    BY <1>1, <1>2, <1>3

LEMMA TaskKeepsOver ==
  ASSUME TasksPlaced, BatchedOrder, BatchedOver, NEW t \in Tasks, Batched!TaskStep(t)
  PROVE  BatchedOver'
  BY BatchedTaskLeaves DEF BatchedOver

LEMMA TaskKeepsTypes ==
  ASSUME ExecutorTypes, NEW t \in Tasks, Batched!TaskStep(t) \/ Simple!TaskStep(t)
  PROVE  ExecutorTypes'
  <1>1. UNCHANGED <<cancelled, sending, success, res>>
    BY DEF Batched!TaskStep, Batched!Starts, Batched!FetchesSame, Batched!FetchesNext,
       Batched!UpdatesMin, Batched!Reindexes, Batched!Fails, Batched!Pushes, Batched!Decides,
       Batched!Blocks, Batched!Appends, Batched!Retries, Batched!Combines, Batched!Ends,
       Batched!Rest, Batched!Interrupted, Batched!Deschedules, Batched!PoolTakes,
       Batched!Throws, Batched!Finishes, Batched!client, Batched!RoundStarts,
       Simple!TaskStep, Simple!Starts, Simple!FetchesSource, Simple!Fails, Simple!Sinks,
       Simple!Appends, Simple!Blocks, Simple!Retries, Simple!Ends, Simple!Finishes,
       Simple!Rest, Simple!Interrupted, Simple!Deschedules, Simple!PoolTakes,
       Simple!Throws, Simple!RoundStarts, Simple!client
  <1>2. failed' = failed \/ failed' = TRUE
    BY DEF Batched!TaskStep, Batched!Starts, Batched!FetchesSame, Batched!FetchesNext,
       Batched!UpdatesMin, Batched!Reindexes, Batched!Fails, Batched!Pushes, Batched!Decides,
       Batched!Blocks, Batched!Appends, Batched!Retries, Batched!Combines, Batched!Ends,
       Batched!Rest, Batched!Interrupted, Batched!Deschedules, Batched!PoolTakes,
       Batched!Throws, Batched!Finishes,
       Simple!TaskStep, Simple!Starts, Simple!FetchesSource, Simple!Fails, Simple!Sinks,
       Simple!Appends, Simple!Blocks, Simple!Retries, Simple!Ends, Simple!Finishes,
       Simple!Rest, Simple!Interrupted, Simple!Deschedules, Simple!PoolTakes,
       Simple!Throws
  <1>3. budget' = budget \/ (budget > 0 /\ budget' = budget - 1)
    BY DEF Batched!TaskStep, Batched!Starts, Batched!FetchesSame, Batched!FetchesNext,
       Batched!UpdatesMin, Batched!Reindexes, Batched!Fails, Batched!Pushes, Batched!Decides,
       Batched!Blocks, Batched!Appends, Batched!Retries, Batched!Combines, Batched!Ends,
       Batched!Rest, Batched!Interrupted, Batched!Deschedules, Batched!PoolTakes,
       Batched!Throws, Batched!Finishes, Batched!client, Batched!RoundStarts,
       Simple!TaskStep, Simple!Starts, Simple!FetchesSource, Simple!Fails, Simple!Sinks,
       Simple!Appends, Simple!Blocks, Simple!Retries, Simple!Ends, Simple!Finishes,
       Simple!Rest, Simple!Interrupted, Simple!Deschedules, Simple!PoolTakes,
       Simple!Throws, Simple!RoundStarts, Simple!client
  <1>4. budget' \in 0..PartialChunks
    BY <1>3, ExecutorAssumption DEF ExecutorTypes
  <1> QED
    BY <1>1, <1>2, <1>4 DEF ExecutorTypes

LEMMA ClientStepTypes ==
  ASSUME ExecutorTypes, ClientStep
  PROVE  ExecutorTypes'
  <1>1. PartialChunks \in Nat
    BY ExecutorAssumption
  <1>2. /\ failed' = failed /\ (cancelled' = cancelled \/ cancelled' = TRUE)
        /\ budget' = budget \/ budget' = PartialChunks
        /\ res' = res \/ res' \in Answers
    BY DEF ClientStep, ClientTakes, ClientFindsNone, ClientFinished, ClientLooks,
       ClientRan, CancelTasks, DrainTakes, DrainRan, Drained, SendLoops, executor, Returns, Answers
  <1>3. success' \in BOOLEAN
    BY DEF ClientStep, ClientTakes, ClientFindsNone, ClientFinished, ClientLooks,
       ClientRan, CancelTasks, DrainTakes, DrainRan, Drained, SendLoops, ExecutorTypes
  <1>4. sending' \in BOOLEAN
    <2>1. CASE SendLoops
      <3>1. sending' = (res \in {"not_ready", "no_tasks"})
        BY <2>1 DEF SendLoops
      <3>2. (res \in {"not_ready", "no_tasks"}) \in BOOLEAN
        OBVIOUS
      <3> QED
        BY <3>1, <3>2, Zenon
    <2>2. CASE ~SendLoops
      <3>1. sending' = sending
        BY <2>2 DEF ClientStep, ClientTakes, ClientFindsNone, ClientFinished, ClientLooks,
           ClientRan, CancelTasks, DrainTakes, DrainRan, Drained
      <3> QED
        BY <3>1 DEF ExecutorTypes
    <2> QED
      BY <2>1, <2>2
  <1>5. failed' \in BOOLEAN /\ cancelled' \in BOOLEAN
    BY <1>2, Zenon DEF ExecutorTypes
  <1>6. budget' \in 0..PartialChunks /\ res' \in Answers
    BY <1>1, <1>2 DEF ExecutorTypes
  <1> QED
    BY <1>3, <1>4, <1>5, <1>6 DEF ExecutorTypes

LEMMA ClientKeepsTypes ==
  ASSUME ExecutorTypes,
         Batched!ClientWorks \/ Batched!Calls \/ Simple!ClientWorks \/ Simple!Calls
  PROVE  ExecutorTypes'
  <1>1. CASE Batched!ClientRest \/ Simple!ClientRest
    BY <1>1, SameClientStep, ClientStepTypes DEF Batched!ClientRest, Simple!ClientRest
  <1>2. CASE ~(Batched!ClientRest \/ Simple!ClientRest)
    <2>1. UNCHANGED <<failed, cancelled, sending, success, budget>>
      BY <1>2 DEF Batched!ClientWorks, Batched!Checks, Batched!Unblocks, Batched!Wakes, Batched!Rechecks,
         Batched!Scans, Batched!Calls, Batched!Fetches, Batched!Abandons, Batched!FetchThrows,
         Batched!Reschedules, Batched!executor,
         Simple!ClientWorks, Simple!Checks, Simple!Unblocks, Simple!Wakes, Simple!Rechecks,
         Simple!Scans, Simple!Calls, Simple!Fetches, Simple!Abandons, Simple!Reschedules, Simple!executor
    <2>2. res' = res \/ res' \in Answers
      BY <1>2 DEF Batched!ClientWorks, Batched!Checks, Batched!Unblocks, Batched!Wakes, Batched!Rechecks,
         Batched!Scans, Batched!Calls, Batched!Fetches, Batched!Abandons, Batched!FetchThrows,
         Batched!AfterUnblocking,
         Simple!ClientWorks, Simple!Checks, Simple!Unblocks, Simple!Wakes, Simple!Rechecks,
         Simple!Scans, Simple!Calls, Simple!Fetches, Simple!Abandons, Simple!AfterUnblocking, Answers
    <2> QED
      BY <2>1, <2>2 DEF ExecutorTypes
  <1> QED
    BY <1>1, <1>2

-----------------------------------------------------------------------------
(***************************************************************************)
(* The simple buffers: what is left when the client stops fetching.        *)
(***************************************************************************)

\* The task t is not among them, and the others stay.
LEMMA SinksStay ==
  ASSUME TasksPlaced, SinksPlaced, blockedSinks \in Seq(Tasks), NEW t \in Tasks,
         \/ Runs(t) /\ tpc[t] # "desched"
         \/ loc[t] = "queue",
         UNCHANGED blockedSinks,
         \A u \in Tasks \ {t} : tpc'[u] = tpc[u] /\ loc'[u] = loc[u]
  PROVE  SinksPlaced'
  <1>1. ASSUME NEW i \in 1..Len(blockedSinks) PROVE blockedSinks[i] \in Tasks \ {t}
    <2>1. blockedSinks[i] \in Tasks
      OBVIOUS
    <2> QED
      BY <2>1 DEF SinksPlaced, TasksPlaced, Runs
  <1> QED
    BY <1>1 DEF SinksPlaced

LEMMA SimpleTaskOver ==
  ASSUME TasksPlaced, SimpleInv, SimpleOver, NEW t \in Tasks, Simple!TaskStep(t)
  PROVE  SimpleOver'
  <1> USE DEF Simple!At, Simple!Runs, Runs, Simple!Goes, Simple!client, Simple!data
  <1>0. /\ blockedSinks \in Seq(Tasks) /\ SinksPlaced /\ tpc \in [Tasks -> TaskPlaces]
        /\ loc \in [Tasks -> Locations]
    BY DEF SimpleInv, SimpleTypes, SimpleOver, TasksPlaced
  <1>1. AllDone => AllDone' /\ buffered' = buffered
    <2> SUFFICES ASSUME AllDone
                 PROVE  AllDone' /\ buffered' = buffered
      OBVIOUS
    <2>1. tpc[t] = "done"
      BY DEF AllDone
    <2>2. Simple!PoolTakes(t) /\ buffered' = buffered
      BY <2>1 DEF Simple!TaskStep, Simple!Starts, Simple!FetchesSource, Simple!Fails, Simple!Sinks,
       Simple!Appends, Simple!Blocks, Simple!Retries, Simple!Ends, Simple!Rest, Simple!Interrupted,
       Simple!Deschedules, Simple!Heads
    <2> QED
      BY <2>2 DEF Simple!PoolTakes, AllDone
  <1>2. bad' = bad /\ UNCHANGED <<cpc, res, success>>
    <2>1. UNCHANGED <<cpc, res, success>>
      BY SimpleTaskLeaves
    <2> QED
      BY <2>1 DEF Simple!TaskStep, Simple!Starts, Simple!FetchesSource, Simple!Fails, Simple!Sinks,
       Simple!Appends, Simple!Blocks, Simple!Retries, Simple!Ends, Simple!Rest
  <1>3. SinksPlaced'
    <2>1. CASE Simple!Blocks(t)
      <3>1. /\ blockedSinks' = Append(blockedSinks, t) /\ tpc[t] = "block"
            /\ tpc' = [tpc EXCEPT ![t] = "desched"] /\ loc' = loc
        BY <2>1 DEF Simple!Blocks
      <3>2. /\ Len(blockedSinks') = Len(blockedSinks) + 1 /\ Len(blockedSinks) \in Nat
            /\ blockedSinks'[Len(blockedSinks) + 1] = t
            /\ \A i \in 1..Len(blockedSinks) : blockedSinks'[i] = blockedSinks[i]
        BY <1>0, <3>1
      <3>3. \A i \in 1..Len(blockedSinks) : blockedSinks[i] \in Tasks \ {t}
        BY <1>0, <3>1 DEF SinksPlaced
      <3>4. tpc'[t] = "desched" /\ \A u \in Tasks \ {t} : tpc'[u] = tpc[u]
        BY <1>0, <3>1
      <3>5. \A i \in 1..Len(blockedSinks') : i \in 1..Len(blockedSinks) \/ i = Len(blockedSinks) + 1
        BY <3>2
      <3> QED
        BY <1>0, <3>1, <3>2, <3>3, <3>4, <3>5 DEF SinksPlaced
    <2>2. CASE Simple!Deschedules(t)
      <3>1. /\ blockedSinks' = blockedSinks /\ tpc[t] = "desched"
            /\ tpc' = [tpc EXCEPT ![t] = "retry"]
            /\ loc' = [loc EXCEPT ![t] = IF cancelled THEN "gone" ELSE "blocked"]
        BY <2>2 DEF Simple!TaskStep, Simple!Starts, Simple!FetchesSource, Simple!Fails, Simple!Sinks,
           Simple!Appends, Simple!Blocks, Simple!Retries, Simple!Ends, Simple!Rest,
           Simple!Deschedules
      <3>2. \A u \in Tasks \ {t} : tpc'[u] = tpc[u] /\ loc'[u] = loc[u]
        BY <1>0, <3>1
      <3>3. tpc'[t] = "retry" /\ loc'[t] \in {"gone", "blocked"}
        BY <1>0, <3>1
      <3>4. \A i \in 1..Len(blockedSinks) : blockedSinks[i] \in Tasks
        BY <1>0
      <3> QED
        BY <1>0, <3>1, <3>2, <3>3, <3>4 DEF SinksPlaced
    <2>3. CASE Simple!PoolTakes(t)
      <3>1. loc[t] = "queue"
        BY <2>3 DEF Simple!PoolTakes, TasksPlaced
      <3>2. UNCHANGED <<tpc, blockedSinks>> /\ loc' = [loc EXCEPT ![t] = "pool"]
        BY <2>3, <3>1 DEF Simple!TaskStep, Simple!Starts, Simple!FetchesSource, Simple!Fails, Simple!Sinks,
           Simple!Appends, Simple!Blocks, Simple!Retries, Simple!Ends, Simple!Rest,
           Simple!Interrupted, Simple!Deschedules, Simple!PoolTakes
      <3> QED
        BY <1>0, <3>1, <3>2, SinksStay
    <2>4. CASE ~(Simple!Blocks(t) \/ Simple!Deschedules(t) \/ Simple!PoolTakes(t))
      <3>1. Runs(t) /\ tpc[t] # "desched" /\ UNCHANGED blockedSinks
        BY <2>4 DEF Simple!TaskStep, Simple!Starts, Simple!FetchesSource, Simple!Fails, Simple!Sinks,
           Simple!Appends, Simple!Retries, Simple!Ends, Simple!Rest, Simple!Interrupted, Simple!Heads
      <3>2. /\ tpc' = [tpc EXCEPT ![t] = tpc'[t]]
            /\ loc' = loc \/ loc' = [loc EXCEPT ![t] = "gone"]
        BY <1>0, <2>4 DEF Simple!TaskStep, Simple!Starts, Simple!FetchesSource, Simple!Fails, Simple!Sinks,
           Simple!Appends, Simple!Retries, Simple!Ends, Simple!Rest, Simple!Interrupted,
           Simple!Throws, Simple!Finishes
      <3>3. \A u \in Tasks \ {t} : tpc'[u] = tpc[u] /\ loc'[u] = loc[u]
        BY <1>0, <3>2
      <3> QED
        BY <1>0, <3>1, <3>3, SinksStay
    <2> QED
      BY <2>1, <2>2, <2>3, <2>4
  <1> QED
    BY <1>1, <1>2, <1>3 DEF SimpleOver

LEMMA SimpleClientOver ==
  ASSUME TasksPlaced, ResultKnown, SimpleInv, SimpleOver, Simple!ClientWorks \/ Simple!Calls
  PROVE  SimpleOver'
  <1> USE DEF Simple!executor, Simple!data, Simple!AfterUnblocking
  <1>0. /\ blockedSinks \in Seq(Tasks) /\ SinksPlaced /\ loc \in [Tasks -> Locations]
        /\ \A i \in 1..Len(blockedSinks) : blockedSinks[i] \in Tasks
    BY DEF SimpleInv, SimpleTypes, SimpleOver, TasksPlaced
  <1>1. CASE Simple!Checks \/ Simple!Unblocks \/ Simple!Calls
    <2>1. UNCHANGED <<tpc, loc, blockedSinks, bad>> /\ (res' = res \/ res' # "finished") /\ cpc' # "ended"
      BY <1>1 DEF Simple!Checks, Simple!Unblocks, Simple!Calls, Simple!Fetches, Simple!Abandons
    <2> QED
      BY <1>0, <2>1 DEF SimpleOver, SinksPlaced, AllDone
  <1>2. CASE Simple!Wakes
    <2>1. blockedSinks # <<>>
      BY <1>2 DEF Simple!Wakes, SimpleInv, SimpleTypes
    <2>2. PICK u \in Tasks : u = Head(blockedSinks)
      BY <1>0, <2>1
    <2>3. /\ loc' = [loc EXCEPT ![u] = "queue"] /\ blockedSinks' = Tail(blockedSinks)
          /\ UNCHANGED <<tpc, bad>> /\ (res' = res \/ res' # "finished") /\ cpc' # "ended"
      BY <1>2, <2>2 DEF Simple!Wakes, Simple!Reschedules
    <2>4. /\ Len(blockedSinks') = Len(blockedSinks) - 1 /\ Len(blockedSinks) \in Nat
          /\ blockedSinks[1] = u /\ 1 \in 1..Len(blockedSinks)
          /\ \A i \in 1..Len(blockedSinks') : /\ blockedSinks'[i] = blockedSinks[i + 1]
                                              /\ i + 1 \in 1..Len(blockedSinks) /\ i + 1 # 1
      BY <1>0, <2>1, <2>2, <2>3
    <2>5. \A i \in 1..Len(blockedSinks') : blockedSinks'[i] \in Tasks \ {u}
      BY <1>0, <2>4 DEF SinksPlaced
    <2>6. \A i, j \in 1..Len(blockedSinks') : blockedSinks'[i] = blockedSinks'[j] => i = j
      <3> TAKE i, j \in 1..Len(blockedSinks')
      <3> HAVE blockedSinks'[i] = blockedSinks'[j]
      <3>1. i + 1 = j + 1
        BY <1>0, <2>4 DEF SinksPlaced
      <3> QED
        BY <3>1
    <2>7. \A i \in 1..Len(blockedSinks') :
            tpc[blockedSinks'[i]] = "desched"
              \/ (tpc[blockedSinks'[i]] = "retry" /\ loc'[blockedSinks'[i]] \in {"blocked", "gone"})
      BY <1>0, <2>3, <2>4, <2>5 DEF SinksPlaced
    <2>8. SinksPlaced'
      BY <2>3, <2>6, <2>7 DEF SinksPlaced
    <2> QED
      BY <2>3, <2>8 DEF SimpleOver, AllDone
  <1>3. CASE Simple!Rechecks
    <2>1. UNCHANGED <<tpc, loc, blockedSinks, bad, res>> /\ (cpc' = "ended" => res = "error")
      BY <1>3 DEF Simple!Rechecks, ResultKnown
    <2> QED
      BY <1>0, <2>1 DEF SimpleOver, SinksPlaced, AllDone
  <1>4. CASE Simple!Scans
    <2>1. /\ UNCHANGED <<tpc, loc, blockedSinks, bad, res, success>>
          /\ cpc' = "ended" => (success /\ buffered # <<>> => FALSE) /\ buffered' = buffered
      BY <1>4 DEF Simple!Scans
    <2> QED
      BY <1>0, <2>1 DEF SimpleOver, SinksPlaced, AllDone
  <1>5. CASE Simple!ClientRest
    <2>1. ClientStep /\ UNCHANGED <<bad, buffered, blockedSinks>>
      BY <1>5, SameClientStep DEF Simple!ClientRest
    <2>2. UNCHANGED tpc
      BY <2>1, ClientStepKeeps
    <2>3. \A i \in 1..Len(blockedSinks) :
            loc[blockedSinks[i]] \in {"blocked", "gone"} => loc'[blockedSinks[i]] \in {"blocked", "gone"}
      BY <1>0, <2>1, ClientStepWakesNone
    <2>4. SinksPlaced'
      BY <1>0, <2>1, <2>2, <2>3 DEF SinksPlaced
    <2>5. res' = "finished" => (res = "finished" /\ cpc' # "ended") \/ (AllDone /\ cpc' # "ended")
      BY <2>1 DEF ClientStep, ClientTakes, ClientFindsNone, ClientFinished, ClientLooks, Completed, AllDone,
         ClientRan, CancelTasks, DrainTakes, DrainRan, Drained, SendLoops, Returns, ResultKnown
    <2> QED
      BY <2>1, <2>2, <2>4, <2>5 DEF SimpleOver, AllDone
  <1> QED
    BY <1>1, <1>2, <1>3, <1>4, <1>5 DEF Simple!ClientWorks

-----------------------------------------------------------------------------
(***************************************************************************)
(* The invariant holds.                                                    *)
(***************************************************************************)

LEMMA BatchedStart ==
  ASSUME Batched!Init
  PROVE  BatchedOrder /\ BatchedOver
  <1> USE DEF Batched!NoBatch
  <1>0. /\ NumBatches \in Nat /\ MaxPer \in Nat /\ MaxBatch \in Nat \ {0} /\ Batches = 1..NumBatches
        /\ NumTasks \in Nat \ {0} /\ BufferCap \in Nat \ {0}
        /\ 0 \in 0..MaxBatch /\ 1 \in 1..MaxBatch /\ 0 \in 0..MaxPer /\ 0 \notin Batches
    BY Sizes
  <1>1. /\ \A t \in Tasks : /\ tpc[t] = "start" /\ batch[t] = 0 /\ minSeen[t] = 0 /\ current[t] = 0
                            /\ target[t] = 0 /\ pos[t] = 0
        /\ \A b \in Batches : buffer[b] = <<>>
        /\ nextBatch = 1 /\ minBatch = 0 /\ readQueue = <<>> /\ delivered = <<>> /\ completed = {}
        /\ blockedSinks = {} /\ todo = {} /\ cpc = "get" /\ res = "none"
    <2>1. /\ tpc = [t \in Tasks |-> IF t <= NumTasks THEN "start" ELSE "done"]
          /\ batch = [t \in Tasks |-> 0] /\ minSeen = [t \in Tasks |-> 0]
          /\ current = [t \in Tasks |-> 0] /\ target = [t \in Tasks |-> 0]
          /\ pos = [t \in Tasks |-> 0] /\ buffer = [b \in Batches |-> <<>>]
      BY Sizes DEF Batched!Init, Batched!ExecutorInit
    <2>2. \A t \in Tasks : t <= NumTasks
      BY <1>0 DEF Tasks
    <2>3. /\ nextBatch = 1 /\ minBatch = 0 /\ readQueue = <<>> /\ delivered = <<>> /\ completed = {}
          /\ blockedSinks = {} /\ todo = {} /\ cpc = "get" /\ res = "none"
      BY DEF Batched!Init, Batched!ExecutorInit
    <2> QED
      BY <2>1, <2>2, <2>3
  <1>2. BatchedTypes
    <2>1. /\ size \in [Batches -> 0..MaxPer]
          /\ batch \in [Tasks -> 0..MaxBatch] /\ minSeen \in [Tasks -> 0..MaxBatch]
          /\ current \in [Tasks -> 0..MaxBatch] /\ target \in [Tasks -> 0..MaxBatch]
          /\ pos \in [Tasks -> 0..MaxPer]
      BY <1>0, Sizes DEF Batched!Init
    <2>2. buffer \in [Batches -> Seq(Pairs)]
      <3>1. <<>> \in Seq(Pairs)
        OBVIOUS
      <3>2. buffer = [b \in Batches |-> <<>>]
        BY Sizes DEF Batched!Init
      <3> QED
        BY <3>1, <3>2
    <2>3. <<>> \in Seq(Pairs)
      OBVIOUS
    <2> QED
      BY <1>0, <1>1, <2>1, <2>2, <2>3 DEF BatchedTypes
  <1>3. BatchPlaces /\ OneWorks
    <2>1. \A t \in Tasks : BatchOf(t)
      BY <1>0, <1>1 DEF BatchOf, Works, Holding
    <2> QED
      BY <1>0, <1>1, <2>1 DEF BatchPlaces, OneWorks
  <1>4. LeastKnown
    BY <1>1 DEF LeastKnown, Started
  <1>5. \A b \in Batches : given[b] = <<>>
    <2> TAKE b \in Batches
    <2>1. \A u \in Tasks : current[u] # b
      BY <1>0, <1>1
    <2>2. Pushed(b) = IF b < nextBatch THEN size[b] ELSE 0
      BY <2>1, PushedNow
    <2>3. ~(b < nextBatch)
      BY <1>0, <1>1
    <2> QED
      BY <2>2, <2>3 DEF given
  <1>6. ChunksInOrder
    <2>1. given \in [1..NumBatches -> Seq(Pairs)]
      BY <1>2, <1>3, GivenType
    <2>2. FlatTo(given, 0) = <<>>
      BY <1>0, <2>1, FlatNone
    <2>3. Front = 0
      BY <1>0, <1>1 DEF Front
    <2> QED
      BY <1>1, <1>5, <2>2, <2>3 DEF ChunksInOrder
  <1>7. BlockedPlaces
    BY <1>1 DEF BlockedPlaces
  <1>8. RoomLeft
    <2>1. buffer \in [Batches -> Seq(Pairs)] /\ buffer \in [1..NumBatches -> Seq(Pairs)]
      BY <1>0, <1>2 DEF BatchedTypes
    <2>2. Batched!BufferCount = Len(FlatTo(buffer, NumBatches))
      BY <2>1, CountIs DEF Batched!BufferCount
    <2>3. NumBatches \in 0..NumBatches /\ \A b \in 1..NumBatches : buffer[b] = <<>>
      BY <1>0, <1>1
    <2>4. FlatTo(buffer, NumBatches) = <<>>
      BY <1>0, <2>1, <2>3, FlatEmpty
    <2>5. LetIn = {}
      BY <1>1 DEF LetIn
    <2>6. Cardinality(LetIn) = 0 /\ Batched!BufferCount = 0
      BY <2>2, <2>4, <2>5, FS_EmptySet
    <2> QED
      BY <1>0, <2>6 DEF RoomLeft
  <1>9. BatchedOver
    BY <1>1 DEF BatchedOver
  <1> QED
    BY <1>2, <1>3, <1>4, <1>6, <1>7, <1>8, <1>9 DEF BatchedOrder

LEMMA StreamStarts ==
  ASSUME Init
  PROVE  StreamInv
  <1>1. IInv
    BY InitIsSound
  <1>2. ExecutorTypes
    <2>1. /\ failed = FALSE /\ cancelled = FALSE /\ sending = TRUE /\ success = TRUE
          /\ budget = 0 /\ res = "none"
      BY DEF Init, Batched!Init, Simple!Init, Batched!ExecutorInit, Simple!ExecutorInit
    <2>2. 0 \in 0..PartialChunks
      BY ExecutorAssumption
    <2> QED
      BY <2>1, <2>2 DEF ExecutorTypes, Answers
  <1>3. plan = "batched" => BatchedOrder /\ BatchedOver
    BY BatchedStart DEF Init
  <1>4. plan # "batched" => SimpleOver
    <2> SUFFICES ASSUME plan # "batched"
                 PROVE  SimpleOver
      OBVIOUS
    <2>1. bad \in 0..NumChunks /\ blockedSinks = <<>> /\ res = "none"
      BY ResultAssumption DEF Init, Simple!Init, Simple!ExecutorInit, Simple!Chunks, Simple!NoChunk
    <2> QED
      BY <2>1 DEF SimpleOver, SinksPlaced
  <1> QED
    BY <1>1, <1>2, <1>3, <1>4 DEF StreamInv

LEMMA StreamStutterKeeps ==
  ASSUME StreamInv, UNCHANGED vars
  PROVE  StreamInv'
  <1> USE DEF vars, ofBoth, ofBatched, ofSimple, executor, client
  <1>1. IInv'
    BY StutterKeeps DEF StreamInv
  <1>2. ExecutorTypes'
    BY DEF StreamInv, ExecutorTypes
  <1>3. ASSUME plan = "batched" PROVE BatchedOrder' /\ BatchedOver'
    <2>1. BatchedOrder /\ BatchedOver
      BY <1>3 DEF StreamInv
    <2>2. BatchedOrder'
      BY <2>1, ClientLeavesOrder DEF BatchedOrder, BatchedTypes
    <2>3. BatchedOver'
      BY <2>1 DEF BatchedOver, AllDone
    <2> QED
      BY <2>2, <2>3
  <1>4. ASSUME plan # "batched" PROVE SimpleOver'
    BY <1>4 DEF StreamInv, SimpleOver, SinksPlaced, AllDone
  <1> QED
    BY <1>1, <1>2, <1>3, <1>4 DEF StreamInv

LEMMA StreamNextKeeps ==
  ASSUME StreamInv, Next
  PROVE  StreamInv'
  <1>0. IInv' /\ TasksPlaced /\ ResultKnown
    BY NextKeeps DEF StreamInv, IInv
  <1>1. CASE plan = "batched" /\ UNCHANGED plan
             /\ ((\E t \in Tasks : Batched!TaskStep(t)) \/ Batched!ClientWorks \/ Batched!Calls)
    <2>1. BatchedOrder /\ BatchedOver /\ BatchedInv /\ ExecutorTypes
      BY <1>1 DEF StreamInv, IInv
    <2>2. BatchedOrder' /\ BatchedOver'
      BY <1>0, <1>1, <2>1, TaskKeepsOrder, TaskKeepsOver, ClientKeepsOrder
    <2>3. ExecutorTypes'
      BY <1>1, <2>1, TaskKeepsTypes, ClientKeepsTypes
    <2> QED
      BY <1>0, <1>1, <2>2, <2>3 DEF StreamInv
  <1>2. CASE plan # "batched" /\ UNCHANGED plan
             /\ ((\E t \in Tasks : Simple!TaskStep(t)) \/ Simple!ClientWorks \/ Simple!Calls)
    <2>1. SimpleInv /\ SimpleOver /\ ExecutorTypes
      BY <1>2 DEF StreamInv, IInv
    <2>2. SimpleOver'
      BY <1>0, <1>2, <2>1, SimpleTaskOver, SimpleClientOver
    <2>3. ExecutorTypes'
      BY <1>2, <2>1, TaskKeepsTypes, ClientKeepsTypes
    <2> QED
      BY <1>0, <1>2, <2>2, <2>3 DEF StreamInv
  <1>3. CASE Over
    BY <1>3, StreamStutterKeeps DEF Over
  <1> QED
    BY <1>1, <1>2, <1>3 DEF Next, TaskStep, ClientWorks, Calls, IsBatched, IsSimple

\* StreamInv holds in every state: besides IInv, where the chunks of each batch are
\* and which of them are out, what each task knows of the least batch at work, and
\* that nobody has stopped fetching too early.
THEOREM StreamInvariance == Spec => []StreamInv
  <1>1. Init => StreamInv
    BY StreamStarts
  <1>2. StreamInv /\ [Next]_vars => StreamInv'
    BY StreamNextKeeps, StreamStutterKeeps
  <1> QED
    BY <1>1, <1>2, PTL DEF Spec

-----------------------------------------------------------------------------
(***************************************************************************)
(* What the assertions and internal exceptions say.                        *)
(***************************************************************************)

\* A batch of which chunks wait and that no task works at is complete; a batch below
\* what some task knows as the least one is no longer anybody's.
LEMMA WaitingIsComplete ==
  ASSUME BatchedOrder, NEW b \in Batches, buffer[b] # <<>>, NEW t \in Tasks, Started(t), b < minSeen[t]
  PROVE  b \in completed
  <1>0. BatchedTypes /\ BatchPlaces /\ OneWorks /\ LeastKnown /\ ChunksInOrder
    BY DEF BatchedOrder
  <1>1. \A u \in Tasks : current[u] # b
    <2> SUFFICES ASSUME NEW u \in Tasks, current[u] = b
                 PROVE  FALSE
      OBVIOUS
    <2>1. Started(u)
      BY <1>0, Sizes DEF BatchPlaces, BatchOf, Started
    <2>2. minSeen[t] <= batch[u] /\ minSeen[t] \in Nat /\ batch[u] \in Nat /\ b \in Nat
      BY <1>0, <2>1, Sizes DEF LeastKnown, BatchedTypes
    <2>3. batch[u] # b
      BY <2>2
    <2>4. Pushed(b) = 0
      BY <1>0, <2>3, PushedNow DEF OneWorks
    <2>5. given[b] = <<>>
      BY <2>4 DEF given
    <2> QED
      BY <1>0, <2>5 DEF ChunksInOrder
  <1> QED
    BY <1>0, <1>1 DEF ChunksInOrder

LEMMA BatchedSound ==
  ASSUME TasksPlaced, ExecutorTypes, BatchedOrder
  PROVE  Batched!TypeOK /\ Batched!BatchesInOrder /\ Batched!WaitingBounded
  <1>0. /\ BatchedTypes /\ BatchPlaces /\ OneWorks /\ LeastKnown /\ ChunksInOrder
        /\ BlockedPlaces /\ RoomLeft
    BY DEF BatchedOrder
  <1>1. Batched!TypeOK
    <2>1. Batched!ExecutorTypeOK
      BY Sizes DEF TasksPlaced, ExecutorTypes, Answers, Batched!ExecutorTypeOK, Locations,
         Batched!Locations
    <2>2. \A f \in {batch, minSeen, current, target} : f \in [Batched!Tasks -> 0..Batched!MaxBatch]
      BY <1>0, Sizes DEF BatchedTypes
    <2>3. pos \in [Batched!Tasks -> 0..MaxPer] /\ nextBatch \in 1..Batched!MaxBatch
          /\ minBatch \in 0..Batched!MaxBatch
      BY <1>0, Sizes DEF BatchedTypes
    <2>4. completed \subseteq Batched!Batches /\ todo \subseteq blockedSinks
          /\ blockedSinks \subseteq Batched!Batches \X Batched!Tasks
      BY <1>0, Sizes DEF BatchedTypes
    <2> QED
      BY <2>1, <2>2, <2>3, <2>4 DEF Batched!TypeOK
  <1>2. Batched!BatchesInOrder
    <2>1. ASSUME NEW b \in Batches, buffer[b] # <<>>
          PROVE  /\ b > minBatch
                 /\ \A t \in Tasks : tpc[t] \in {"nextmin", "push", "should", "combine"} =>
                      (b < minSeen[t] => b \in completed)
      <3>1. b > minBatch
        <4>1. ~(b <= minBatch) /\ b \in Nat /\ minBatch \in Nat
          BY <1>0, <2>1, Sizes DEF ChunksInOrder, BatchedTypes
        <4> QED
          BY <4>1
      <3>2. ASSUME NEW t \in Tasks, tpc[t] \in {"nextmin", "push", "should", "combine"}, b < minSeen[t]
            PROVE  b \in completed
        <4>1. Started(t)
          BY <3>2 DEF Started
        <4> QED
          BY <2>1, <3>2, <4>1, WaitingIsComplete
      <3> QED
        BY <3>1, <3>2
    <2>2. ASSUME NEW t \in Tasks, tpc[t] \in {"push", "should", "append", "block", "desched"}
          PROVE  batch[t] >= minBatch
      <3>1. Started(t) /\ minBatch \in Nat /\ batch[t] \in Nat
        BY <1>0, <2>2, Sizes DEF Started, BatchedTypes
      <3>2. minBatch <= batch[t]
        BY <1>0, <3>1 DEF LeastKnown
      <3> QED
        BY <3>1, <3>2
    <2>3. ASSUME NEW s \in blockedSinks, NEW r \in blockedSinks, s[1] = r[1]
          PROVE  s = r
      <3>1. /\ s \in Batches \X Tasks /\ r \in Batches \X Tasks
            /\ s[1] = batch[s[2]] /\ r[1] = batch[r[2]]
            /\ tpc[s[2]] \in Holding /\ tpc[r[2]] \in Holding
        BY <1>0 DEF BlockedPlaces, BatchedTypes, Holding
      <3>2. Works(s[2]) /\ Works(r[2])
        BY <1>0, <3>1 DEF BatchPlaces, BatchOf
      <3>3. s[2] = r[2]
        BY <1>0, <2>3, <3>1, <3>2 DEF Works, OneWorks
      <3> QED
        BY <2>3, <3>1, <3>3
    <2> QED
      BY <2>1, <2>2, <2>3, Sizes DEF Batched!BatchesInOrder
  <1>3. Batched!WaitingBounded
    <2>1. /\ Batched!BufferCount \in Nat
      BY <1>0, CountIs DEF BatchedTypes, Batched!BufferCount
    <2>2. PICK c \in Nat, k \in Nat : c = Batched!BufferCount /\ k = Cardinality(LetIn)
      BY <2>1, LetInFinite
    <2>3. c + k <= BufferCap + NumTasks - 2
      BY <1>0, <2>2 DEF RoomLeft
    <2>4. c <= BufferCap + NumTasks - 2
      BY <2>2, <2>3, Sizes
    <2> QED
      BY <2>2, <2>4 DEF Batched!WaitingBounded
  <1> QED
    BY <1>1, <1>2, <1>3

\* What the assertions and internal exceptions of the two buffers say is true for any
\* number of tasks, batches and chunks: nothing waits for a batch up to the minimum,
\* what is moved is complete, no task appends below it, and the gap between
\* ShouldBlockBatch and Append lets in no more than a chunk a task, save two.
THEOREM BuffersAreSound == Spec => []BufferSound
  <1>1. StreamInv => BufferSound
    <2>1. ASSUME StreamInv, plan = "batched" PROVE BufferSound
      BY <2>1, BatchedSound DEF StreamInv, IInv, BufferSound
    <2>2. ASSUME StreamInv, plan # "batched" PROVE BufferSound
      <3>0. /\ TasksPlaced /\ ExecutorTypes /\ SimpleTypes /\ EndKnown /\ bad \in 0..NumChunks
            /\ NumChunks \in Nat /\ count \in Nat /\ Simple!Tasks = Tasks
        BY <2>2, ResultAssumption
        DEF StreamInv, IInv, SimpleInv, SimpleOver, RoomKept, Simple!Tasks, Tasks
      <3>1. Simple!ExecutorTypeOK
        BY <3>0 DEF TasksPlaced, ExecutorTypes, Answers, Simple!ExecutorTypeOK, Locations,
           Simple!Locations
      <3>2. Simple!Chunks = 1..NumChunks /\ Simple!Chunks \cup {Simple!NoChunk} = 0..NumChunks
        BY <3>0 DEF Simple!Chunks, Simple!NoChunk
      <3>3. Simple!TypeOK
        BY <3>0, <3>1, <3>2 DEF Simple!TypeOK, SimpleTypes
      <3>4. Simple!ChunkMeansOpen
        BY <3>0 DEF EndKnown, Simple!ChunkMeansOpen
      <3> QED
        BY <2>2, <3>3, <3>4 DEF BufferSound
    <2> QED
      BY <2>1, <2>2
  <1> QED
    BY <1>1, StreamInvariance, PTL

\* When the tasks are done the minimum is behind the last batch.
LEMMA DoneMeansOut ==
  ASSUME BatchedOrder, AllDone
  PROVE  minBatch = MaxBatch /\ Front = NumBatches /\ \A b \in Batches : buffer[b] = <<>>
  <1>0. BatchedTypes /\ BatchPlaces /\ LeastKnown /\ ChunksInOrder
    BY DEF BatchedOrder
  <1>1. \A t \in Tasks : Started(t) /\ batch[t] = MaxBatch /\ minSeen[t] <= minBatch
    BY <1>0 DEF AllDone, Started, BatchPlaces, BatchOf, LeastKnown
  <1>2. 1 \in Tasks
    BY Sizes DEF Tasks
  <1>3. PICK t \in Tasks, u \in Tasks : minSeen[t] = batch[u]
    BY <1>0, <1>1, <1>2 DEF LeastKnown
  <1>4. MaxBatch <= minBatch
    BY <1>1, <1>3
  <1>5. minBatch = MaxBatch
    BY <1>0, <1>4, Sizes DEF BatchedTypes
  <1>6. Front = NumBatches
    BY <1>5, Sizes DEF Front
  <1>7. \A b \in Batches : b <= minBatch
    BY <1>5, Sizes
  <1> QED
    BY <1>0, <1>5, <1>6, <1>7 DEF ChunksInOrder

\* When Fetch has returned null without an error, no chunk waits in a buffer, no sink
\* is registered as blocked and every task is done.
THEOREM NothingIsLeft == Spec => []NothingLeft
  <1>1. ASSUME StreamInv, plan = "batched", cpc = "ended", success, res = "finished"
        PROVE  Batched!BufferCount = 0 /\ blockedSinks = {} /\ AllDone
    <2>1. BatchedOrder /\ AllDone
      BY <1>1 DEF StreamInv, BatchedOver
    <2>2. \A b \in Batches : buffer[b] = <<>>
      BY <2>1, DoneMeansOut
    <2>3. /\ buffer \in [Batches -> Seq(Pairs)] /\ buffer \in [1..NumBatches -> Seq(Pairs)]
          /\ NumBatches \in Nat /\ NumBatches \in 0..NumBatches
          /\ \A b \in 1..NumBatches : buffer[b] = <<>>
      BY <2>1, <2>2, Sizes DEF BatchedOrder, BatchedTypes
    <2>4. Batched!BufferCount = Len(FlatTo(buffer, NumBatches)) /\ FlatTo(buffer, NumBatches) = <<>>
      BY <2>3, CountIs, FlatEmpty DEF Batched!BufferCount
    <2>5. blockedSinks = {}
      BY <2>1 DEF BatchedOrder, BatchedTypes, BlockedPlaces, AllDone
    <2> QED
      BY <2>1, <2>4, <2>5
  <1>2. ASSUME StreamInv, plan # "batched", cpc = "ended", success, res = "finished"
        PROVE  buffered = <<>> /\ blockedSinks = <<>> /\ AllDone
    <2>1. AllDone /\ SinksPlaced /\ buffered = <<>> /\ blockedSinks \in Seq(Tasks)
      BY <1>2 DEF StreamInv, SimpleOver, IInv, SimpleInv, SimpleTypes
    <2>2. Len(blockedSinks) = 0
      <3>1. \A i \in 1..Len(blockedSinks) : blockedSinks[i] \in Tasks
        BY <2>1
      <3>2. 1 \notin 1..Len(blockedSinks)
        BY <2>1, <3>1 DEF SinksPlaced, AllDone
      <3> QED
        BY <2>1, <3>2
    <2> QED
      BY <2>1, <2>2
  <1>3. StreamInv => NothingLeft
    BY <1>1, <1>2 DEF NothingLeft, Batched!NothingLeft, Simple!NothingLeft, AllDone, Batched!Tasks,
       Simple!Tasks, Tasks
  <1> QED
    BY <1>3, StreamInvariance, PTL

-----------------------------------------------------------------------------
(***************************************************************************)
(* Every plan implements ChunkStream.                                      *)
(***************************************************************************)

chunks == [b \in Batches |-> [i \in 1..size[b] |-> <<b, i>>]]

LEMMA ChunksType ==
  ASSUME BatchedTypes
  PROVE  /\ chunks \in [1..NumBatches -> Seq(Pairs)]
         /\ Batched!Whole = FlatTo(chunks, NumBatches)
         /\ Batched!Whole \in Seq(Pairs)
         /\ \A b \in Batches : size[b] \in 0..MaxPer /\ size[b] \in Nat
  <1>1. ASSUME NEW b \in Batches
        PROVE  [i \in 1..size[b] |-> <<b, i>>] \in Seq(Pairs) /\ size[b] \in 0..MaxPer /\ size[b] \in Nat
    <2>1. size[b] \in 0..MaxPer /\ MaxPer \in Nat
      BY Sizes DEF BatchedTypes
    <2>2. \A i \in 1..size[b] : <<b, i>> \in Pairs
      BY <2>1 DEF Pairs
    <2> QED
      BY <2>1, <2>2
  <1>2. chunks \in [1..NumBatches -> Seq(Pairs)]
    BY <1>1, Sizes DEF chunks
  <1>3. Batched!Whole = FlatTo(chunks, NumBatches)
    <2>1. [b \in Batches |-> Batched!ChunksOf(b)] = [b \in 1..NumBatches |-> chunks[b]]
      BY Sizes DEF chunks, Batched!ChunksOf
    <2> QED
      BY <2>1, Sizes DEF Batched!Whole, FlatTo
  <1>4. FlatTo(chunks, NumBatches) \in Seq(Pairs)
    <2>1. NumBatches \in 0..NumBatches /\ NumBatches \in Nat
      BY Sizes
    <2> QED
      BY <1>2, <2>1, FlatStep
  <1> QED
    BY <1>1, <1>2, <1>3, <1>4

\* The chunks of the source are all different.
LEMMA ChunksDiffer ==
  ASSUME BatchedTypes
  PROVE  \A i, j \in 1..Len(Batched!Whole) : Batched!Whole[i] = Batched!Whole[j] => i = j
  <1> DEFINE F(n) == FlatTo(chunks, n)
             Good(n) == /\ \A i \in 1..Len(F(n)) : F(n)[i][1] \in Nat /\ F(n)[i][1] <= n
                        /\ \A i, j \in 1..Len(F(n)) : F(n)[i] = F(n)[j] => i = j
             Left == {n \in Nat : n <= NumBatches /\ ~Good(n)}
  <1>0. chunks \in [1..NumBatches -> Seq(Pairs)] /\ NumBatches \in Nat
    BY ChunksType, Sizes
  <1>1. Left = {}
    <2> SUFFICES ASSUME Left # {}
                 PROVE  FALSE
      OBVIOUS
    <2>1. PICK n \in Left : \A m \in Left : n <= m
      <3>1. Left \in SUBSET Nat
        OBVIOUS
      <3> HIDE DEF Left
      <3> QED
        BY <3>1, HasLeast
    <2>2. n \in Nat /\ n <= NumBatches /\ ~Good(n)
      BY <2>1
    <2>3. CASE n = 0
      <3>1. F(0) = <<>>
        BY <1>0, FlatNone
      <3> QED
        BY <2>2, <2>3, <3>1
    <2>4. CASE n # 0
      <3>1. n \in 1..NumBatches /\ n - 1 \in Nat /\ n - 1 <= NumBatches /\ n \in Batches
        BY <1>0, <2>2, <2>4, Sizes
      <3>2. Good(n - 1)
        <4>1. n - 1 \notin Left
          BY <2>1, <3>1
        <4> QED
          BY <3>1, <4>1
      <3>3. /\ F(n) = F(n - 1) \o chunks[n] /\ F(n) \in Seq(Pairs)
            /\ F(n - 1) \in Seq(Pairs) /\ chunks[n] \in Seq(Pairs)
        <4>1. PICK c \in [1..NumBatches -> Seq(Pairs)] : c = chunks
          BY <1>0
        <4>2. NumBatches \in Nat /\ n \in 1..NumBatches
          BY <1>0, <3>1
        <4>3. /\ FlatTo(c, n) = FlatTo(c, n - 1) \o c[n]
              /\ FlatTo(c, n - 1) \in Seq(Pairs) /\ FlatTo(c, n) \in Seq(Pairs) /\ c[n] \in Seq(Pairs)
          <5> HIDE DEF Left, Good
          <5> QED
            BY <4>2, FlatSteps
        <4> QED
          BY <4>1, <4>3
      <3>4. /\ Len(chunks[n]) = size[n] /\ size[n] \in Nat
            /\ \A k \in 1..size[n] : chunks[n][k] = <<n, k>>
        <4>1. chunks[n] = [k \in 1..size[n] |-> <<n, k>>] /\ size[n] \in Nat
          BY <3>1, ChunksType DEF chunks
        <4> QED
          BY <4>1
      <3>5. PICK X \in Seq(Pairs), Y \in Seq(Pairs), Z \in Seq(Pairs) : X = F(n - 1) /\ Y = chunks[n] /\ Z = F(n)
        BY <3>3
      <3>6. /\ Z = X \o Y /\ Len(X) \in Nat /\ Len(Z) = Len(X) + size[n]
            /\ \A i \in 1..Len(X) : Z[i] = X[i]
            /\ \A k \in 1..size[n] : Z[Len(X) + k] = <<n, k>>
        <4>1. Z = X \o Y
          BY <3>3, <3>5
        <4>2. Len(Y) = size[n] /\ \A k \in 1..size[n] : Y[k] = <<n, k>>
          BY <3>4, <3>5
        <4>3. /\ Len(X \o Y) = Len(X) + Len(Y) /\ Len(X) \in Nat
              /\ \A i \in 1..Len(X) : (X \o Y)[i] = X[i]
              /\ \A k \in 1..Len(Y) : (X \o Y)[Len(X) + k] = Y[k]
          BY Joined
        <4> QED
          BY <4>1, <4>2, <4>3
      <3>7. /\ \A i \in 1..Len(X) : X[i][1] \in Nat /\ X[i][1] <= n - 1
            /\ \A i, j \in 1..Len(X) : X[i] = X[j] => i = j
        BY <3>2, <3>5
      <3> HIDE DEF F
      <3>8. ASSUME NEW i \in 1..Len(Z)
            PROVE  \/ i \in 1..Len(X) /\ Z[i] = X[i] /\ Z[i][1] \in Nat /\ Z[i][1] <= n - 1
                   \/ i - Len(X) \in 1..size[n] /\ Z[i] = <<n, i - Len(X)>>
        <4>1. CASE i <= Len(X)
          <5>1. i \in 1..Len(X)
            BY <3>6, <4>1
          <5> QED
            BY <3>6, <3>7, <5>1
        <4>2. CASE ~(i <= Len(X))
          <5>1. i - Len(X) \in 1..size[n] /\ i = Len(X) + (i - Len(X))
            BY SMTT(60), <3>4, <3>6, <4>2
          <5> QED
            BY <3>6, <5>1
        <4> QED
          BY <4>1, <4>2
      <3>9. \A i \in 1..Len(Z) : Z[i][1] \in Nat /\ Z[i][1] <= n
        BY <3>1, <3>8
      <3>10. ASSUME NEW i \in 1..Len(Z), NEW j \in 1..Len(Z), Z[i] = Z[j]
             PROVE  i = j
        <4>1. CASE i \in 1..Len(X) /\ Z[i] = X[i] /\ j \in 1..Len(X) /\ Z[j] = X[j]
          BY <3>7, <3>10, <4>1
        <4>2. CASE Z[i] = <<n, i - Len(X)>> /\ Z[j] = <<n, j - Len(X)>>
          <5>1. Z[i][2] = i - Len(X) /\ Z[j][2] = j - Len(X)
            BY <4>2
          <5>2. i - Len(X) = j - Len(X)
            BY <3>10, <5>1
          <5>3. i \in Int /\ j \in Int /\ Len(X) \in Int
            <6> HIDE DEF Left, Good
            <6> QED
              BY <3>6
          <5> QED
            BY <5>2, <5>3
        <4>3. CASE Z[i] = <<n, i - Len(X)>> /\ Z[j][1] \in Nat /\ Z[j][1] <= n - 1
          BY <3>1, <3>10, <4>3
        <4>4. CASE Z[j] = <<n, j - Len(X)>> /\ Z[i][1] \in Nat /\ Z[i][1] <= n - 1
          BY <3>1, <3>10, <4>4
        <4> QED
          BY <3>8, <4>1, <4>2, <4>3, <4>4
      <3>11. Good(n)
        BY <3>5, <3>9, <3>10
      <3> QED
        BY <2>2, <3>11
    <2> QED
      BY <2>3, <2>4
  <1>2. Good(NumBatches)
    <2>1. NumBatches \notin Left
      BY <1>1
    <2> QED
      BY <1>0, <2>1
  <1>3. F(NumBatches) = Batched!Whole
    BY ChunksType
  <1> QED
    BY <1>2, <1>3

\* Nobody is at a batch below the minimum any more: it is out whole.
LEMMA BelowIsWhole ==
  ASSUME BatchedOrder, NEW b \in Batches, b < minBatch
  PROVE  given[b] = chunks[b]
  <1>0. BatchedTypes /\ BatchPlaces /\ LeastKnown
    BY DEF BatchedOrder
  <1>1. b \in Nat /\ minBatch \in Nat /\ nextBatch \in Nat
    BY <1>0, Sizes DEF BatchedTypes
  <1>2. \A u \in Tasks : current[u] # b
    <2> SUFFICES ASSUME NEW u \in Tasks, current[u] = b
                 PROVE  FALSE
      OBVIOUS
    <2>1. Started(u) /\ batch[u] <= b
      BY <1>0, Sizes DEF BatchPlaces, BatchOf, Started
    <2>2. minBatch <= batch[u] /\ batch[u] \in Nat
      BY <1>0, <2>1, Sizes DEF LeastKnown, BatchedTypes
    <2> QED
      BY <1>1, <2>1, <2>2
  <1>3. b < nextBatch
    <2>1. minBatch <= nextBatch
      BY <1>0 DEF LeastKnown
    <2> QED
      BY <1>1, <2>1
  <1>4. Pushed(b) = size[b]
    BY <1>2, <1>3, PushedNow
  <1> QED
    BY <1>4 DEF given, chunks

\* What is out is a beginning of what the source has.
LEMMA OutBeginsWhole ==
  ASSUME BatchedOrder
  PROVE  /\ Len(FlatTo(given, Front)) <= Len(Batched!Whole)
         /\ \A i \in 1..Len(FlatTo(given, Front)) : Batched!Whole[i] = FlatTo(given, Front)[i]
  <1>0. BatchedTypes /\ BatchPlaces /\ OneWorks
    BY DEF BatchedOrder
  <1>1. /\ given \in [1..NumBatches -> Seq(Pairs)] /\ chunks \in [1..NumBatches -> Seq(Pairs)]
        /\ Batched!Whole = FlatTo(chunks, NumBatches) /\ NumBatches \in Nat
        /\ minBatch \in Nat /\ Front \in 0..NumBatches /\ Front <= minBatch
        /\ NumBatches \in Front..NumBatches
    <2>1. given \in [1..NumBatches -> Seq(Pairs)]
      BY <1>0, GivenType
    <2>2. chunks \in [1..NumBatches -> Seq(Pairs)] /\ Batched!Whole = FlatTo(chunks, NumBatches)
      BY <1>0, ChunksType
    <2>3. /\ NumBatches \in Nat /\ minBatch \in Nat /\ Front \in 0..NumBatches /\ Front <= minBatch
          /\ NumBatches \in Front..NumBatches
      BY <1>0, Sizes DEF BatchedTypes, Front
    <2> QED
      BY <2>1, <2>2, <2>3
  <1>1a. PICK g \in [1..NumBatches -> Seq(Pairs)], c \in [1..NumBatches -> Seq(Pairs)],
              fr \in 0..NumBatches : g = given /\ c = chunks /\ fr = Front
    BY <1>1
  <1>2. /\ Len(FlatTo(chunks, Front)) <= Len(Batched!Whole)
        /\ \A i \in 1..Len(FlatTo(chunks, Front)) : Batched!Whole[i] = FlatTo(chunks, Front)[i]
    <2>1. PICK n \in fr..NumBatches : n = NumBatches
      BY <1>1, <1>1a
    <2>2. NumBatches \in Nat
      BY <1>1
    <2>3. /\ Len(FlatTo(c, fr)) <= Len(FlatTo(c, n))
          /\ \A i \in 1..Len(FlatTo(c, fr)) : FlatTo(c, n)[i] = FlatTo(c, fr)[i]
      BY ZenonT(60), <2>2, FlatBegins
    <2> QED
      BY <1>1, <1>1a, <2>1, <2>3
  <1>3. /\ FlatTo(given, Front) \in Seq(Pairs) /\ FlatTo(chunks, Front) \in Seq(Pairs)
        /\ Batched!Whole \in Seq(Pairs)
    <2>1. FlatTo(given, Front) \in Seq(Pairs)
      BY <1>1, FlatStep
    <2>2. FlatTo(chunks, Front) \in Seq(Pairs)
      BY <1>1, FlatStep
    <2> QED
      BY <1>0, <2>1, <2>2, ChunksType
  <1>4. CASE Front = 0
    <2>1. FlatTo(given, Front) = <<>>
      BY <1>1, <1>4, FlatNone
    <2> QED
      BY <1>3, <2>1
  <1>5. CASE Front # 0
    <2>0. Front \in 1..NumBatches /\ Front - 1 \in Nat /\ Front \in Batches /\ Front \in Nat
      BY <1>1, <1>5, Sizes
    <2>0a. PICK m \in 1..NumBatches : m = Front
      BY <2>0
    <2>0b. NumBatches \in Nat
      BY <1>1
    <2>1. \A b \in 1..Front - 1 : given[b] = chunks[b]
      <3> TAKE b \in 1..Front - 1
      <3>1. b \in Batches /\ b < minBatch
        BY <1>1, <2>0, Sizes
      <3> QED
        BY <3>1, BelowIsWhole
    <2>2. FlatTo(given, Front - 1) = FlatTo(chunks, Front - 1)
      BY <2>0, <2>1, FlatSame
    <2>3. /\ FlatTo(given, Front) = FlatTo(given, Front - 1) \o given[Front]
          /\ FlatTo(given, Front - 1) \in Seq(Pairs) /\ given[Front] \in Seq(Pairs)
      <3>1. /\ FlatTo(g, m) = FlatTo(g, m - 1) \o g[m]
            /\ FlatTo(g, m - 1) \in Seq(Pairs) /\ FlatTo(g, m) \in Seq(Pairs) /\ g[m] \in Seq(Pairs)
        BY <2>0b, FlatSteps
      <3> QED
        BY <1>1a, <2>0a, <3>1
    <2>4. /\ FlatTo(chunks, Front) = FlatTo(chunks, Front - 1) \o chunks[Front]
          /\ chunks[Front] \in Seq(Pairs)
      <3>1. /\ FlatTo(c, m) = FlatTo(c, m - 1) \o c[m]
            /\ FlatTo(c, m - 1) \in Seq(Pairs) /\ FlatTo(c, m) \in Seq(Pairs) /\ c[m] \in Seq(Pairs)
        BY <2>0b, FlatSteps
      <3> QED
        BY <1>1a, <2>0a, <3>1
    <2>5. /\ Len(given[Front]) <= Len(chunks[Front])
          /\ \A k \in 1..Len(given[Front]) : chunks[Front][k] = given[Front][k]
      <3>1. Pushed(Front) \in 0..size[Front] /\ size[Front] \in Nat
        BY <1>0, <2>0, PushedBounds, Sizes
      <3>2. /\ given[Front] = [i \in 1..Pushed(Front) |-> <<Front, i>>]
            /\ chunks[Front] = [i \in 1..size[Front] |-> <<Front, i>>]
        BY <2>0 DEF given, chunks
      <3>3. Len(given[Front]) = Pushed(Front) /\ Len(chunks[Front]) = size[Front]
        BY <3>1, <3>2
      <3> QED
        BY <3>1, <3>2, <3>3
    <2>6. PICK X \in Seq(Pairs), G \in Seq(Pairs), C \in Seq(Pairs) :
             X = FlatTo(given, Front - 1) /\ G = given[Front] /\ C = chunks[Front]
      BY <2>3, <2>4
    <2>7. FlatTo(given, Front) = X \o G /\ FlatTo(chunks, Front) = X \o C
          /\ Len(G) <= Len(C) /\ \A k \in 1..Len(G) : C[k] = G[k]
      BY <2>2, <2>3, <2>4, <2>5, <2>6
    <2>8. /\ Len(X \o G) <= Len(X \o C)
          /\ \A i \in 1..Len(X \o G) : (X \o C)[i] = (X \o G)[i]
      <3>1. /\ Len(X \o G) = Len(X) + Len(G) /\ Len(X) \in Nat /\ Len(G) \in Nat
            /\ \A i \in 1..Len(X) : (X \o G)[i] = X[i]
            /\ \A k \in 1..Len(G) : (X \o G)[Len(X) + k] = G[k]
        BY Joined
      <3>2. /\ Len(X \o C) = Len(X) + Len(C) /\ Len(C) \in Nat
            /\ \A i \in 1..Len(X) : (X \o C)[i] = X[i]
            /\ \A k \in 1..Len(C) : (X \o C)[Len(X) + k] = C[k]
        BY Joined
      <3>3. ASSUME NEW i \in 1..Len(X \o G) PROVE (X \o C)[i] = (X \o G)[i]
        <4>1. CASE i \in 1..Len(X)
          BY <3>1, <3>2, <4>1
        <4>2. CASE i \notin 1..Len(X)
          <5>1. PICK k \in 1..Len(G) : i = Len(X) + k
            <6>1. i - Len(X) \in 1..Len(G) /\ i = Len(X) + (i - Len(X))
              BY <3>1, <4>2
            <6> QED
              BY <6>1
          <5>2. k \in 1..Len(C)
            BY <2>7, <3>1, <3>2
          <5> QED
            BY <2>7, <3>1, <3>2, <5>1, <5>2
        <4> QED
          BY <4>1, <4>2
      <3> QED
        BY <2>7, <3>1, <3>2, <3>3
    <2>9. PICK P \in Seq(Pairs), Q \in Seq(Pairs), W \in Seq(Pairs) :
             P = FlatTo(given, Front) /\ Q = FlatTo(chunks, Front) /\ W = Batched!Whole
      BY <1>3
    <2>10. Len(P) <= Len(Q) /\ \A i \in 1..Len(P) : Q[i] = P[i]
      BY <2>7, <2>8, <2>9
    <2>11. Len(Q) <= Len(W) /\ \A i \in 1..Len(Q) : W[i] = Q[i]
      BY <1>2, <2>9
    <2>12. Len(P) <= Len(W) /\ \A i \in 1..Len(P) : W[i] = P[i]
      BY <2>10, <2>11
    <2> QED
      BY <2>9, <2>12
  <1> QED
    BY <1>4, <1>5

LEMMA BatchedStutters ==
  ASSUME UNCHANGED <<plan, size, delivered, StreamStatus>>
  PROVE  UNCHANGED Stream!vars
  <1>1. Batched!Whole' = Batched!Whole
    BY DEF Batched!Whole, Batched!ChunksOf
  <1> QED
    BY <1>1 DEF Stream!vars, StreamStatus

\* The head of the read queue is the next chunk of the source, and was not delivered
\* before.
LEMMA ReadIsNext ==
  ASSUME BatchedOrder, readQueue # <<>>
  PROVE  /\ Len(delivered) + 1 \in DOMAIN Batched!Whole
         /\ Batched!Whole[Len(delivered) + 1] = Head(readQueue)
         /\ \A j \in DOMAIN delivered : delivered[j] # Head(readQueue)
  <1>0. BatchedTypes /\ delivered \o readQueue = FlatTo(given, Front)
    BY DEF BatchedOrder, ChunksInOrder
  <1>1. PICK D \in Seq(Pairs), R \in Seq(Pairs), W \in Seq(Pairs), F \in Seq(Pairs) :
           D = delivered /\ R = readQueue /\ W = Batched!Whole /\ F = FlatTo(given, Front)
    <2>1. delivered \in Seq(Pairs) /\ readQueue \in Seq(Pairs) /\ Batched!Whole \in Seq(Pairs)
      BY <1>0, ChunksType DEF BatchedTypes
    <2>2. FlatTo(given, Front) \in Seq(Pairs)
      BY <1>0, <2>1, Joined
    <2> QED
      BY <2>1, <2>2
  <1>2. Len(F) <= Len(W) /\ \A i \in 1..Len(F) : W[i] = F[i]
    BY <1>1, OutBeginsWhole
  <1>3. /\ F = D \o R /\ Len(D \o R) = Len(D) + Len(R) /\ Len(D) \in Nat /\ Len(R) \in Nat
        /\ \A i \in 1..Len(D) : (D \o R)[i] = D[i]
        /\ \A k \in 1..Len(R) : (D \o R)[Len(D) + k] = R[k]
    BY <1>0, <1>1, Joined
  <1>4. \A i, j \in 1..Len(W) : W[i] = W[j] => i = j
    BY <1>0, <1>1, ChunksDiffer
  <1>5. 1 \in 1..Len(R) /\ R[1] = Head(R)
    BY <1>1
  <1>6. /\ Len(D) + 1 \in 1..Len(F) /\ Len(D) + 1 \in 1..Len(W)
        /\ F[Len(D) + 1] = Head(R) /\ W[Len(D) + 1] = Head(R) /\ DOMAIN W = 1..Len(W)
    <2>1. Len(D) + 1 \in 1..Len(F) /\ Len(D) + 1 \in 1..Len(W) /\ F[Len(D) + 1] = R[1]
      <3>1. Len(W) \in Nat /\ Len(F) = Len(D) + Len(R) /\ Len(R) >= 1
        BY <1>3, <1>5
      <3> QED
        BY <1>2, <1>3, <1>5, <3>1
    <2> QED
      BY <1>2, <1>5, <2>1
  <1>7. ASSUME NEW j \in 1..Len(D) PROVE D[j] # Head(R)
    <2>1. j \in 1..Len(F) /\ j \in 1..Len(W) /\ j # Len(D) + 1
      <3>1. Len(W) \in Nat /\ Len(F) = Len(D) + Len(R)
        BY <1>3
      <3> QED
        BY <1>2, <1>3, <3>1
    <2>2. W[j] = D[j]
      BY <1>2, <1>3, <2>1
    <2> QED
      BY <1>4, <1>6, <2>1, <2>2
  <1>8. DOMAIN D = 1..Len(D)
    OBVIOUS
  <1> QED
    BY <1>1, <1>6, <1>7, <1>8

\* When the tasks are done and the read queue is empty, all that the source has is
\* delivered.
LEMMA AllFetched ==
  ASSUME BatchedOrder, AllDone, readQueue = <<>>
  PROVE  delivered = Batched!Whole
  <1>0. BatchedTypes /\ delivered \o readQueue = FlatTo(given, Front)
    BY DEF BatchedOrder, ChunksInOrder
  <1>1. minBatch = MaxBatch /\ Front = NumBatches
    BY DoneMeansOut
  <1>2. \A b \in 1..NumBatches : given[b] = chunks[b]
    <2> TAKE b \in 1..NumBatches
    <2>1. b \in Batches /\ b < minBatch
      BY <1>1, Sizes
    <2> QED
      BY <2>1, BelowIsWhole
  <1>3. NumBatches \in Nat
    BY Sizes
  <1>4. FlatTo(given, NumBatches) = FlatTo(chunks, NumBatches)
    BY <1>2, <1>3, FlatSame
  <1>5. delivered \in Seq(Pairs) /\ delivered \o <<>> = delivered
    BY <1>0 DEF BatchedTypes
  <1> QED
    BY <1>0, <1>1, <1>4, <1>5, ChunksType

LEMMA BatchedStepScan ==
  ASSUME plan = "batched", UNCHANGED plan, ExecutorTypes, BatchedOrder, BatchedOver, Batched!Scans
  PROVE  Stream!Next \/ UNCHANGED Stream!vars
  <1>0. /\ cpc = "scan" /\ res # "abandoned"
        /\ UNCHANGED <<plan, size, res, success>>
        /\ StreamStatus = IF success THEN "open" ELSE "failed"
    BY DEF Batched!Scans, Batched!source, BatchedOver, StreamStatus
  <1>1. Batched!Whole' = Batched!Whole
    BY <1>0 DEF Batched!Whole, Batched!ChunksOf
  <1>2. CASE readQueue # <<>>
    <2>1. delivered' = Append(delivered, Head(readQueue)) /\ cpc' = "idle"
      BY <1>2 DEF Batched!Scans
    <2>2. StreamStatus' = StreamStatus /\ StreamStatus \in {"open", "failed"}
      BY <1>0, <2>1 DEF StreamStatus
    <2>3. PICK i \in DOMAIN Batched!Whole : i = Len(delivered) + 1 /\ Batched!Whole[i] = Head(readQueue)
      BY <1>2, ReadIsNext
    <2>4. \A j \in DOMAIN delivered : delivered[j] # Batched!Whole[i]
      BY <1>2, <2>3, ReadIsNext
    <2>5. Stream!Deliver
      BY <1>0, <1>1, <2>1, <2>2, <2>3, <2>4 DEF Stream!Deliver, StreamStatus
    <2> QED
      BY <2>5 DEF Stream!Next
  <1>3. CASE readQueue = <<>> /\ success
    <2>1. UNCHANGED delivered /\ cpc' = "ended" /\ AllDone
      BY <1>0, <1>3 DEF Batched!Scans, BatchedOver
    <2>2. delivered = Batched!Whole
      BY <1>3, <2>1, AllFetched
    <2>3. StreamStatus = "open" /\ StreamStatus' = "complete"
      BY <1>0, <1>3, <2>1 DEF StreamStatus
    <2>4. Stream!Complete
      BY <1>0, <1>1, <2>1, <2>2, <2>3 DEF Stream!Complete, StreamStatus
    <2> QED
      BY <2>4 DEF Stream!Next
  <1>4. CASE readQueue = <<>> /\ ~success
    <2>1. UNCHANGED delivered /\ cpc' = "ended"
      BY <1>4 DEF Batched!Scans
    <2>2. UNCHANGED StreamStatus
      BY <1>0, <1>4, <2>1 DEF StreamStatus
    <2> QED
      BY <1>0, <2>1, <2>2, BatchedStutters
  <1> QED
    BY <1>2, <1>3, <1>4

LEMMA BatchedStepClient ==
  ASSUME plan = "batched", UNCHANGED plan, ResultKnown, ExecutorTypes, BatchedOrder, BatchedOver,
         Batched!ClientWorks \/ Batched!Calls
  PROVE  Stream!Next \/ UNCHANGED Stream!vars
  <1> USE DEF Batched!executor, Batched!source, Batched!data, Batched!Unaffected
  <1>1. CASE Batched!Scans
    BY <1>1, BatchedStepScan
  <1>2. CASE Batched!ClientRest /\ Drained
    <2>0. Batched!Whole' = Batched!Whole
      BY <1>2 DEF Batched!ClientRest, Batched!Whole, Batched!ChunksOf
    <2>1. UNCHANGED <<delivered, size>> /\ StreamStatus \in {"open", "failed"}
          /\ (UNCHANGED StreamStatus \/ StreamStatus' = "dropped"
                \/ (StreamStatus = "open" /\ StreamStatus' = "failed"))
      BY <1>2 DEF Batched!ClientRest, Drained, ResultKnown, StreamStatus
    <2>2. CASE UNCHANGED StreamStatus
      BY <2>1, <2>2, BatchedStutters
    <2>3. CASE StreamStatus' = "dropped"
      <3>1. Stream!Drop
        BY <2>0, <2>1, <2>3 DEF Stream!Drop, StreamStatus
      <3> QED
        BY <3>1 DEF Stream!Next
    <2>4. CASE StreamStatus = "open" /\ StreamStatus' = "failed"
      <3>1. Stream!Fail
        BY <2>0, <2>1, <2>4 DEF Stream!Fail, StreamStatus
      <3> QED
        BY <3>1 DEF Stream!Next
    <2> QED
      BY <2>1, <2>2, <2>3, <2>4
  <1>3. CASE Batched!ClientRest /\ ~Drained
    <2>1. ClientStep /\ UNCHANGED <<delivered, size>>
      BY <1>3, SameClientStep DEF Batched!ClientRest
    <2>2. cpc # "ended" /\ cpc' # "ended" /\ UNCHANGED success
      BY <1>3, <2>1 DEF ClientStep, ClientTakes, ClientFindsNone, ClientFinished, ClientLooks,
         ClientRan, CancelTasks, DrainTakes, DrainRan, SendLoops, Returns, ResultKnown
    <2> QED
      BY <2>1, <2>2, BatchedStutters DEF StreamStatus
  <1>4. CASE Batched!Checks \/ Batched!Unblocks \/ Batched!Wakes \/ Batched!Calls
    <2>1. UNCHANGED <<delivered, size, success>> /\ cpc # "ended" /\ cpc' # "ended"
      BY <1>4 DEF Batched!Checks, Batched!Unblocks, Batched!Wakes, Batched!Calls, Batched!Fetches,
         Batched!Abandons, Batched!FetchThrows, Batched!Reschedules, Batched!AfterUnblocking
    <2> QED
      BY <2>1, BatchedStutters DEF StreamStatus
  <1>5. CASE Batched!Rechecks
    <2>1. UNCHANGED <<delivered, size>> /\ cpc = "ran" /\ UNCHANGED <<res, success>>
          /\ (cpc' = "ended" => res = "error")
      BY <1>5 DEF Batched!Rechecks, ResultKnown
    <2>2. UNCHANGED StreamStatus
      BY <2>1 DEF BatchedOver, StreamStatus
    <2> QED
      BY <2>1, <2>2, BatchedStutters
  <1> QED
    BY <1>1, <1>2, <1>3, <1>4, <1>5 DEF Batched!ClientWorks

LEMMA BatchedStepTask ==
  ASSUME plan = "batched", UNCHANGED plan, TasksPlaced, BatchedOrder, NEW t \in Tasks,
         Batched!TaskStep(t)
  PROVE  UNCHANGED Stream!vars
  BY BatchedTaskLeaves, BatchedStutters DEF StreamStatus

\* Whatever the plan is, Fetch returns every chunk of the result once, in the order
\* of the source when the plan keeps it, and ends without an error only behind the
\* last one: the steps of the tasks, the buffer and the client are steps of
\* ChunkStream.
THEOREM EveryPlanImplements == Spec => ImplementsChunkStream
  <1>1. Init => Stream!Init
    BY DEF Init, Simple!Init, Simple!ExecutorInit, Batched!Init, Batched!ExecutorInit, Stream!Init
  <1>2. StreamInv /\ [Next]_vars => [Stream!Next]_(Stream!vars)
    <2> SUFFICES ASSUME StreamInv, [Next]_vars
                 PROVE  Stream!Next \/ UNCHANGED Stream!vars
      OBVIOUS
    <2>0. /\ IInv /\ TasksPlaced /\ ResultKnown /\ ExecutorTypes
          /\ plan = "batched" => BatchedOrder /\ BatchedOver
          /\ plan # "batched" =>
               plan \in {"parallel", "ordered"} /\ SimpleInv /\ ChunksInOnePlace
      BY DEF StreamInv, IInv
    <2>1. CASE plan = "batched" /\ UNCHANGED plan /\ \E t \in Tasks : Batched!TaskStep(t)
      BY <2>0, <2>1, BatchedStepTask
    <2>2. CASE plan = "batched" /\ UNCHANGED plan /\ (Batched!ClientWorks \/ Batched!Calls)
      BY <2>0, <2>2, BatchedStepClient
    <2>3. CASE plan # "batched" /\ UNCHANGED plan /\ \E t \in Tasks : Simple!TaskStep(t)
      BY <2>3, StreamStepTask
    <2>4. CASE plan # "batched" /\ UNCHANGED plan /\ (Simple!ClientWorks \/ Simple!Calls)
      BY <2>0, <2>4, StreamStepClient
    <2>5. CASE UNCHANGED vars
      BY <2>5, BatchedStutters DEF vars, ofBoth, ofBatched, client, StreamStatus
    <2> QED
      BY <2>1, <2>2, <2>3, <2>4, <2>5 DEF Next, TaskStep, ClientWorks, Calls, IsBatched, IsSimple, Over
  <1> QED
    BY <1>1, <1>2, StreamInvariance, PTL DEF Spec, ImplementsChunkStream, Stream!Spec

-----------------------------------------------------------------------------
(***************************************************************************)
(* The lock and the blocked tasks: UnblockSinks spins under the buffer's   *)
(* lock only for tasks that are blocked, or are about to be.               *)
(***************************************************************************)

\* Once a query has been cancelled no Fetch gets as far as UnblockSinks; and a task
\* is dropped in its sleep by the cancellation only.
CancelKnown ==
  /\ cancelled => \/ cpc \in {"cancel", "draining", "drain", "ended", "refused", "thrown"}
                  \/ ~success /\ cpc \in {"idle", "scan"}
                  \/ ~success /\ cpc = "ran" /\ res = "error"
  /\ \A t \in Tasks : loc[t] = "gone" /\ tpc[t] = "retry" => cancelled

\* A task that ends, or is blocked, or goes on.
LEMMA TaskDropped ==
  ASSUME TasksPlaced, NEW t \in Tasks, Batched!TaskStep(t) \/ Simple!TaskStep(t)
  PROVE  /\ \A u \in Tasks \ {t} : loc'[u] = loc[u] /\ tpc'[u] = tpc[u]
         /\ loc'[t] = "gone" /\ tpc'[t] = "retry" => cancelled
  <1> USE DEF Batched!Goes, Simple!Goes, Batched!At, Simple!At, Batched!Runs, Simple!Runs
  <1>0. loc \in [Tasks -> Locations] /\ tpc \in [Tasks -> TaskPlaces]
    BY DEF TasksPlaced
  <1>1. CASE Batched!Deschedules(t) \/ Simple!Deschedules(t)
    <2>1. tpc' = [tpc EXCEPT ![t] = "retry"] /\ loc' = [loc EXCEPT ![t] = IF cancelled THEN "gone" ELSE "blocked"]
      BY <1>1 DEF Batched!Deschedules, Simple!Deschedules
    <2> QED
      BY <1>0, <2>1
  <1>2. CASE Batched!PoolTakes(t) \/ Simple!PoolTakes(t)
    <2>1. UNCHANGED tpc /\ loc' = [loc EXCEPT ![t] = "pool"]
      BY <1>2 DEF Batched!PoolTakes, Simple!PoolTakes
    <2> QED
      BY <1>0, <2>1
  <1>3. CASE ~(Batched!Deschedules(t) \/ Simple!Deschedules(t) \/ Batched!PoolTakes(t) \/ Simple!PoolTakes(t))
    <2>1. /\ \E q : q # "retry" /\ tpc' = [tpc EXCEPT ![t] = q]
          /\ loc' = loc \/ loc' = [loc EXCEPT ![t] = "gone"]
      <3>1. CASE Batched!TaskStep(t)
        <4>1. loc' = loc \/ loc' = [loc EXCEPT ![t] = "gone"]
          BY <1>3, <3>1 DEF Batched!TaskStep, Batched!Starts, Batched!FetchesSame, Batched!FetchesNext,
             Batched!UpdatesMin, Batched!Reindexes, Batched!Fails, Batched!Pushes, Batched!Decides,
             Batched!Blocks, Batched!Appends, Batched!Retries, Batched!Combines, Batched!Ends,
             Batched!Rest, Batched!Interrupted, Batched!Throws, Batched!Finishes
        <4>2. \E q \in TaskPlaces \ {"retry"} : tpc' = [tpc EXCEPT ![t] = q]
          BY <1>3, <3>1 DEF TaskPlaces, Batched!TaskStep, Batched!Starts, Batched!FetchesSame, Batched!FetchesNext,
             Batched!UpdatesMin, Batched!Reindexes, Batched!Fails, Batched!Pushes, Batched!Decides,
             Batched!Blocks, Batched!Appends, Batched!Retries, Batched!Combines, Batched!Ends,
             Batched!Rest, Batched!Interrupted, Batched!Throws, Batched!Finishes
        <4> QED
          BY <4>1, <4>2
      <3>2. CASE Simple!TaskStep(t)
        <4>1. loc' = loc \/ loc' = [loc EXCEPT ![t] = "gone"]
          BY <1>3, <3>2 DEF Simple!TaskStep, Simple!Starts, Simple!FetchesSource, Simple!Fails, Simple!Sinks,
             Simple!Appends, Simple!Blocks, Simple!Retries, Simple!Ends, Simple!Finishes,
             Simple!Rest, Simple!Interrupted, Simple!Throws
        <4>2. \E q \in TaskPlaces \ {"retry"} : tpc' = [tpc EXCEPT ![t] = q]
          BY <1>3, <3>2 DEF TaskPlaces, Simple!TaskStep, Simple!Starts, Simple!FetchesSource, Simple!Fails, Simple!Sinks,
             Simple!Appends, Simple!Blocks, Simple!Retries, Simple!Ends, Simple!Finishes,
             Simple!Rest, Simple!Interrupted, Simple!Throws
        <4> QED
          BY <4>1, <4>2
      <3> QED
        BY <3>1, <3>2
    <2>2. PICK q : q # "retry" /\ tpc' = [tpc EXCEPT ![t] = q]
      BY <2>1
    <2>3. tpc'[t] = q /\ \A u \in Tasks \ {t} : tpc'[u] = tpc[u]
      BY <1>0, <2>2
    <2>4. \A u \in Tasks \ {t} : loc'[u] = loc[u]
      BY <1>0, <2>1
    <2> QED
      BY <2>2, <2>3, <2>4
  <1> QED
    BY <1>1, <1>2, <1>3

LEMMA TaskKnowsCancel ==
  ASSUME TasksPlaced, CancelKnown, NEW t \in Tasks, Batched!TaskStep(t) \/ Simple!TaskStep(t)
  PROVE  CancelKnown'
  <1>1. UNCHANGED <<cancelled, success, cpc, res>>
    BY DEF Batched!TaskStep, Batched!Starts, Batched!FetchesSame, Batched!FetchesNext,
       Batched!UpdatesMin, Batched!Reindexes, Batched!Fails, Batched!Pushes, Batched!Decides,
       Batched!Blocks, Batched!Appends, Batched!Retries, Batched!Combines, Batched!Ends,
       Batched!Rest, Batched!Interrupted, Batched!Deschedules, Batched!PoolTakes,
       Batched!Throws, Batched!Finishes, Batched!client, Batched!RoundStarts,
       Simple!TaskStep, Simple!Starts, Simple!FetchesSource, Simple!Fails, Simple!Sinks,
       Simple!Appends, Simple!Blocks, Simple!Retries, Simple!Ends, Simple!Finishes,
       Simple!Rest, Simple!Interrupted, Simple!Deschedules, Simple!PoolTakes,
       Simple!Throws, Simple!RoundStarts, Simple!client
  <1> QED
    BY <1>1, TaskDropped DEF CancelKnown

LEMMA ClientKnowsCancel ==
  ASSUME TasksPlaced, ResultKnown, CancelKnown,
         Batched!ClientWorks \/ Batched!Calls \/ Simple!ClientWorks \/ Simple!Calls
  PROVE  CancelKnown'
  <1> USE DEF Batched!executor, Simple!executor, executor
  <1>1. CASE Batched!ClientRest \/ Simple!ClientRest
    <2>1. ClientStep
      BY <1>1, SameClientStep DEF Batched!ClientRest, Simple!ClientRest
    <2>2. UNCHANGED tpc /\ (cancelled => cancelled')
      BY <2>1, ClientStepKeeps DEF ClientStep, ClientTakes, ClientFindsNone, ClientFinished, ClientLooks,
         ClientRan, CancelTasks, DrainTakes, DrainRan, Drained, SendLoops
    <2>3. \A t \in Tasks : loc'[t] = "gone" => loc[t] = "gone" \/ cancelled'
      BY <2>1 DEF TasksPlaced, ClientStep, ClientTakes, ClientFindsNone, ClientFinished, ClientLooks,
         ClientRan, CancelTasks, DrainTakes, DrainRan, Drained, SendLoops
    <2>4. cancelled' => \/ cpc' \in {"cancel", "draining", "drain", "ended", "refused", "thrown"}
                        \/ ~success' /\ cpc' \in {"idle", "scan"}
                        \/ ~success' /\ cpc' = "ran" /\ res' = "error"
      BY <2>1 DEF CancelKnown, ResultKnown, ClientStep, ClientTakes, ClientFindsNone, ClientFinished,
         ClientLooks, ClientRan, CancelTasks, DrainTakes, DrainRan, Drained, SendLoops, Returns
    <2> QED
      BY <2>2, <2>3, <2>4 DEF CancelKnown
  <1>2. CASE ~(Batched!ClientRest \/ Simple!ClientRest)
    <2>1. UNCHANGED <<tpc, cancelled, success>>
      BY <1>2 DEF Batched!ClientWorks, Batched!Checks, Batched!Unblocks, Batched!Wakes, Batched!Rechecks,
         Batched!Scans, Batched!Calls, Batched!Fetches, Batched!Abandons, Batched!FetchThrows,
         Batched!Reschedules,
         Simple!ClientWorks, Simple!Checks, Simple!Unblocks, Simple!Wakes, Simple!Rechecks,
         Simple!Scans, Simple!Calls, Simple!Fetches, Simple!Abandons, Simple!Reschedules
    <2>2. loc' = loc \/ \E u : loc' = [loc EXCEPT ![u] = "queue"]
      BY <1>2 DEF Batched!ClientWorks, Batched!Checks, Batched!Unblocks, Batched!Wakes, Batched!Rechecks,
         Batched!Scans, Batched!Calls, Batched!Fetches, Batched!Abandons, Batched!FetchThrows,
         Batched!Reschedules,
         Simple!ClientWorks, Simple!Checks, Simple!Unblocks, Simple!Wakes, Simple!Rechecks,
         Simple!Scans, Simple!Calls, Simple!Fetches, Simple!Abandons, Simple!Reschedules
    <2>3. \A t \in Tasks : loc'[t] = "gone" => loc[t] = "gone"
      BY <2>2 DEF TasksPlaced
    <2>4. cancelled => \/ cpc' \in {"cancel", "draining", "drain", "ended", "refused", "thrown"}
                       \/ ~success /\ cpc' \in {"idle", "scan"}
                       \/ ~success /\ cpc' = "ran" /\ res' = "error"
      BY <1>2 DEF CancelKnown,
         Batched!ClientWorks, Batched!Checks, Batched!Unblocks, Batched!Wakes, Batched!Rechecks,
         Batched!Scans, Batched!Calls, Batched!Fetches, Batched!Abandons, Batched!FetchThrows,
         Simple!ClientWorks, Simple!Checks, Simple!Unblocks, Simple!Wakes, Simple!Rechecks,
         Simple!Scans, Simple!Calls, Simple!Fetches, Simple!Abandons
    <2> QED
      BY <2>1, <2>3, <2>4 DEF CancelKnown
  <1> QED
    BY <1>1, <1>2

\* A task that was refused and is still registered comes, unless the query has been
\* cancelled.
LEMMA RefusedComes ==
  ASSUME TasksPlaced, CancelKnown, cpc = "waking", NEW t \in Tasks,
         tpc[t] = "desched" \/ (tpc[t] = "retry" /\ loc[t] \in {"blocked", "gone"})
  PROVE  ~cancelled /\ Batched!Comes(t) /\ Simple!Comes(t)
  BY DEF TasksPlaced, CancelKnown, Batched!Comes, Simple!Comes

\* Whatever plan and buffer a query has and however its tasks and Fetch interleave,
\* a task that a full buffer has put to sleep is known to UnblockSinks, and the tasks
\* that UnblockSinks waits for under the buffer's lock are asleep or about to be.
THEOREM NoTaskForgotten == Spec => []BlockedIsKnown
  <1>1. Init => CancelKnown
    <2>1. ASSUME Init PROVE cancelled = FALSE /\ \A t \in Tasks : tpc[t] \in {"start", "done"}
      BY <2>1 DEF Init, Batched!Init, Simple!Init, Batched!ExecutorInit, Simple!ExecutorInit,
         Batched!Tasks, Simple!Tasks, Tasks
    <2> QED
      BY <2>1 DEF CancelKnown
  <1>2. StreamInv /\ CancelKnown /\ [Next]_vars => CancelKnown'
    <2> SUFFICES ASSUME StreamInv, CancelKnown, [Next]_vars
                 PROVE  CancelKnown'
      OBVIOUS
    <2>0. TasksPlaced /\ ResultKnown
      BY DEF StreamInv, IInv
    <2>1. CASE UNCHANGED vars
      BY <2>1 DEF CancelKnown, vars, ofBoth, executor, client
    <2>2. CASE \E t \in Tasks : TaskStep(t)
      BY <2>0, <2>2, TaskKnowsCancel DEF TaskStep
    <2>3. CASE ClientWorks \/ Calls
      BY <2>0, <2>3, ClientKnowsCancel DEF ClientWorks, Calls
    <2> QED
      BY <2>1, <2>2, <2>3 DEF Next, Over
  <1>3. StreamInv /\ CancelKnown => BlockedIsKnown
    <2> SUFFICES ASSUME StreamInv, CancelKnown
                 PROVE  BlockedIsKnown
      OBVIOUS
    <2>0. IInv /\ TasksPlaced
      BY DEF StreamInv, IInv
    <2>1. ASSUME plan = "batched" PROVE Batched!BlockedIsKnown
      <3>1. \A t \in Tasks : ~cancelled /\ (loc[t] = "blocked" \/ (Runs(t) /\ tpc[t] = "desched"))
              => <<batch[t], t>> \in blockedSinks
        BY <2>0, <2>1, RefusedIsKnown
      <3>2. BatchedOrder /\ BatchedInv
        BY <2>0, <2>1 DEF StreamInv, IInv
      <3>3. ASSUME cpc = "waking", NEW s \in todo PROVE ~cancelled /\ Batched!Comes(s[2])
        <4>1. s \in blockedSinks /\ s[2] \in Tasks
          BY <3>2 DEF BatchedOrder, BatchedTypes
        <4> QED
          BY <2>0, <3>2, <3>3, <4>1, RefusedComes DEF BatchedOrder, BlockedPlaces
      <3>4. cpc = "waking" => ~cancelled
        BY DEF CancelKnown
      <3> QED
        BY <3>1, <3>3, <3>4 DEF Batched!BlockedIsKnown, Batched!Tasks, Tasks, Batched!Runs, Runs
    <2>2. ASSUME plan # "batched" PROVE Simple!BlockedIsKnown
      <3>1. \A t \in Tasks : ~cancelled /\ (loc[t] = "blocked" \/ (Runs(t) /\ tpc[t] = "desched"))
              => \E i \in 1..Len(blockedSinks) : blockedSinks[i] = t
        BY <2>0, <2>2, RefusedIsKnown
      <3>2. SinksPlaced /\ blockedSinks \in Seq(Tasks)
        BY <2>0, <2>2 DEF StreamInv, SimpleOver, IInv, SimpleInv, SimpleTypes
      <3>3. ASSUME cpc = "waking", NEW i \in 1..Len(blockedSinks) PROVE Simple!Comes(blockedSinks[i])
        <4>1. blockedSinks[i] \in Tasks
          BY <3>2
        <4> QED
          BY <2>0, <3>2, <3>3, <4>1, RefusedComes DEF SinksPlaced
      <3>4. cpc = "waking" => ~cancelled
        BY DEF CancelKnown
      <3> QED
        BY <3>1, <3>3, <3>4 DEF Simple!BlockedIsKnown, Simple!Tasks, Tasks, Simple!Runs, Runs
    <2> QED
      BY <2>1, <2>2 DEF BlockedIsKnown
  <1> QED
    BY <1>1, <1>2, <1>3, StreamInvariance, PTL DEF Spec

=============================================================================

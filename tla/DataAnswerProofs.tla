-------------------------- MODULE DataAnswerProofs ---------------------------
(***************************************************************************)
(* From the rows of a data request to the nodes, links and texts of the    *)
(* page, for any rows, categories, ids and texts of any number and length, *)
(* any palette and any width of the floats.                                *)
(*                                                                         *)
(* The argument.  Nodes: the words of the body are five of each packed row *)
(* (Packed), and FastColorMap gives the n-th new category the number n - 1 *)
(* until the floats end (Numbered); so the categories of the first rows    *)
(* have the first natural numbers (FloatsLast), and the page, which counts *)
(* the numbers it has met before one, gives each its own number back as    *)
(* its colour (ColorIsNumber).  Edges: the k-th row with both ends has the *)
(* k-th pair of words (EdgesPacked).  Text: some function says where each  *)
(* byte's escape ends in the output (WrittenAs), the parser stands at such *)
(* an end or one symbol behind it (ReadAs), and no escape begins another.  *)
(* Sets of categories and of rows grow by one row at a time; what is said  *)
(* of all their sizes is shown of a least counterexample (HasLeast).       *)
(***************************************************************************)
EXTENDS DataQueryProofs, DataAnswer, FiniteSetTheorems, SequenceTheorems, WellFoundedInduction

\* One sequence behind another.
LEMMA Joined ==
  ASSUME NEW S, NEW s \in Seq(S), NEW t \in Seq(S)
  PROVE  /\ s \o t \in Seq(S) /\ Len(s \o t) = Len(s) + Len(t)
         /\ Len(s) \in Nat /\ Len(t) \in Nat
         /\ \A i \in 1..Len(s) : (s \o t)[i] = s[i]
         /\ \A k \in 1..Len(t) : (s \o t)[Len(s) + k] = t[k]
  OBVIOUS

(***************************************************************************)
(* Nodes.                                                                  *)
(***************************************************************************)

\* The categories of the first i rows, and the rows that are the first of theirs.
Cats(i) == {rows[q] : q \in 1..i}
New(i)  == rows[i] \notin Cats(i - 1)

\* What m increments of next_val make of 0.0f.
Number(m) == IF m < FloatMax THEN m ELSE FloatMax

NodeWord(i, k) == Nodes!Record(i, numbers[rows[i]])[k]

NodeTypes ==
  /\ configured \in BOOLEAN
  /\ rows \in Seq(Categories) /\ (~configured => rows = <<>>)
  /\ packed \in 0..Len(rows)
  /\ words \in Seq(Nodes!Word)
  /\ phase \in {"packing", "sent", "cut", "decoded"}
  /\ bytes \in 0..4 * Len(words)

Numbered ==
  /\ DOMAIN numbers = Cats(packed)
  /\ nextVal = Number(Cardinality(Cats(packed)))
  /\ \A i \in 1..packed : New(i) => numbers[rows[i]] = Number(Cardinality(Cats(i - 1)))

Packed ==
  /\ Len(words) = 5 * packed
  /\ \A i \in 1..packed : \A k \in 1..5 : words[(i - 1) * 5 + k] = NodeWord(i, k)

Sent ==
  /\ phase = "packing" => bytes = 0
  /\ phase # "packing" => packed = Len(rows)
  /\ phase # "packing" /\ ~configured => Len(words) = 1
  /\ phase # "decoded" => result = "none" /\ nodes = <<>>

\* What the page shows is what the rows say.
Decoded ==
  /\ result \in {"none", "nodes", "empty", "error"}
  /\ nodes \in Seq([x : Nodes!Word, y : Nodes!Word, size : Nodes!Word,
                     color : 0..Palette, id : Nodes!Word])
  /\ Nodes!NodesAreRows
  /\ Nodes!OneColorPerCategory /\ Nodes!ColorsApart /\ Nodes!GreyIsTheFirst

NodesInv ==
  /\ NodeTypes /\ Numbered /\ Sent /\ Decoded
  /\ (phase = "packing" \/ configured) => Packed

LEMMA CatsStep ==
  ASSUME NEW i \in Nat \ {0}
  PROVE  Cats(i) = Cats(i - 1) \cup {rows[i]}
  <1>1. 1..i = (1..i - 1) \cup {i}
    OBVIOUS
  <1> QED
    BY <1>1 DEF Cats

LEMMA CatsFinite ==
  ASSUME NEW n \in Nat
  PROVE  IsFiniteSet(Cats(n)) /\ Cardinality(Cats(n)) \in Nat
  <1> DEFINE Bad1 == {i \in Nat : ~IsFiniteSet(Cats(i))}
  <1>1. Bad1 = {}
    <2> SUFFICES ASSUME Bad1 # {}
                 PROVE  FALSE
      OBVIOUS
    <2>1. PICK i \in Bad1 : \A j \in Bad1 : i <= j
      BY HasLeast
    <2>2. i # 0
      <3>1. Cats(0) = {}
        BY DEF Cats
      <3> QED
        BY <2>1, <3>1, FS_EmptySet
    <2>3. IsFiniteSet(Cats(i - 1))
      BY <2>1, <2>2
    <2> QED
      BY <2>1, <2>2, <2>3, CatsStep, FS_AddElement
  <1> QED
    BY <1>1, FS_CardinalityType

LEMMA CatsCount ==
  ASSUME NEW i \in Nat \ {0}
  PROVE  /\ New(i) => Cardinality(Cats(i)) = Cardinality(Cats(i - 1)) + 1
         /\ ~New(i) => Cats(i) = Cats(i - 1)
         /\ Cardinality(Cats(i)) \in Nat /\ Cardinality(Cats(i - 1)) \in Nat
  <1>1. i - 1 \in Nat /\ i \in Nat
    OBVIOUS
  <1>2. Cats(i) = Cats(i - 1) \cup {rows[i]}
    BY CatsStep
  <1>3. IsFiniteSet(Cats(i - 1)) /\ Cardinality(Cats(i - 1)) \in Nat /\ Cardinality(Cats(i)) \in Nat
    BY <1>1, CatsFinite
  <1> QED
    BY <1>2, <1>3, FS_AddElement DEF New

\* Each category has a first row.
LEMMA CatsFirst ==
  ASSUME NEW n \in Nat, NEW c \in Cats(n)
  PROVE  \E i \in 1..n : rows[i] = c /\ New(i)
  <1> DEFINE S == {i \in 1..n : rows[i] = c}
  <1>1. S \in SUBSET Nat /\ S # {}
    BY DEF Cats
  <1>2. PICK i \in S : \A j \in S : i <= j
    BY <1>1, HasLeast
  <1>3. New(i)
    BY <1>2 DEF New, Cats
  <1> QED
    BY <1>2, <1>3

LEMMA CatsGrow ==
  ASSUME NEW n \in Nat, NEW i \in 0..n
  PROVE  Cats(i) \subseteq Cats(n) /\ Cardinality(Cats(i)) <= Cardinality(Cats(n))
  <1>1. Cats(i) \subseteq Cats(n)
    BY DEF Cats
  <1> QED
    BY <1>1, CatsFinite, FS_Subset

\* The numbers are natural, and only the first row's category has the number zero.
LEMMA NumberBounds ==
  ASSUME NodeTypes, Numbered, NEW c \in Cats(packed)
  PROVE  /\ numbers[c] \in 0..FloatMax
         /\ numbers[c] = 0 <=> c = rows[1]
  <1>1. packed \in Nat /\ FloatMax \in Nat \ {0}
    BY AnswerAssumption DEF NodeTypes
  <1>2. PICK i \in 1..packed : rows[i] = c /\ New(i)
    BY <1>1, CatsFirst
  <1>3. numbers[c] = Number(Cardinality(Cats(i - 1))) /\ Cardinality(Cats(i - 1)) \in Nat
    BY <1>1, <1>2, CatsCount DEF Numbered
  <1>4. Cardinality(Cats(i - 1)) = 0 <=> Cats(i - 1) = {}
    BY <1>1, CatsFinite, FS_EmptySet
  <1>5. Cats(i - 1) = {} => i = 1
    <2>1. i > 1 => 1 \in 1..i - 1
      BY <1>1
    <2> QED
      BY <1>1, <2>1 DEF Cats
  <1>6. c = rows[1] => i = 1
    <2>1. i > 1 => 1 \in 1..i - 1
      BY <1>1
    <2> QED
      BY <1>1, <1>2, <2>1 DEF Cats, New
  <1>7. i = 1 => Cats(i - 1) = {}
    BY DEF Cats
  <1> QED
    BY <1>1, <1>2, <1>3, <1>4, <1>5, <1>6, <1>7 DEF Number

\* As long as the floats last, the numbers of the first categories are the first
\* natural numbers, and no two of them share one.
Distinct(n) ==
  /\ {numbers[c] : c \in Cats(n)} = 0..Cardinality(Cats(n)) - 1
  /\ \A c, d \in Cats(n) : numbers[c] = numbers[d] => c = d

LEMMA FloatsLast ==
  ASSUME NodeTypes, Numbered, NEW n \in 0..packed, Cardinality(Cats(n)) <= FloatMax + 1
  PROVE  Distinct(n)
  <1> DEFINE Fails == {i \in 0..n : ~Distinct(i)}
  <1>0. packed \in Nat /\ FloatMax \in Nat
    BY AnswerAssumption DEF NodeTypes
  <1>1. Fails = {}
    <2> SUFFICES ASSUME Fails # {}
                 PROVE  FALSE
      OBVIOUS
    <2>1. PICK i \in Fails : \A j \in Fails : i <= j
      <3>1. Fails \in SUBSET Nat
        BY <1>0
      <3> HIDE DEF Fails
      <3> QED
        BY <3>1, HasLeast
    <2>2. i # 0
      <3>1. Cats(0) = {}
        BY DEF Cats
      <3>2. Distinct(0)
        BY <3>1, FS_EmptySet DEF Distinct
      <3> QED
        BY <2>1, <3>2
    <2>3. i \in Nat \ {0} /\ i - 1 \in 0..n /\ i \in 1..packed
      BY <1>0, <2>1, <2>2
    <2>4. Distinct(i - 1)
      BY <2>1, <2>3
    <2>5. Cardinality(Cats(i)) <= FloatMax + 1
      BY <2>3, CatsGrow, CatsFinite, <1>0
    <2>6. CASE ~New(i)
      BY <2>1, <2>3, <2>4, <2>6, CatsCount DEF Distinct
    <2>7. CASE New(i)
      <3> DEFINE m == Cardinality(Cats(i - 1))
      <3>1. Cardinality(Cats(i)) = m + 1 /\ m \in Nat
        BY <2>3, <2>7, CatsCount
      <3> HIDE DEF m
      <3>2. numbers[rows[i]] = m
        <4>1. numbers[rows[i]] = Number(m)
          BY <2>3, <2>7 DEF Numbered, m
        <4> QED
          BY <4>1, <3>1, <2>5, <1>0 DEF Number
      <3>3. Cats(i) = Cats(i - 1) \cup {rows[i]}
        BY <2>3, CatsStep
      <3>4. {numbers[c] : c \in Cats(i - 1)} = 0..m - 1
            /\ (\A c, d \in Cats(i - 1) : numbers[c] = numbers[d] => c = d)
        BY <2>4 DEF Distinct, m
      <3>5. {numbers[c] : c \in Cats(i)} = 0..m
        BY <3>1, <3>2, <3>3, <3>4
      <3>6. \A c \in Cats(i - 1) : numbers[c] # m
        <4>1. \A c \in Cats(i - 1) : numbers[c] \in 0..m - 1
          BY <3>4
        <4> QED
          BY <4>1, <3>1
      <3>7. \A c, d \in Cats(i) : numbers[c] = numbers[d] => c = d
        BY <3>2, <3>3, <3>4, <3>6
      <3>8. Distinct(i)
        BY <3>1, <3>5, <3>7 DEF Distinct
      <3> QED
        BY <2>1, <3>8
    <2> QED
      BY <2>6, <2>7
  <1> QED
    BY <1>1

LEMMA SameCardinality ==
  \A S : Nodes!Cardinality(S) = Cardinality(S)
  BY DEF Nodes!Cardinality, Cardinality

(***************************************************************************)
(* Reading the records.                                                    *)
(***************************************************************************)

\* Whole records arrive only of a configured graph, and only those of its rows.
LEMMA WholeRecords ==
  ASSUME NodesInv, phase = "cut", Nodes!Count # 0
  PROVE  /\ Nodes!Count \in 1..packed /\ packed = Len(rows) /\ packed \in Nat
         /\ Packed
  <1>1. bytes \in Nat /\ bytes <= 4 * Len(words) /\ Len(words) \in Nat /\ packed \in Nat
    BY DEF NodesInv, NodeTypes
  <1>2. Nodes!Count = bytes \div 20
    BY DEF Nodes!Count, Nodes!RecordBytes
  <1>3. Nodes!Count \in Nat /\ 20 * Nodes!Count <= bytes
    BY <1>1, <1>2
  <1>4. configured
    <2>1. configured \in BOOLEAN /\ (~configured => Len(words) = 1)
      BY DEF NodesInv, NodeTypes, Sent
    <2>2. Len(words) # 1
      <3> DEFINE K == Nodes!Count
                 L == Len(words)
      <3>1. K \in Nat /\ K # 0 /\ 20 * K <= bytes /\ bytes \in Nat /\ bytes <= 4 * L
        BY <1>1, <1>3
      <3> HIDE DEF K, L
      <3>2. L # 1
        BY <3>1
      <3> QED
        BY <3>2 DEF L
    <2> QED
      BY <2>1, <2>2
  <1>5. Packed /\ packed = Len(rows)
    BY <1>4 DEF NodesInv, Sent
  <1> QED
    BY <1>1, <1>3, <1>5 DEF Packed

LEMMA Views ==
  ASSUME NodesInv, phase = "cut", Nodes!Count # 0, NEW i \in 1..Nodes!Count
  PROVE  /\ \A k \in 1..5 : Nodes!View(i, k) = NodeWord(i, k)
         /\ Nodes!View(i, 1) = [field |-> "x", val |-> i]
         /\ Nodes!View(i, 2) = [field |-> "y", val |-> i]
         /\ Nodes!View(i, 3) = [field |-> "size", val |-> i]
         /\ Nodes!View(i, 4).val = numbers[rows[i]]
         /\ Nodes!View(i, 5) = [field |-> "id", val |-> i]
         /\ rows[i] \in Cats(packed)
  <1>1. i \in 1..packed /\ Packed
    BY WholeRecords
  <1>2. \A k \in 1..5 : Nodes!View(i, k) = NodeWord(i, k)
    BY <1>1 DEF Nodes!View, Packed
  <1> QED
    BY <1>1, <1>2 DEF NodeWord, Nodes!Record, Cats

\* What comes before record i are the numbers of the categories before row i.
LEMMA BeforeIs ==
  ASSUME NodesInv, phase = "cut", Nodes!Count # 0, NEW i \in 1..Nodes!Count
  PROVE  Nodes!Before(i) = {numbers[c] : c \in Cats(i - 1)}
  <1>1. \A j \in 1..i - 1 : Nodes!View(j, 4).val = numbers[rows[j]]
    <2> TAKE j \in 1..i - 1
    <2>1. j \in 1..Nodes!Count
      BY WholeRecords
    <2> QED
      BY <2>1, Views
  <1> QED
    BY <1>1 DEF Nodes!Before, Cats

\* The record with the first of a number is there.
LEMMA FirstIs ==
  ASSUME NodesInv, phase = "cut", Nodes!Count # 0, NEW i \in 1..Nodes!Count
  PROVE  LET n == numbers[rows[i]]
         IN /\ Nodes!FirstOf(n) \in 1..Nodes!Count
            /\ numbers[rows[Nodes!FirstOf(n)]] = n
            /\ n \notin {numbers[c] : c \in Cats(Nodes!FirstOf(n) - 1)}
  <1> DEFINE n == numbers[rows[i]]
             S == {j \in 1..Nodes!Count : Nodes!View(j, 4).val = n}
  <1>1. S # {} /\ S \in SUBSET Nat
    BY Views
  <1>2. PICK j \in S : \A k \in S : j <= k
    <2> HIDE DEF S
    <2> QED
      BY <1>1, HasLeast
  <1>3. Nodes!Count \in Nat
    BY WholeRecords
  <1>4. n \notin Nodes!Before(j)
    <2>1. ASSUME NEW q \in 1..j - 1
          PROVE  Nodes!View(q, 4).val # n
      BY <1>2, <1>3
    <2> QED
      BY <2>1 DEF Nodes!Before
  <1>5. /\ Nodes!FirstOf(n) \in 1..Nodes!Count
        /\ Nodes!View(Nodes!FirstOf(n), 4).val = n
        /\ n \notin Nodes!Before(Nodes!FirstOf(n))
    <2> HIDE DEF n
    <2>1. j \in 1..Nodes!Count /\ Nodes!View(j, 4).val = n
      BY <1>2
    <2> QED
      BY <1>4, <2>1 DEF Nodes!FirstOf
  <1> HIDE DEF n
  <1>6. numbers[rows[Nodes!FirstOf(n)]] = n
        /\ Nodes!Before(Nodes!FirstOf(n)) = {numbers[c] : c \in Cats(Nodes!FirstOf(n) - 1)}
    BY <1>5, Views, BeforeIs
  <1> QED
    BY <1>5, <1>6 DEF n

LEMMA ColorRange ==
  ASSUME NodesInv, phase = "cut", Nodes!Count # 0, NEW i \in 1..Nodes!Count
  PROVE  /\ Nodes!ColorOf(numbers[rows[i]]) \in 0..Palette
         /\ Nodes!ColorOf(numbers[rows[i]]) = 0 <=> rows[i] = rows[1]
  <1> DEFINE n == numbers[rows[i]]
             F == Nodes!FirstOf(n)
             B == Nodes!Before(F) \ {0}
  <1>1. Palette \in Nat \ {0} /\ FloatMax \in Nat
    BY AnswerAssumption
  <1>2. rows[i] \in Cats(packed) /\ (n = 0 <=> rows[i] = rows[1])
    BY Views, NumberBounds DEF NodesInv
  <1>3. F \in 1..Nodes!Count /\ F \in 1..packed /\ packed \in Nat
    BY FirstIs, WholeRecords
  <1>4. Nodes!Before(F) = {numbers[c] : c \in Cats(F - 1)}
    BY <1>3, BeforeIs
  <1>5. B \subseteq 0..FloatMax
    <2>1. Cats(F - 1) \subseteq Cats(packed)
      BY <1>3, CatsGrow
    <2> QED
      BY <1>4, <2>1, NumberBounds DEF NodesInv
  <1>6. Cardinality(B) \in Nat
    <2>1. IsFiniteSet(0..FloatMax)
      BY <1>1, FS_Interval
    <2> HIDE DEF B
    <2> QED
      BY <1>5, <2>1, FS_Subset, FS_CardinalityType
  <1>7. Nodes!ColorOf(n) = IF n = 0 THEN 0 ELSE (Cardinality(B) % Palette) + 1
    BY SameCardinality DEF Nodes!ColorOf
  <1> HIDE DEF B, F, n
  <1>8. Cardinality(B) % Palette \in 0..Palette - 1
    BY <1>1, <1>6
  <1> QED
    BY <1>1, <1>2, <1>7, <1>8 DEF n

\* While palette and floats last, a category's colour is its number.
LEMMA ColorIsNumber ==
  ASSUME NodesInv, phase = "cut", Nodes!Count # 0, NEW i \in 1..Nodes!Count,
         Cardinality(Cats(Nodes!Count)) <= Palette + 1,
         Cardinality(Cats(Nodes!Count)) <= FloatMax + 1
  PROVE  Nodes!ColorOf(numbers[rows[i]]) = numbers[rows[i]]
  <1> DEFINE K == Nodes!Count
             n == numbers[rows[i]]
             F == Nodes!FirstOf(n)
             B == Nodes!Before(F) \ {0}
  <1>1. Palette \in Nat \ {0} /\ FloatMax \in Nat
    BY AnswerAssumption
  <1>2. K \in 1..packed /\ packed \in Nat /\ NodeTypes /\ Numbered
    BY WholeRecords DEF NodesInv
  <1>3. /\ F \in 1..K /\ numbers[rows[F]] = n
        /\ n \notin {numbers[c] : c \in Cats(F - 1)}
    BY FirstIs
  <1>4. Nodes!Before(F) = {numbers[c] : c \in Cats(F - 1)}
    BY <1>3, BeforeIs
  <1>5. Nodes!ColorOf(n) = IF n = 0 THEN 0 ELSE (Cardinality(B) % Palette) + 1
    BY SameCardinality DEF Nodes!ColorOf
  <1> DEFINE m == Cardinality(Cats(F - 1))
  <1>6. New(F)
    <2>1. rows[F] \notin Cats(F - 1)
      BY <1>3
    <2> QED
      BY <2>1 DEF New
  <1>7. n = Number(m)
    BY <1>2, <1>3, <1>6 DEF Numbered
  <1>8. Cardinality(Cats(F)) = m + 1 /\ m \in Nat
    BY <1>2, <1>3, <1>6, CatsCount
  <1>9. Cardinality(Cats(F)) <= Cardinality(Cats(K)) /\ Cardinality(Cats(K)) \in Nat
    BY <1>2, <1>3, CatsGrow, CatsFinite
  <1>10. m <= Palette /\ m <= FloatMax
    BY <1>1, <1>8, <1>9
  <1>11. n = m
    BY <1>1, <1>7, <1>8, <1>10 DEF Number
  <1>12. {numbers[c] : c \in Cats(F - 1)} = 0..m - 1
    <2>1. F - 1 \in 0..packed
      BY <1>2, <1>3
    <2>2. Cardinality(Cats(F - 1)) <= FloatMax + 1
      BY <1>1, <1>8, <1>10
    <2> QED
      BY <1>2, <2>1, <2>2, FloatsLast DEF Distinct
  <1>13. CASE m = 0
    BY <1>5, <1>11, <1>13
  <1>14. CASE m # 0
    <2>1. B = 1..m - 1
      BY <1>4, <1>8, <1>12
    <2>2. Cardinality(B) = m - 1
      <3>1. B = 1..m - 1 /\ m \in Nat /\ m # 0
        BY <1>8, <1>14, <2>1
      <3> HIDE DEF B, m
      <3>2. m - 1 \in Int /\ 1 \in Int /\ (IF 1 > m - 1 THEN 0 ELSE (m - 1) - 1 + 1) = m - 1
        BY <3>1
      <3>3. Cardinality(1..m - 1) = IF 1 > m - 1 THEN 0 ELSE (m - 1) - 1 + 1
        BY <3>2, FS_Interval
      <3> QED
        BY <3>1, <3>2, <3>3
    <2> HIDE DEF B, m, n, F, K
    <2>3. (m - 1) % Palette = m - 1
      BY <1>1, <1>8, <1>10, <1>14
    <2>4. n # 0
      BY <1>11, <1>14
    <2>5. Nodes!ColorOf(n) = (m - 1) + 1
      BY <1>5, <2>2, <2>3, <2>4
    <2>6. Nodes!ColorOf(n) = n
      BY <1>8, <1>11, <2>5
    <2> QED
      BY <2>6 DEF n
  <1> QED
    BY <1>13, <1>14

(***************************************************************************)
(* The steps.                                                              *)
(***************************************************************************)

LEMMA NoNodesYet ==
  ASSUME result = "none", nodes = <<>>, rows \in Seq(Categories)
  PROVE  Decoded
  BY DEF Decoded, Nodes!NodesAreRows, Nodes!OneColorPerCategory, Nodes!ColorsApart,
         Nodes!GreyIsTheFirst

LEMMA NodesStart ==
  ASSUME Nodes!Init
  PROVE  NodesInv
  <1>1. MaxNodes \in Nat /\ FloatMax \in Nat \ {0}
    BY AnswerAssumption
  <1>2. PICK n \in 0..MaxNodes : rows \in [1..n -> Categories]
    BY DEF Nodes!Init
  <1>3. rows \in Seq(Categories) /\ Len(rows) \in Nat
    BY <1>1, <1>2
  <1>4. NodeTypes
    BY <1>3 DEF Nodes!Init, NodeTypes
  <1>5. Numbered
    <2>1. Cats(0) = {} /\ Cardinality({}) = 0
      BY FS_EmptySet DEF Cats
    <2> QED
      BY <1>1, <2>1 DEF Nodes!Init, Numbered, Number
  <1>6. Sent /\ Packed
    BY DEF Nodes!Init, Sent, Packed
  <1>7. Decoded
    BY <1>3, NoNodesYet DEF Nodes!Init
  <1> QED
    BY <1>4, <1>5, <1>6, <1>7 DEF NodesInv

LEMMA CatsKept ==
  ASSUME rows' = rows
  PROVE  \A i : Cats(i)' = Cats(i) /\ New(i)' = New(i)
  BY DEF Cats, New

LEMMA NodesStay ==
  ASSUME NodesInv, UNCHANGED <<ofRecords, ofNodes>>
  PROVE  NodesInv'
  <1>1. /\ configured' = configured /\ rows' = rows /\ packed' = packed /\ words' = words
        /\ phase' = phase /\ bytes' = bytes /\ numbers' = numbers /\ nextVal' = nextVal
        /\ result' = result /\ nodes' = nodes
    BY DEF ofRecords, ofNodes
  <1>2. NodeTypes' /\ Sent'
    BY <1>1 DEF NodesInv, NodeTypes, Sent
  <1>3. Numbered'
    BY <1>1, CatsKept DEF NodesInv, Numbered
  <1>4. (phase = "packing" \/ configured)' => Packed'
    BY <1>1 DEF NodesInv, Packed, NodeWord
  <1>5. Decoded'
    BY <1>1 DEF NodesInv, Decoded, Nodes!NodesAreRows, Nodes!OneColorPerCategory,
                Nodes!ColorsApart, Nodes!GreyIsTheFirst, Nodes!Count
  <1> QED
    BY <1>2, <1>3, <1>4, <1>5 DEF NodesInv

\* Inserting the category of the next row.
LEMMA PackNumbers ==
  ASSUME NodeTypes, Numbered, packed < Len(rows), Nodes!Insert(rows[packed + 1]),
         rows' = rows, packed' = packed + 1
  PROVE  /\ Numbered'
         /\ numbers'[rows[packed + 1]] = Nodes!NumberOf(rows[packed + 1])
         /\ \A i \in 1..packed : numbers'[rows[i]] = numbers[rows[i]]
  <1> DEFINE c == rows[packed + 1]
             m == Cardinality(Cats(packed))
  <1>1. packed \in Nat /\ packed + 1 \in Nat \ {0} /\ (packed + 1) - 1 = packed /\ FloatMax \in Nat
    BY AnswerAssumption DEF NodeTypes
  <1>2. Cats(packed + 1) = Cats(packed) \cup {c}
    BY <1>1, CatsStep
  <1>3. DOMAIN numbers = Cats(packed) /\ nextVal = Number(m)
    BY DEF Numbered
  <1>4. New(packed + 1) <=> c \notin DOMAIN numbers
    BY <1>1, <1>3 DEF New
  <1>5. m \in Nat /\ (New(packed + 1) => Cardinality(Cats(packed + 1)) = m + 1)
        /\ (~New(packed + 1) => Cats(packed + 1) = Cats(packed))
    BY <1>1, CatsCount
  <1>6. DOMAIN numbers' = Cats(packed + 1)
    BY <1>2, <1>3, <1>4, <1>5 DEF Nodes!Insert
  <1>7. nextVal' = Number(Cardinality(Cats(packed + 1)))
    <2>1. CASE New(packed + 1)
      <3>1. nextVal' = Nodes!Incremented(nextVal)
        BY <1>4, <2>1 DEF Nodes!Insert
      <3> HIDE DEF m
      <3>2. Nodes!Incremented(Number(m)) = Number(m + 1)
        BY <1>1, <1>5 DEF Nodes!Incremented, Number
      <3> QED
        BY <1>3, <1>5, <2>1, <3>1, <3>2
    <2>2. CASE ~New(packed + 1)
      BY <1>3, <1>4, <1>5, <2>2 DEF Nodes!Insert
    <2> QED
      BY <2>1, <2>2
  <1>8. \A d \in DOMAIN numbers : numbers'[d] = numbers[d]
    BY DEF Nodes!Insert
  <1>9. \A i \in 1..packed : numbers'[rows[i]] = numbers[rows[i]]
    BY <1>3, <1>8 DEF Cats
  <1>10. numbers'[c] = Nodes!NumberOf(c)
    BY DEF Nodes!Insert, Nodes!NumberOf
  <1>11. ASSUME NEW i \in 1..packed + 1, New(i)
         PROVE  numbers'[rows[i]] = Number(Cardinality(Cats(i - 1)))
    <2>1. CASE i = packed + 1
      BY <1>1, <1>3, <1>4, <1>10, <1>11, <2>1 DEF Nodes!NumberOf
    <2>2. CASE i \in 1..packed
      BY <1>9, <1>11, <2>2 DEF Numbered
    <2> QED
      BY <1>1, <2>1, <2>2
  <1>12. Numbered'
    BY <1>6, <1>7, <1>11, CatsKept DEF Numbered
  <1> QED
    BY <1>9, <1>10, <1>12

LEMMA PackKeeps ==
  ASSUME NodesInv, Nodes!PackRow
  PROVE  NodesInv'
  <1> DEFINE c == rows[packed + 1]
             n == Nodes!NumberOf(c)
             R == Nodes!Record(packed + 1, n)
  <1>1. /\ phase = "packing" /\ packed < Len(rows) /\ packed' = packed + 1
        /\ configured' = configured /\ rows' = rows /\ phase' = phase /\ bytes' = bytes
        /\ result' = result /\ nodes' = nodes
        /\ words' = words \o R /\ Nodes!Insert(c)
    BY DEF Nodes!PackRow
  <1>2. /\ packed \in Nat /\ rows \in Seq(Categories) /\ words \in Seq(Nodes!Word)
        /\ Len(rows) \in Nat /\ Len(words) = 5 * packed /\ bytes = 0 /\ FloatMax \in Nat
    BY <1>1, AnswerAssumption DEF NodesInv, NodeTypes, Sent, Packed
  <1>3. /\ Numbered' /\ numbers'[c] = n
        /\ \A i \in 1..packed : numbers'[rows[i]] = numbers[rows[i]]
    BY <1>1, PackNumbers DEF NodesInv
  <1>4. n \in Nat
    <2>1. c \in Cats(packed) => numbers[c] \in Nat
      BY <1>2, NumberBounds DEF NodesInv
    <2>2. nextVal \in Nat
      BY <1>2, CatsFinite DEF NodesInv, Numbered, Number
    <2> QED
      BY <2>1, <2>2 DEF Nodes!NumberOf, NodesInv, Numbered
  <1> HIDE DEF n
  <1>5. R \in Seq(Nodes!Word) /\ Len(R) = 5
    BY <1>2, <1>4 DEF Nodes!Record, Nodes!Word
  <1>6. /\ words' \in Seq(Nodes!Word) /\ Len(words') = 5 * (packed + 1)
        /\ \A j \in 1..5 * packed : words'[j] = words[j]
        /\ \A k \in 1..5 : words'[5 * packed + k] = R[k]
    <2> HIDE DEF R
    <2>1. words' \in Seq(Nodes!Word) /\ Len(words') = 5 * packed + 5
          /\ \A j \in 1..Len(words) : words'[j] = words[j]
      <3>1. words \in Seq(Nodes!Word) /\ R \in Seq(Nodes!Word)
        BY <1>2, <1>5
      <3>2. /\ words \o R \in Seq(Nodes!Word) /\ Len(words \o R) = Len(words) + Len(R)
            /\ \A i \in 1..Len(words) : (words \o R)[i] = words[i]
        BY <3>1, Joined
      <3> QED
        BY <1>1, <1>2, <1>5, <3>2
    <2>2. \A k \in 1..Len(R) : words'[Len(words) + k] = R[k]
      <3>1. words \in Seq(Nodes!Word) /\ R \in Seq(Nodes!Word)
        BY <1>2, <1>5
      <3>2. \A k \in 1..Len(R) : (words \o R)[Len(words) + k] = R[k]
        BY <3>1, Joined
      <3> QED
        BY <1>1, <3>2
    <2> QED
      BY <1>2, <1>5, <2>1, <2>2
  <1>7. Packed'
    <2>1. ASSUME NEW i \in 1..packed + 1, NEW k \in 1..5
          PROVE  words'[(i - 1) * 5 + k] = NodeWord(i, k)'
      <3>1. CASE i = packed + 1
        <4>1. NodeWord(i, k)' = R[k]
          BY <1>1, <1>3, <3>1 DEF NodeWord
        <4>2. (i - 1) * 5 + k = 5 * packed + k
          BY <1>2, <3>1
        <4> QED
          BY <1>6, <4>1, <4>2
      <3>2. CASE i \in 1..packed
        <4>1. NodeWord(i, k)' = NodeWord(i, k)
          BY <1>1, <1>3, <3>2 DEF NodeWord
        <4>2. (i - 1) * 5 + k \in 1..5 * packed
          BY <1>2, <3>2
        <4>3. words[(i - 1) * 5 + k] = NodeWord(i, k)
          BY <1>1, <3>2 DEF NodesInv, Packed
        <4> QED
          BY <1>6, <4>1, <4>2, <4>3
      <3> QED
        BY <1>2, <3>1, <3>2
    <2> QED
      BY <1>1, <1>6, <2>1 DEF Packed
  <1>8. NodeTypes'
    <2>1. packed + 1 \in 0..Len(rows) /\ 0 \in 0..4 * (5 * (packed + 1))
      BY <1>1, <1>2
    <2>2. configured \in BOOLEAN /\ (~configured => rows = <<>>)
      BY DEF NodesInv, NodeTypes
    <2> QED
      BY <1>1, <1>2, <1>6, <2>1, <2>2 DEF NodeTypes
  <1>9. Sent'
    BY <1>1, <1>2 DEF NodesInv, Sent
  <1>10. Decoded'
    <2>1. result' = "none" /\ nodes' = <<>>
      BY <1>1 DEF NodesInv, Sent
    <2> QED
      BY <1>1, <1>2, <2>1 DEF Decoded, Nodes!NodesAreRows, Nodes!OneColorPerCategory,
                              Nodes!ColorsApart, Nodes!GreyIsTheFirst
  <1> QED
    BY <1>3, <1>7, <1>8, <1>9, <1>10 DEF NodesInv

LEMMA EndKeeps ==
  ASSUME NodesInv, Nodes!EndOfRows
  PROVE  NodesInv'
  <1>1. /\ configured' = configured /\ rows' = rows /\ packed' = packed /\ bytes' = bytes
        /\ numbers' = numbers /\ nextVal' = nextVal /\ result' = result /\ nodes' = nodes
        /\ phase = "packing" /\ phase' = "sent" /\ packed = Len(rows)
        /\ words' = IF configured THEN words ELSE <<[field |-> "count", val |-> 0]>>
    BY DEF Nodes!EndOfRows
  <1>2. /\ bytes = 0 /\ rows \in Seq(Categories) /\ words \in Seq(Nodes!Word)
        /\ result = "none" /\ nodes = <<>> /\ packed \in 0..Len(rows)
        /\ configured \in BOOLEAN /\ (~configured => rows = <<>>)
    BY <1>1 DEF NodesInv, NodeTypes, Sent
  <1>3. words' \in Seq(Nodes!Word) /\ Len(words') \in Nat /\ (~configured => Len(words') = 1)
    <2>1. [field |-> "count", val |-> 0] \in Nodes!Word
      BY DEF Nodes!Word
    <2>2. CASE configured
      BY <1>1, <1>2, <2>2
    <2>3. CASE ~configured
      BY <1>1, <2>1, <2>3
    <2> QED
      BY <2>2, <2>3
  <1>4. NodeTypes'
    <2>1. 0 \in 0..4 * Len(words')
      BY <1>3
    <2> QED
      BY <1>1, <1>2, <1>3, <2>1 DEF NodeTypes
  <1>5. Numbered'
    BY <1>1, CatsKept DEF NodesInv, Numbered
  <1>6. Sent'
    BY <1>1, <1>2, <1>3 DEF Sent
  <1>7. configured => Packed'
    BY <1>1 DEF NodesInv, Packed, NodeWord
  <1>8. Decoded'
    BY <1>1, <1>2 DEF Decoded, Nodes!NodesAreRows, Nodes!OneColorPerCategory,
                      Nodes!ColorsApart, Nodes!GreyIsTheFirst
  <1> QED
    BY <1>1, <1>4, <1>5, <1>6, <1>7, <1>8 DEF NodesInv

LEMMA ReceiveKeeps ==
  ASSUME NodesInv, Nodes!Receive
  PROVE  NodesInv'
  <1>1. /\ configured' = configured /\ rows' = rows /\ packed' = packed /\ words' = words
        /\ numbers' = numbers /\ nextVal' = nextVal /\ result' = result /\ nodes' = nodes
        /\ phase = "sent" /\ phase' = "cut" /\ bytes' \in 0..4 * Len(words)
    BY DEF Nodes!Receive, Nodes!WordBytes
  <1>2. NodeTypes'
    BY <1>1 DEF NodesInv, NodeTypes
  <1>3. Numbered'
    BY <1>1, CatsKept DEF NodesInv, Numbered
  <1>4. Sent'
    BY <1>1 DEF NodesInv, Sent
  <1>5. configured => Packed'
    BY <1>1 DEF NodesInv, Packed, NodeWord
  <1>6. Decoded'
    <2>1. result' = "none" /\ nodes' = <<>> /\ rows \in Seq(Categories)
      BY <1>1 DEF NodesInv, NodeTypes, Sent
    <2> QED
      BY <1>1, <2>1 DEF Decoded, Nodes!NodesAreRows, Nodes!OneColorPerCategory,
                        Nodes!ColorsApart, Nodes!GreyIsTheFirst
  <1> QED
    BY <1>1, <1>2, <1>3, <1>4, <1>5, <1>6 DEF NodesInv

LEMMA DecodeKeeps ==
  ASSUME NodesInv, Nodes!Decode
  PROVE  NodesInv'
  <1>1. /\ configured' = configured /\ rows' = rows /\ packed' = packed /\ words' = words
        /\ numbers' = numbers /\ nextVal' = nextVal /\ bytes' = bytes
        /\ phase = "cut" /\ phase' = "decoded"
    BY DEF Nodes!Decode
  <1>2. NodeTypes'
    BY <1>1 DEF NodesInv, NodeTypes
  <1>3. Numbered'
    BY <1>1, CatsKept DEF NodesInv, Numbered
  <1>4. Sent'
    BY <1>1 DEF NodesInv, Sent
  <1>5. configured => Packed'
    BY <1>1 DEF NodesInv, Packed, NodeWord
  <1>6. rows \in Seq(Categories) /\ Len(rows) \in Nat
    BY DEF NodesInv, NodeTypes
  <1>7. Decoded'
    <2>1. CASE result' \in {"empty", "error"} /\ nodes' = <<>>
      BY <1>1, <1>6, <2>1 DEF Decoded, Nodes!NodesAreRows, Nodes!OneColorPerCategory,
                              Nodes!ColorsApart, Nodes!GreyIsTheFirst
    <2>2. CASE /\ Nodes!Count # 0 /\ result' = "nodes"
               /\ nodes' = [i \in 1..Nodes!Count |-> Nodes!NodeAt(i)]
      <3> DEFINE K == Nodes!Count
                 C(i) == Nodes!ColorOf(numbers[rows[i]])
                 Node == [x : Nodes!Word, y : Nodes!Word, size : Nodes!Word,
                          color : 0..Palette, id : Nodes!Word]
      <3>1. K \in 1..packed /\ packed = Len(rows) /\ K \in Nat /\ K <= Len(rows)
        BY <1>1, <2>2, WholeRecords
      <3>2. ASSUME NEW i \in 1..K
            PROVE  /\ nodes'[i].x = [field |-> "x", val |-> i]
                   /\ nodes'[i].y = [field |-> "y", val |-> i]
                   /\ nodes'[i].size = [field |-> "size", val |-> i]
                   /\ nodes'[i].id = [field |-> "id", val |-> i]
                   /\ nodes'[i].color = C(i)
                   /\ nodes'[i] \in Node
        <4>1. /\ Nodes!View(i, 1) = [field |-> "x", val |-> i]
              /\ Nodes!View(i, 2) = [field |-> "y", val |-> i]
              /\ Nodes!View(i, 3) = [field |-> "size", val |-> i]
              /\ Nodes!View(i, 4).val = numbers[rows[i]]
              /\ Nodes!View(i, 5) = [field |-> "id", val |-> i]
          BY <1>1, <2>2, Views
        <4>2. C(i) \in 0..Palette
          BY <1>1, <2>2, ColorRange
        <4>3. nodes'[i] = Nodes!NodeAt(i)
          BY <2>2
        <4> HIDE DEF C
        <4>4. Nodes!NodeAt(i) = [x |-> [field |-> "x", val |-> i], y |-> [field |-> "y", val |-> i],
                                 size |-> [field |-> "size", val |-> i], color |-> C(i),
                                 id |-> [field |-> "id", val |-> i]]
          BY <4>1 DEF Nodes!NodeAt, C
        <4>5. i \in Nat
          BY <3>1
        <4> QED
          BY <4>2, <4>3, <4>4, <4>5 DEF Nodes!Word
      <3>3. DOMAIN nodes' = 1..K /\ nodes' \in Seq(Node) /\ Len(nodes') = K
        <4> HIDE DEF Node
        <4>1. nodes' = [i \in 1..K |-> nodes'[i]]
          BY <2>2
        <4>2. \A i \in 1..K : nodes'[i] \in Node
          BY <3>2
        <4> HIDE DEF K
        <4>3. nodes' \in [1..K -> Node]
          BY <4>1, <4>2
        <4> QED
          BY <3>1, <4>3
      <3> HIDE DEF Node
      <3>4. \A i \in 1..K : nodes'[i].color = C(i)
        BY <3>2
      <3>5. Nodes!Count' = K
        BY <1>1 DEF Nodes!Count
      <3>6. Nodes!NodesAreRows'
        <4> HIDE DEF K
        <4> QED
          BY <1>1, <3>1, <3>2, <3>3, <3>5 DEF Nodes!NodesAreRows
      <3>7. Nodes!OneColorPerCategory'
        <4>1. \A i, j \in 1..K : rows[i] = rows[j] => C(i) = C(j)
          OBVIOUS
        <4> HIDE DEF K, C
        <4> QED
          BY <1>1, <3>4, <3>3, <4>1 DEF Nodes!OneColorPerCategory
      <3>8. Nodes!GreyIsTheFirst'
        <4>1. \A i \in 1..K : C(i) = 0 <=> rows[i] = rows[1]
          BY <1>1, <2>2, ColorRange
        <4> HIDE DEF K, C
        <4> QED
          BY <1>1, <3>4, <3>3, <4>1 DEF Nodes!GreyIsTheFirst
      <3>9. Nodes!ColorsApart'
        <4> SUFFICES ASSUME Cardinality(Cats(K)) <= Palette + 1,
                            Cardinality(Cats(K)) <= FloatMax + 1,
                            NEW i \in 1..K, NEW j \in 1..K, rows[i] # rows[j]
                     PROVE  C(i) # C(j)
          <5>1. {rows'[i] : i \in 1..Len(nodes')} = Cats(K)
            BY <1>1, <3>3 DEF Cats
          <5>2. Nodes!Cardinality({rows'[i] : i \in 1..Len(nodes')}) = Cardinality(Cats(K))
            BY <5>1, SameCardinality
          <5> HIDE DEF K, C
          <5> QED
            BY <1>1, <3>4, <3>3, <5>2 DEF Nodes!ColorsApart
        <4>1. C(i) = numbers[rows[i]] /\ C(j) = numbers[rows[j]]
          BY <1>1, <2>2, ColorIsNumber
        <4>2. K \in 0..packed
          BY <3>1
        <4>3. Distinct(K)
          BY <4>2, FloatsLast DEF NodesInv
        <4>4. rows[i] \in Cats(K) /\ rows[j] \in Cats(K)
          BY DEF Cats
        <4> QED
          BY <4>1, <4>3, <4>4 DEF Distinct
      <3> HIDE DEF K, C
      <3> USE DEF Node
      <3> QED
        BY <2>2, <3>3, <3>6, <3>7, <3>8, <3>9 DEF Decoded
    <2> QED
      BY <2>1, <2>2 DEF Nodes!Decode
  <1> QED
    BY <1>1, <1>2, <1>3, <1>4, <1>5, <1>7 DEF NodesInv

LEMMA NodesStep ==
  ASSUME NodesInv, Nodes!Next
  PROVE  NodesInv'
  <1>1. Nodes!Done => UNCHANGED <<ofRecords, ofNodes>>
    BY DEF Nodes!Done, Nodes!vars, ofRecords, ofNodes
  <1> QED
    BY <1>1, PackKeeps, EndKeeps, ReceiveKeeps, DecodeKeeps, NodesStay DEF Nodes!Next

LEMMA NodesMean ==
  ASSUME NodesInv
  PROVE  /\ Nodes!TypeOK /\ Nodes!NodesAreRows
         /\ Nodes!OneColorPerCategory /\ Nodes!ColorsApart /\ Nodes!GreyIsTheFirst
  <1>1. packed \in Nat /\ FloatMax \in Nat /\ rows \in Seq(Categories) /\ packed <= Len(rows)
    BY AnswerAssumption DEF NodesInv, NodeTypes
  <1>2. DOMAIN numbers \subseteq Categories /\ \A c \in DOMAIN numbers : numbers[c] \in Nat
    <2>1. Cats(packed) \subseteq Categories
      BY <1>1 DEF Cats
    <2>2. \A c \in Cats(packed) : numbers[c] \in 0..FloatMax
      BY NumberBounds DEF NodesInv
    <2> QED
      BY <1>1, <2>1, <2>2 DEF NodesInv, Numbered
  <1>3. nextVal \in 0..FloatMax
    BY <1>1, CatsFinite DEF NodesInv, Numbered, Number
  <1>4. Nodes!TypeOK
    BY <1>2, <1>3 DEF NodesInv, NodeTypes, Decoded, Nodes!TypeOK, Nodes!WordBytes
  <1> QED
    BY <1>4 DEF NodesInv, Decoded

(***************************************************************************)
(* Edges.                                                                  *)
(***************************************************************************)

EdgeTypes ==
  /\ configured \in BOOLEAN
  /\ rows \in Seq(Edges!Edge) /\ (~configured => rows = <<>>)
  /\ packed \in 0..Len(rows)
  /\ words \in Seq(0..2 * Exact)
  /\ phase \in {"packing", "sent", "cut", "decoded"}
  /\ bytes \in 0..4 * Len(words)

EdgeAt(r) ==
  /\ words[2 * Edges!Rank(r) - 1] = Edges!Float(rows[r].source)
  /\ words[2 * Edges!Rank(r)] = Edges!Float(rows[r].target)

EdgesPacked ==
  /\ Len(words) = 2 * Edges!Rank(packed)
  /\ \A r \in Edges!BothEnds : r <= packed => EdgeAt(r)

EdgesSent ==
  /\ phase = "packing" => bytes = 0
  /\ phase # "packing" => packed = Len(rows)
  /\ phase # "packing" /\ ~configured => Len(words) = 1
  /\ links # <<>> => /\ phase = "decoded" /\ bytes >= 8 /\ bytes % 4 = 0
                     /\ links = SubSeq(words, 1, bytes \div 4)

EdgesInv ==
  /\ EdgeTypes /\ EdgesSent
  /\ (phase = "packing" \/ configured) => EdgesPacked

LEMMA RankFacts ==
  ASSUME rows \in Seq(Edges!Edge), NEW i \in Nat \ {0}
  PROVE  /\ Edges!Rank(i) \in Nat /\ Edges!Rank(i - 1) \in Nat
         /\ i \in Edges!BothEnds => Edges!Rank(i) = Edges!Rank(i - 1) + 1
         /\ i \notin Edges!BothEnds => Edges!Rank(i) = Edges!Rank(i - 1)
  <1> DEFINE B(j) == Edges!BothEnds \cap 1..j
  <1>1. \A j : Edges!Rank(j) = Cardinality(B(j))
    BY DEF Edges!Rank, Edges!Cardinality, Cardinality
  <1>2. B(i) = IF i \in Edges!BothEnds THEN B(i - 1) \cup {i} ELSE B(i - 1)
    OBVIOUS
  <1>3. i \notin B(i - 1)
    OBVIOUS
  <1>4. IsFiniteSet(B(i - 1))
    <2>1. IsFiniteSet(1..i - 1)
      BY FS_Interval
    <2> QED
      BY <2>1, FS_Subset
  <1> HIDE DEF B
  <1>5. IsFiniteSet(B(i)) /\ Cardinality(B(i)) =
          IF i \in Edges!BothEnds THEN Cardinality(B(i - 1)) + 1 ELSE Cardinality(B(i - 1))
    BY <1>2, <1>3, <1>4, FS_AddElement
  <1> QED
    BY <1>1, <1>4, <1>5, FS_CardinalityType

LEMMA RankGrows ==
  ASSUME rows \in Seq(Edges!Edge), NEW n \in Nat, NEW i \in 0..n
  PROVE  Edges!Rank(i) <= Edges!Rank(n) /\ Edges!Rank(i) \in Nat /\ Edges!Rank(n) \in Nat
  <1> DEFINE B(j) == Edges!BothEnds \cap 1..j
  <1>1. \A j : Edges!Rank(j) = Cardinality(B(j))
    BY DEF Edges!Rank, Edges!Cardinality, Cardinality
  <1>2. B(i) \subseteq B(n) /\ B(n) \subseteq 1..n
    OBVIOUS
  <1>3. IsFiniteSet(1..n)
    BY FS_Interval
  <1> HIDE DEF B
  <1>4. IsFiniteSet(B(n)) /\ IsFiniteSet(B(i)) /\ Cardinality(B(i)) <= Cardinality(B(n))
    BY <1>2, <1>3, FS_Subset
  <1> QED
    BY <1>1, <1>4, FS_CardinalityType

LEMMA RankAll ==
  ASSUME rows \in Seq(Edges!Edge)
  PROVE  Edges!Rank(Len(rows)) = Edges!Cardinality(Edges!BothEnds)
  <1>1. Edges!BothEnds \cap 1..Len(rows) = Edges!BothEnds
    BY DEF Edges!BothEnds
  <1> QED
    BY <1>1 DEF Edges!Rank

\* What a float makes of an end.
LEMMA FloatNear ==
  ASSUME NEW n \in Ids
  PROVE  Edges!Float(n) \in 0..2 * Exact /\ Edges!Near(Edges!Float(n), n)
  <1>1. Exact \in Nat \ {0} /\ n \in 0..2 * Exact
    BY AnswerAssumption
  <1> QED
    BY <1>1 DEF Edges!Float, Edges!Near

LEMMA EdgesStart ==
  ASSUME Edges!Init
  PROVE  EdgesInv
  <1>1. MaxEdges \in Nat
    BY AnswerAssumption
  <1>2. PICK n \in 0..MaxEdges : rows \in [1..n -> Edges!Edge]
    BY DEF Edges!Init
  <1>3. rows \in Seq(Edges!Edge) /\ Len(rows) \in Nat
    BY <1>1, <1>2
  <1>4. EdgeTypes /\ EdgesSent
    BY <1>3 DEF Edges!Init, EdgeTypes, EdgesSent
  <1>5. Edges!Rank(0) = 0
    <2>1. Edges!BothEnds \cap 1..0 = {}
      OBVIOUS
    <2> QED
      BY <2>1, FS_EmptySet DEF Edges!Rank, Edges!Cardinality, Cardinality
  <1>6. EdgesPacked
    BY <1>5 DEF Edges!Init, EdgesPacked, Edges!BothEnds
  <1> QED
    BY <1>4, <1>6 DEF EdgesInv

LEMMA EdgesKept ==
  ASSUME rows' = rows
  PROVE  /\ Edges!BothEnds' = Edges!BothEnds
         /\ \A r : Edges!Rank(r)' = Edges!Rank(r)
  BY DEF Edges!BothEnds, Edges!Rank

LEMMA PackedKept ==
  ASSUME EdgesPacked, rows' = rows, packed' = packed, words' = words
  PROVE  EdgesPacked'
  BY EdgesKept DEF EdgesPacked, EdgeAt

LEMMA EdgesStay ==
  ASSUME EdgesInv, UNCHANGED <<ofRecords, links>>
  PROVE  EdgesInv'
  <1>1. /\ configured' = configured /\ rows' = rows /\ packed' = packed /\ words' = words
        /\ phase' = phase /\ bytes' = bytes /\ links' = links
    BY DEF ofRecords
  <1>2. EdgeTypes' /\ EdgesSent'
    BY <1>1 DEF EdgesInv, EdgeTypes, EdgesSent
  <1> QED
    BY <1>1, <1>2, PackedKept DEF EdgesInv

LEMMA EdgePackKeeps ==
  ASSUME EdgesInv, Edges!PackRow
  PROVE  EdgesInv'
  <1> DEFINE e == rows[packed + 1]
             p == <<Edges!Float(e.source), Edges!Float(e.target)>>
             k == Edges!Rank(packed)
  <1>1. /\ phase = "packing" /\ packed < Len(rows) /\ packed' = packed + 1
        /\ configured' = configured /\ rows' = rows /\ phase' = phase /\ bytes' = bytes
        /\ links' = links
        /\ words' = IF Edges!Whole(e) THEN words \o p ELSE words
    BY DEF Edges!PackRow
  <1>2. /\ packed \in Nat /\ rows \in Seq(Edges!Edge) /\ words \in Seq(0..2 * Exact)
        /\ Len(rows) \in Nat /\ Len(words) = 2 * k /\ bytes = 0 /\ links = <<>>
        /\ configured \in BOOLEAN /\ (~configured => rows = <<>>)
        /\ e \in Edges!Edge
    BY <1>1 DEF EdgesInv, EdgeTypes, EdgesSent, EdgesPacked
  <1>3. packed + 1 \in Edges!BothEnds <=> Edges!Whole(e)
    BY <1>1, <1>2 DEF Edges!BothEnds, Edges!Whole
  <1>4. /\ k \in Nat /\ (packed + 1) - 1 = packed
        /\ packed + 1 \in Edges!BothEnds => Edges!Rank(packed + 1) = k + 1
        /\ packed + 1 \notin Edges!BothEnds => Edges!Rank(packed + 1) = k
    BY <1>2, RankFacts
  <1>5. Edges!Whole(e) => p \in Seq(0..2 * Exact) /\ Len(p) = 2
    <2>1. Edges!Whole(e) => e.source \in Ids /\ e.target \in Ids
      BY <1>2 DEF Edges!Edge, Edges!Ends, Edges!Whole
    <2>2. \A n \in Ids : Edges!Float(n) \in 0..2 * Exact
      BY FloatNear
    <2> QED
      BY <2>1, <2>2
  <1> HIDE DEF k
  <1>6. /\ words' \in Seq(0..2 * Exact)
        /\ Len(words') = 2 * Edges!Rank(packed + 1)
        /\ \A i \in 1..2 * k : words'[i] = words[i]
        /\ packed + 1 \in Edges!BothEnds => words'[2 * k + 1] = p[1] /\ words'[2 * k + 2] = p[2]
    <2>1. CASE Edges!Whole(e)
      <3>0. p \in Seq(0..2 * Exact) /\ Len(p) = 2
        BY <1>5, <2>1
      <3> HIDE DEF p, e
      <3>1. /\ words \o p \in Seq(0..2 * Exact) /\ Len(words \o p) = Len(words) + Len(p)
            /\ \A i \in 1..Len(words) : (words \o p)[i] = words[i]
            /\ \A i \in 1..Len(p) : (words \o p)[Len(words) + i] = p[i]
        <4> DEFINE W == 0..2 * Exact
        <4>1. words \in Seq(W) /\ p \in Seq(W)
          BY <1>2, <3>0
        <4> HIDE DEF W
        <4>2. /\ words \o p \in Seq(W) /\ Len(words \o p) = Len(words) + Len(p)
              /\ \A i \in 1..Len(words) : (words \o p)[i] = words[i]
              /\ \A i \in 1..Len(p) : (words \o p)[Len(words) + i] = p[i]
          BY <4>1, Joined
        <4> QED
          BY <4>2 DEF W
      <3>2. 1 \in 1..Len(p) /\ 2 \in 1..Len(p)
        BY <3>0
      <3> QED
        BY <1>1, <1>2, <1>3, <1>4, <3>0, <2>1, <3>1, <3>2
    <2>2. CASE ~Edges!Whole(e)
      BY <1>1, <1>2, <1>3, <1>4, <2>2
    <2> QED
      BY <2>1, <2>2
  <1>7. EdgesPacked'
    <2>1. ASSUME NEW r \in Edges!BothEnds, r <= packed + 1
          PROVE  /\ words'[2 * Edges!Rank(r) - 1] = Edges!Float(rows[r].source)
                 /\ words'[2 * Edges!Rank(r)] = Edges!Float(rows[r].target)
      <3>1. r \in 1..Len(rows)
        BY DEF Edges!BothEnds
      <3>2. CASE r = packed + 1
        <4>1. 2 * Edges!Rank(r) - 1 = 2 * k + 1 /\ 2 * Edges!Rank(r) = 2 * k + 2
          BY <1>4, <3>2
        <4> QED
          BY <1>6, <3>2, <4>1
      <3>3. CASE r <= packed
        <4>1. r \in 0..packed /\ r \in Nat \ {0} /\ r \in Edges!BothEnds
          BY <1>2, <2>1, <3>1, <3>3
        <4>2. Edges!Rank(r) <= k /\ Edges!Rank(r) \in Nat /\ Edges!Rank(r) # 0
          BY <1>2, <4>1, RankGrows, RankFacts DEF k
        <4>3. 2 * Edges!Rank(r) - 1 \in 1..2 * k /\ 2 * Edges!Rank(r) \in 1..2 * k
          BY <1>4, <4>2
        <4>4. EdgeAt(r)
          BY <1>1, <3>3, <4>1 DEF EdgesInv, EdgesPacked
        <4> QED
          BY <1>6, <4>3, <4>4 DEF EdgeAt
      <3> QED
        BY <1>2, <2>1, <3>1, <3>2, <3>3
    <2>2. Edges!BothEnds' = Edges!BothEnds /\ \A r : Edges!Rank(r)' = Edges!Rank(r)
      BY <1>1, EdgesKept
    <2> QED
      BY <1>1, <1>6, <2>1, <2>2 DEF EdgesPacked, EdgeAt
  <1>8. EdgeTypes'
    <2>1. packed + 1 \in 0..Len(rows) /\ Len(words') \in Nat
      BY <1>1, <1>2, <1>6
    <2>2. 0 \in 0..4 * Len(words')
      BY <2>1
    <2> QED
      BY <1>1, <1>2, <1>6, <2>1, <2>2 DEF EdgeTypes
  <1>9. EdgesSent'
    BY <1>1, <1>2 DEF EdgesSent
  <1> QED
    BY <1>7, <1>8, <1>9 DEF EdgesInv

LEMMA EdgesStep ==
  ASSUME EdgesInv, Edges!Next
  PROVE  EdgesInv'
  <1>1. ASSUME Edges!EndOfRows
        PROVE  EdgesInv'
    <2>1. /\ configured' = configured /\ rows' = rows /\ packed' = packed /\ bytes' = bytes
          /\ links' = links /\ phase = "packing" /\ phase' = "sent" /\ packed = Len(rows)
          /\ words' = IF configured THEN words ELSE <<0>>
      BY <1>1 DEF Edges!EndOfRows
    <2>2. words' \in Seq(0..2 * Exact) /\ Len(words') \in Nat /\ (~configured => Len(words') = 1)
      <3>1. 0 \in 0..2 * Exact
        BY AnswerAssumption
      <3>2. CASE configured
        BY <2>1, <3>2 DEF EdgesInv, EdgeTypes
      <3>3. CASE ~configured
        BY <2>1, <3>1, <3>3
      <3> QED
        BY <3>2, <3>3
    <2>3. EdgeTypes'
      <3>1. bytes = 0 /\ 0 \in 0..4 * Len(words')
        BY <2>1, <2>2 DEF EdgesInv, EdgesSent
      <3> QED
        BY <2>1, <2>2, <3>1 DEF EdgesInv, EdgeTypes
    <2>4. EdgesSent'
      BY <2>1, <2>2 DEF EdgesInv, EdgesSent
    <2>5. configured => EdgesPacked'
      BY <2>1, PackedKept DEF EdgesInv
    <2> QED
      BY <2>1, <2>3, <2>4, <2>5 DEF EdgesInv
  <1>2. ASSUME Edges!Receive
        PROVE  EdgesInv'
    <2>1. /\ configured' = configured /\ rows' = rows /\ packed' = packed /\ words' = words
          /\ links' = links /\ phase = "sent" /\ phase' = "cut" /\ bytes' \in 0..4 * Len(words)
      BY <1>2 DEF Edges!Receive
    <2>2. EdgeTypes' /\ EdgesSent'
      BY <2>1 DEF EdgesInv, EdgeTypes, EdgesSent
    <2> QED
      BY <2>1, <2>2, PackedKept DEF EdgesInv
  <1>3. ASSUME Edges!Decode
        PROVE  EdgesInv'
    <2>1. /\ configured' = configured /\ rows' = rows /\ packed' = packed /\ words' = words
          /\ bytes' = bytes /\ phase = "cut" /\ phase' = "decoded"
          /\ links' = IF bytes >= 8 /\ bytes % 4 = 0 THEN SubSeq(words, 1, bytes \div 4) ELSE <<>>
      BY <1>3 DEF Edges!Decode, Edges!Enough
    <2>2. EdgeTypes'
      BY <2>1 DEF EdgesInv, EdgeTypes
    <2>3. EdgesSent'
      BY <2>1 DEF EdgesInv, EdgesSent
    <2> QED
      BY <2>1, <2>2, <2>3, PackedKept DEF EdgesInv
  <1>4. Edges!Done => UNCHANGED <<ofRecords, links>>
    BY DEF Edges!Done, Edges!vars, ofRecords
  <1> QED
    BY <1>1, <1>2, <1>3, <1>4, EdgePackKeeps, EdgesStay DEF Edges!Next

LEMMA EdgesMean ==
  ASSUME EdgesInv
  PROVE  /\ Edges!TypeOK /\ Edges!LinksJoinTheirEnds /\ Edges!NoEdgesNoLinks
         /\ Edges!HalfOnlyWhenCut
  <1>1. /\ words \in Seq(0..2 * Exact) /\ Len(words) \in Nat /\ rows \in Seq(Edges!Edge)
        /\ bytes \in Nat /\ bytes <= 4 * Len(words) /\ configured \in BOOLEAN /\ Len(rows) \in Nat
    BY DEF EdgesInv, EdgeTypes
  <1>2. CASE links = <<>>
    <2>1. Edges!TypeOK
      BY <1>2 DEF EdgesInv, EdgeTypes, Edges!TypeOK
    <2>2. Edges!NoEdgesNoLinks /\ Edges!HalfOnlyWhenCut
      BY <1>2 DEF Edges!NoEdgesNoLinks, Edges!HalfOnlyWhenCut
    <2>3. Edges!Cardinality(Edges!BothEnds) \in Nat
      BY <1>1, RankAll, RankGrows
    <2>4. \A r \in Edges!BothEnds : Edges!Rank(r) \in Nat \ {0}
      BY <1>1, RankFacts DEF Edges!BothEnds
    <2>5. Len(links) = 0 /\ 0 \div 2 = 0
      BY <1>2
    <2> QED
      BY <2>1, <2>2, <2>3, <2>4, <2>5 DEF Edges!LinksJoinTheirEnds
  <1>3. CASE links # <<>>
    <2> DEFINE q == bytes \div 4
               n == Edges!Rank(packed)
    <2>1. /\ phase = "decoded" /\ bytes >= 8 /\ bytes % 4 = 0 /\ links = SubSeq(words, 1, q)
          /\ packed = Len(rows)
      BY <1>3 DEF EdgesInv, EdgesSent
    <2>2. q \in Nat /\ bytes = 4 * q /\ q >= 2 /\ q <= Len(words)
      BY <1>1, <2>1
    <2>3. configured /\ EdgesPacked
      <3>1. ~configured => Len(words) = 1
        BY <2>1 DEF EdgesInv, EdgesSent
      <3> QED
        BY <1>1, <2>1, <2>2, <3>1 DEF EdgesInv
    <2>4. Len(words) = 2 * n /\ n \in Nat /\ n = Edges!Cardinality(Edges!BothEnds)
      BY <1>1, <2>1, <2>3, RankAll, RankGrows DEF EdgesPacked
    <2> HIDE DEF q, n
    <2>5. /\ links \in Seq(0..2 * Exact) /\ Len(links) = q
          /\ \A i \in 1..q : links[i] = words[i]
      <3> DEFINE W == 0..2 * Exact
      <3>0. words \in Seq(W)
        BY <1>1
      <3> HIDE DEF W
      <3>1. \A i \in 1..q : words[i] \in W
        <4>1. \A i \in 1..q : i \in 1..Len(words)
          BY <1>1, <2>2
        <4>2. \A i \in 1..Len(words) : words[i] \in W
          BY <3>0
        <4> QED
          BY <4>1, <4>2
      <3>2. SubSeq(words, 1, q) \in Seq(W) /\ Len(SubSeq(words, 1, q)) = q
            /\ \A i \in 1..q : SubSeq(words, 1, q)[i] = words[i]
        <4>1. /\ SubSeq(words, 1, q) \in Seq(W)
              /\ Len(SubSeq(words, 1, q)) = IF 1 <= q THEN q - 1 + 1 ELSE 0
              /\ \A i \in 1..q - 1 + 1 : SubSeq(words, 1, q)[i] = words[1 + i - 1]
          BY <2>2, <3>1, SubSeqProperties
        <4> QED
          BY <2>2, <4>1
      <3> QED
        BY <2>1, <3>2 DEF W
    <2>6. Edges!TypeOK
      BY <2>5 DEF EdgesInv, EdgeTypes, Edges!TypeOK
    <2>7. Edges!NoEdgesNoLinks
      BY <1>1, <2>1, <2>3 DEF Edges!NoEdgesNoLinks
    <2>8. Edges!HalfOnlyWhenCut
      <3>1. q % 2 = 1 => q # 2 * n /\ (4 * q) % 8 = 4
        BY <2>2, <2>4
      <3> QED
        BY <2>2, <2>4, <2>5, <3>1 DEF Edges!HalfOnlyWhenCut
    <2>9. q \div 2 <= n
      BY <2>2, <2>4
    <2>10. ASSUME NEW r \in Edges!BothEnds, 2 * Edges!Rank(r) <= q
           PROVE  /\ Edges!Near(links[2 * Edges!Rank(r) - 1], rows[r].source)
                  /\ Edges!Near(links[2 * Edges!Rank(r)], rows[r].target)
      <3>1. r \in 1..Len(rows) /\ rows[r].source \in Ids /\ rows[r].target \in Ids
        <4>1. r \in 1..Len(rows) /\ rows[r].source # Null /\ rows[r].target # Null
          BY DEF Edges!BothEnds
        <4>2. rows[r] \in Edges!Edge
          BY <1>1, <4>1
        <4> QED
          BY <4>1, <4>2 DEF Edges!Edge, Edges!Ends
      <3>2. EdgeAt(r)
        BY <2>1, <2>3, <3>1 DEF EdgesPacked
      <3>3. Edges!Rank(r) \in Nat \ {0}
        BY <1>1, <3>1, RankFacts
      <3>4. 2 * Edges!Rank(r) - 1 \in 1..q /\ 2 * Edges!Rank(r) \in 1..q
        BY <2>2, <2>10, <3>3
      <3> QED
        BY <2>5, <3>1, <3>2, <3>4, FloatNear DEF EdgeAt
    <2> QED
      BY <2>4, <2>5, <2>6, <2>7, <2>8, <2>9, <2>10 DEF Edges!LinksJoinTheirEnds
  <1> QED
    BY <1>2, <1>3

(***************************************************************************)
(* A text through JSON.                                                    *)
(***************************************************************************)

\* Bytes of the value that are escaped.
Escapes == IF done <= Len(value) THEN done ELSE Len(value)

\* f says where in the output the escape of each byte ends.
WrittenAs(f) ==
  /\ f \in [0..Escapes -> 1..Len(output)] /\ f[0] = 1
  /\ output[1] = "quote"
  /\ \A i \in 1..Escapes :
       LET e == Text!Escaped(value[i])
       IN f[i] = f[i - 1] + Len(e) /\ \A k \in 1..Len(e) : output[f[i - 1] + k] = e[k]
  /\ done <= Len(value) => Len(output) = f[Escapes]
  /\ done > Len(value) => Len(output) = f[Escapes] + 1 /\ output[Len(output)] = "quote"

\* The parser has read the escapes of the bytes it has put into parsed.
ReadAs(f) ==
  /\ parsed \in Seq(Text!Bytes) /\ Len(parsed) <= Escapes
  /\ \A i \in 1..Len(parsed) : parsed[i] = value[i]
  /\ state \in {"outside", "inside", "escape", "closed"}
  /\ state = "outside" => pos = 0 /\ parsed = <<>>
  /\ state # "outside" => done > Len(value)
  /\ state = "inside" => pos = f[Len(parsed)]
  /\ state = "escape" => /\ Len(parsed) < Len(value)
                         /\ pos = f[Len(parsed)] + 1
                         /\ value[Len(parsed) + 1] \in Text!Short \cup Text!Control
  /\ state = "closed" => pos = Len(output) /\ parsed = value

TextTypes ==
  /\ value \in Seq(Text!Bytes)
  /\ done \in 0..Len(value) + 1
  /\ output \in Seq(Text!Symbols)
  /\ pos \in Nat

TextInv == TextTypes /\ \E f : WrittenAs(f) /\ ReadAs(f)

LEMMA EscapeFacts ==
  ASSUME NEW c \in Text!Bytes
  PROVE  /\ Text!Escaped(c) \in Seq(Text!Symbols)
         /\ c \in Text!Short => /\ Len(Text!Escaped(c)) = 2 /\ Text!Escaped(c)[1] = "backslash"
                                /\ Text!Escaped(c)[2] = Text!Letter[c]
         /\ c \in Text!Control => /\ Len(Text!Escaped(c)) = 3 /\ Text!Escaped(c)[1] = "backslash"
                                  /\ Text!Escaped(c)[2] = "letter_u"
                                  /\ Text!Escaped(c)[3] = Text!Hex[c]
         /\ c \notin Text!Short \cup Text!Control => Len(Text!Escaped(c)) = 1 /\ Text!Escaped(c)[1] = c
  <1> DEFINE SS == Text!Symbols
  <1>1. c \in SS /\ "backslash" \in SS /\ "letter_u" \in SS
    BY DEF Text!Bytes, Text!Short, Text!Control, Text!Symbols
  <1>2. CASE c \in Text!Short
    <2>1. c \notin Text!Control /\ Text!Letter[c] \in SS
      BY <1>2 DEF Text!Short, Text!Control, Text!Symbols, Text!Bytes, Text!Letter
    <2>2. Text!Escaped(c) = <<"backslash", Text!Letter[c]>>
      BY <1>2 DEF Text!Escaped
    <2> HIDE DEF SS
    <2> QED
      BY <1>1, <1>2, <2>1, <2>2 DEF SS
  <1>3. CASE c \in Text!Control
    <2>1. c \notin Text!Short /\ Text!Hex[c] \in SS
      BY <1>3 DEF Text!Short, Text!Control, Text!Symbols, Text!Bytes, Text!Hex
    <2>2. Text!Escaped(c) = <<"backslash", "letter_u", Text!Hex[c]>>
      BY <1>3, <2>1 DEF Text!Escaped
    <2> HIDE DEF SS
    <2> QED
      BY <1>1, <1>3, <2>1, <2>2 DEF SS
  <1>4. CASE c \notin Text!Short \cup Text!Control
    <2>1. Text!Escaped(c) = <<c>>
      BY <1>4 DEF Text!Escaped
    <2> HIDE DEF SS
    <2> QED
      BY <1>1, <1>4, <2>1 DEF SS
  <1> QED
    BY <1>2, <1>3, <1>4

LEMMA LettersDiffer ==
  /\ \A c \in Text!Short : Text!Letter[c] # "letter_u"
  /\ \A c, d \in Text!Short : Text!Letter[c] = Text!Letter[d] => c = d
  /\ \A c, d \in Text!Control : Text!Hex[c] = Text!Hex[d] => c = d
  BY DEF Text!Short, Text!Control, Text!Letter, Text!Hex

LEMMA TextStart ==
  ASSUME Text!Init
  PROVE  TextInv
  <1>1. MaxLength \in Nat
    BY AnswerAssumption
  <1>2. PICK n \in 0..MaxLength : value \in [1..n -> Text!Bytes]
    BY DEF Text!Init
  <1>3. value \in Seq(Text!Bytes) /\ n \in Nat
    BY <1>1, <1>2
  <1>4. TextTypes
    BY <1>3 DEF Text!Init, TextTypes, Text!Symbols, Text!Bytes, Text!Short, Text!Control
  <1>5. WrittenAs([i \in 0..0 |-> 1]) /\ ReadAs([i \in 0..0 |-> 1])
    BY <1>3 DEF Text!Init, WrittenAs, ReadAs, Escapes
  <1> QED
    BY <1>4, <1>5 DEF TextInv

LEMMA EscapeKeeps ==
  ASSUME TextInv, Text!Escape
  PROVE  TextInv'
  <1>1. PICK f : WrittenAs(f) /\ ReadAs(f)
    BY DEF TextInv
  <1> DEFINE n == done
             e == Text!Escaped(value[n + 1])
  <1>2. /\ n \in Nat /\ n < Len(value) /\ Escapes = n /\ Escapes' = n + 1
        /\ done' = n + 1 /\ value' = value /\ value \in Seq(Text!Bytes) /\ Len(value) \in Nat
        /\ output \in Seq(Text!Symbols) /\ pos \in Nat
    BY DEF TextInv, TextTypes, Text!Escape, Escapes
  <1>3. e \in Seq(Text!Symbols) /\ Len(e) \in Nat
    BY <1>2, EscapeFacts
  <1> HIDE DEF e
  <1>4. /\ output' = output \o e /\ output' \in Seq(Text!Symbols)
        /\ Len(output') = Len(output) + Len(e)
        /\ \A i \in 1..Len(output) : output'[i] = output[i]
        /\ \A k \in 1..Len(e) : output'[Len(output) + k] = e[k]
    BY <1>2, <1>3 DEF Text!Escape, e
  <1>5. /\ f \in [0..n -> 1..Len(output)] /\ f[0] = 1 /\ output[1] = "quote"
        /\ Len(output) = f[n] /\ Len(output) \in Nat
        /\ \A i \in 1..n : LET d == Text!Escaped(value[i])
                           IN f[i] = f[i - 1] + Len(d) /\ \A k \in 1..Len(d) : output[f[i - 1] + k] = d[k]
    BY <1>1, <1>2 DEF WrittenAs
  <1>6. PICK g \in [0..n + 1 -> 1..Len(output')] :
          g[0] = 1 /\ g[n + 1] = f[n] + Len(e) /\ (\A i \in 0..n : g[i] = f[i])
    <2> DEFINE h == [i \in 0..n + 1 |-> IF i <= n THEN f[i] ELSE f[n] + Len(e)]
    <2>1. h \in [0..n + 1 -> 1..Len(output')]
      BY <1>2, <1>3, <1>4, <1>5
    <2>2. h[0] = 1 /\ h[n + 1] = f[n] + Len(e) /\ (\A i \in 0..n : h[i] = f[i])
      BY <1>2, <1>5
    <2> HIDE DEF h
    <2> QED
      BY <2>1, <2>2
  <1>7. ASSUME NEW i \in 1..n + 1
        PROVE  LET d == Text!Escaped(value[i])
               IN g[i] = g[i - 1] + Len(d) /\ \A k \in 1..Len(d) : output'[g[i - 1] + k] = d[k]
    <2>1. CASE i = n + 1
      BY <2>1, <1>2, <1>4, <1>5, <1>6 DEF e
    <2>2. CASE i \in 1..n
      <3> DEFINE d == Text!Escaped(value[i])
      <3>1. i - 1 \in 0..n /\ i \in 0..n
        BY <1>2, <2>2
      <3>2. g[i] = f[i] /\ g[i - 1] = f[i - 1]
        BY <3>1, <1>6
      <3>3. Len(d) \in Nat
        BY <1>2, <2>2, EscapeFacts
      <3> HIDE DEF d
      <3>4. f[i] = f[i - 1] + Len(d) /\ (\A k \in 1..Len(d) : output[f[i - 1] + k] = d[k])
        BY <1>5, <2>2 DEF d
      <3>5. ASSUME NEW k \in 1..Len(d)
            PROVE  output'[f[i - 1] + k] = d[k]
        <4>1. f[i] \in 1..Len(output) /\ f[i - 1] \in 1..Len(output) /\ Len(output) \in Nat
          BY <3>1, <1>5
        <4>2. f[i - 1] + k \in 1..Len(output)
          BY <3>3, <3>4, <4>1
        <4> QED
          BY <4>2, <3>4, <1>4
      <3> QED
        BY <3>2, <3>4, <3>5 DEF d
    <2> QED
      BY <2>1, <2>2, <1>2
  <1>8. WrittenAs(g)'
    <2>1. Len(output') = g[n + 1] /\ output'[1] = "quote"
      BY <1>2, <1>3, <1>4, <1>5, <1>6
    <2>2. g \in [0..Escapes' -> 1..Len(output')] /\ g[0] = 1
      BY <1>2, <1>6
    <2>3. (done <= Len(value))' => Len(output') = g[Escapes']
      BY <1>2, <2>1
    <2>4. ~(done > Len(value))'
      BY <1>2
    <2> QED
      BY <1>2, <1>7, <2>1, <2>2, <2>3, <2>4 DEF WrittenAs
  <1>9. ReadAs(g)'
    BY <1>1, <1>2 DEF ReadAs, Text!Escape
  <1> QED
    BY <1>2, <1>4, <1>8, <1>9 DEF TextInv, TextTypes, Text!Escape

LEMMA CloseKeeps ==
  ASSUME TextInv, Text!Close
  PROVE  TextInv'
  <1>1. PICK f : WrittenAs(f) /\ ReadAs(f)
    BY DEF TextInv
  <1>2. /\ value' = value /\ value \in Seq(Text!Bytes) /\ Len(value) \in Nat
        /\ done = Len(value) /\ done' = Len(value) + 1 /\ Escapes = Len(value) /\ Escapes' = Len(value)
        /\ output \in Seq(Text!Symbols) /\ pos \in Nat /\ pos' = pos
    BY DEF TextInv, TextTypes, Text!Close, Escapes
  <1>3. "quote" \in Text!Symbols
    BY DEF Text!Bytes, Text!Short, Text!Control, Text!Symbols
  <1>4. /\ output' \in Seq(Text!Symbols) /\ Len(output) \in Nat
        /\ Len(output') = Len(output) + 1 /\ output'[Len(output')] = "quote"
        /\ \A i \in 1..Len(output) : output'[i] = output[i]
    BY <1>2, <1>3 DEF Text!Close
  <1> DEFINE n == Len(value)
  <1>5. /\ f \in [0..n -> 1..Len(output)] /\ f[0] = 1 /\ output[1] = "quote"
        /\ Len(output) = f[n]
        /\ \A i \in 1..n : LET d == Text!Escaped(value[i])
                           IN f[i] = f[i - 1] + Len(d) /\ \A k \in 1..Len(d) : output[f[i - 1] + k] = d[k]
    BY <1>1, <1>2 DEF WrittenAs
  <1>6. ASSUME NEW i \in 1..n, NEW k \in 1..Len(Text!Escaped(value[i]))
        PROVE  output'[f[i - 1] + k] = Text!Escaped(value[i])[k]
    <2> DEFINE d == Text!Escaped(value[i])
    <2>1. Len(d) \in Nat
      BY <1>2, EscapeFacts
    <2> HIDE DEF d
    <2>2. i - 1 \in 0..n /\ i \in 0..n
      BY <1>2
    <2>3. f[i] = f[i - 1] + Len(d) /\ output[f[i - 1] + k] = d[k]
      BY <1>5, <1>6 DEF d
    <2>4. f[i] \in 1..Len(output) /\ f[i - 1] \in 1..Len(output) /\ k \in 1..Len(d)
      BY <2>2, <1>5 DEF d
    <2>5. f[i - 1] + k \in 1..Len(output)
      BY SMTT(40), <2>1, <2>3, <2>4, <1>4
    <2> QED
      BY <2>3, <2>5, <1>4 DEF d
  <1>7. f \in [0..n -> 1..Len(output')] /\ output'[1] = "quote"
    BY <1>2, <1>4, <1>5
  <1>8. WrittenAs(f)'
    BY <1>2, <1>4, <1>5, <1>6, <1>7 DEF WrittenAs
  <1>9. ReadAs(f)'
    BY <1>1, <1>2 DEF ReadAs, Text!Close
  <1> QED
    BY <1>2, <1>4, <1>8, <1>9 DEF TextInv, TextTypes

\* What comes behind the escapes that were read, when all of the value is written.
LEMMA NextEscape ==
  ASSUME TextTypes, NEW f, WrittenAs(f), done > Len(value), NEW n \in 0..Len(value)
  PROVE  /\ f[n] \in Nat /\ f[n] < Len(output) /\ Len(output) \in Nat /\ Len(value) \in Nat
         /\ n < Len(value) =>
              LET c == value[n + 1]
              IN /\ c \in Text!Bytes
                 /\ f[n + 1] = f[n] + Len(Text!Escaped(c))
                 /\ \A k \in 1..Len(Text!Escaped(c)) : output[f[n] + k] = Text!Escaped(c)[k]
         /\ n = Len(value) => Len(output) = f[n] + 1 /\ output[f[n] + 1] = "quote"
  <1>1. /\ value \in Seq(Text!Bytes) /\ Len(value) \in Nat /\ output \in Seq(Text!Symbols)
        /\ Len(output) \in Nat /\ Escapes = Len(value)
    BY DEF TextTypes, Escapes
  <1>2. f \in [0..Len(value) -> 1..Len(output)]
        /\ Len(output) = f[Len(value)] + 1 /\ output[Len(output)] = "quote"
    BY <1>1 DEF WrittenAs
  <1>3. ASSUME n < Len(value)
        PROVE  LET c == value[n + 1]
               IN /\ c \in Text!Bytes
                  /\ f[n + 1] = f[n] + Len(Text!Escaped(c))
                  /\ \A k \in 1..Len(Text!Escaped(c)) : output[f[n] + k] = Text!Escaped(c)[k]
    <2>1. n + 1 \in 1..Escapes /\ (n + 1) - 1 = n
      BY <1>1, <1>3
    <2> QED
      BY <1>1, <2>1 DEF WrittenAs
  <1>4. f[n] < Len(output)
    <2>1. CASE n = Len(value)
      BY <1>1, <1>2, <2>1
    <2>2. CASE n < Len(value)
      <3>1. f[n + 1] = f[n] + Len(Text!Escaped(value[n + 1])) /\ value[n + 1] \in Text!Bytes
        BY <1>3, <2>2
      <3>2. Len(Text!Escaped(value[n + 1])) \in Nat \ {0}
        BY <3>1, EscapeFacts
      <3>3. n + 1 \in 0..Len(value)
        BY <1>1, <2>2
      <3> QED
        BY <1>1, <1>2, <3>1, <3>2, <3>3
    <2> QED
      BY <1>1, <2>1, <2>2
  <1> QED
    BY <1>1, <1>2, <1>3, <1>4

LEMMA ReadKeeps ==
  ASSUME TextInv, Text!Read
  PROVE  TextInv'
  <1>1. PICK f : WrittenAs(f) /\ ReadAs(f)
    BY DEF TextInv
  <1>2. /\ value' = value /\ done' = done /\ output' = output /\ Escapes' = Escapes
        /\ done > Len(value) /\ pos < Len(output) /\ Escapes = Len(value)
        /\ Len(value) \in Nat /\ Len(output) \in Nat /\ pos \in Nat
        /\ value \in Seq(Text!Bytes)
    BY DEF TextInv, TextTypes, Text!Read, Escapes
  <1>3. WrittenAs(f)' /\ TextTypes
    BY <1>1, <1>2 DEF WrittenAs, TextInv
  <1> DEFINE n == Len(parsed)
             c == value[n + 1]
             e == Text!Escaped(c)
  <1>4. parsed \in Seq(Text!Bytes) /\ n \in 0..Len(value) /\ (\A i \in 1..n : parsed[i] = value[i])
    BY <1>1, <1>2 DEF ReadAs
  <1>5. /\ f[n] \in Nat /\ f[n] < Len(output)
        /\ n < Len(value) => /\ c \in Text!Bytes
                             /\ f[n + 1] = f[n] + Len(e)
                             /\ \A k \in 1..Len(e) : output[f[n] + k] = e[k]
        /\ n = Len(value) => Len(output) = f[n] + 1 /\ output[f[n] + 1] = "quote"
    BY <1>1, <1>2, <1>3, <1>4, NextEscape
  <1>6. ASSUME n < Len(value)
        PROVE  /\ Append(parsed, c) \in Seq(Text!Bytes) /\ Len(Append(parsed, c)) = n + 1
               /\ \A i \in 1..n + 1 : Append(parsed, c)[i] = value[i]
    BY <1>4, <1>5, <1>6
  <1>7. CASE Text!Open
    <2>1. f[0] = 1 /\ state = "outside" /\ pos = 0 /\ parsed = <<>> /\ parsed' = <<>>
          /\ state' = "inside" /\ pos' = 1
      BY <1>1, <1>7 DEF Text!Open, Text!Take, ReadAs, WrittenAs
    <2>2. ReadAs(f)'
      BY <1>2, <1>4, <2>1 DEF ReadAs
    <2> QED
      BY <1>2, <1>3, <2>1, <2>2 DEF TextInv, TextTypes
  <1>8. CASE Text!ReadPlain
    <2>1. state = "inside" /\ pos = f[n] /\ pos' = f[n] + 1 /\ Text!Symbol = output[f[n] + 1]
      BY <1>1, <1>8 DEF ReadAs, Text!ReadPlain, Text!Symbol
    <2>2. CASE n = Len(value)
      <3>1. state' = "closed" /\ parsed' = parsed
        BY <1>5, <1>8, <2>1, <2>2 DEF Text!ReadPlain, Text!Take
      <3>2. parsed = value
        BY <1>2, <1>4, <2>2
      <3>3. ReadAs(f)'
        BY <1>2, <1>4, <1>5, <2>1, <2>2, <3>1, <3>2 DEF ReadAs
      <3> QED
        BY <1>2, <1>3, <1>5, <2>1, <3>3 DEF TextInv, TextTypes
    <2>3. CASE n < Len(value) /\ c \in Text!Short \cup Text!Control
      <3>1. Text!Symbol = "backslash"
        BY <1>5, <2>1, <2>3, EscapeFacts
      <3>2. state' = "escape" /\ parsed' = parsed
        BY <1>8, <3>1 DEF Text!ReadPlain, Text!Take
      <3>3. ReadAs(f)'
        BY <1>2, <1>4, <2>1, <2>3, <3>2 DEF ReadAs
      <3> QED
        BY <1>2, <1>3, <1>5, <2>1, <3>3 DEF TextInv, TextTypes
    <2>4. CASE n < Len(value) /\ c \notin Text!Short \cup Text!Control
      <3>1. Text!Symbol = c /\ c \in Text!Bytes /\ f[n + 1] = f[n] + 1
        BY <1>5, <2>1, <2>4, EscapeFacts
      <3>2. c \notin {"backslash", "quote"}
        BY <2>4 DEF Text!Short
      <3>3. state' = "inside" /\ parsed' = Append(parsed, c)
        BY <1>8, <2>4, <3>1, <3>2 DEF Text!ReadPlain, Text!Take
      <3>4. n + 1 <= Len(value)
        BY <1>2, <1>4, <2>4
      <3>5. ReadAs(f)'
        BY <1>2, <1>4, <1>6, <2>1, <2>4, <3>1, <3>3, <3>4 DEF ReadAs
      <3> QED
        BY <1>2, <1>3, <1>5, <2>1, <3>5 DEF TextInv, TextTypes
    <2> QED
      BY <1>2, <1>4, <2>2, <2>3, <2>4
  <1>9. CASE Text!ReadEscape
    <2>1. /\ state = "escape" /\ pos = f[n] + 1 /\ Text!Symbol = output[f[n] + 2]
          /\ output[pos + 2] = output[f[n] + 3]
          /\ n < Len(value) /\ c \in Text!Short \cup Text!Control
      BY SMTT(40), <1>1, <1>5, <1>9 DEF ReadAs, Text!ReadEscape, Text!Symbol
    <2>2. CASE c \in Text!Short
      <3>1. Text!Symbol = Text!Letter[c] /\ f[n + 1] = f[n] + 2 /\ c \in Text!Bytes
        <4>1. c \in Text!Bytes /\ Len(e) = 2 /\ e[2] = Text!Letter[c] /\ 2 \in 1..2
          BY <1>5, <2>1, <2>2, EscapeFacts
        <4> QED
          BY <1>5, <2>1, <4>1
      <3>2. (CHOOSE d \in Text!Short : Text!Letter[d] = Text!Symbol) = c
        BY <2>2, <3>1, LettersDiffer
      <3>3. state' = "inside" /\ parsed' = Append(parsed, c) /\ pos' = f[n + 1]
        <4>1. (\E d \in Text!Short : Text!Letter[d] = Text!Symbol) /\ f[n] + 1 + 1 = f[n] + 2
          BY <1>5, <2>2, <3>1
        <4> HIDE DEF n, c
        <4> QED
          BY <1>9, <2>1, <3>1, <3>2, <4>1 DEF Text!ReadEscape, Text!Take
      <3>4. n + 1 <= Len(value) /\ f[n + 1] \in Nat
        BY SMTT(40), <1>2, <1>4, <1>5, <2>1, <3>1
      <3>5. ReadAs(f)'
        BY <1>2, <1>4, <1>6, <2>1, <3>3, <3>4 DEF ReadAs
      <3> QED
        BY <1>2, <1>3, <3>3, <3>4, <3>5 DEF TextInv, TextTypes
    <2>3. CASE c \in Text!Control
      <3>1. /\ Text!Symbol = "letter_u" /\ output[pos + 2] = Text!Hex[c]
            /\ f[n + 1] = f[n] + 3 /\ c \in Text!Bytes
        <4>1. /\ c \in Text!Bytes /\ Len(e) = 3 /\ e[2] = "letter_u" /\ e[3] = Text!Hex[c]
              /\ 2 \in 1..3 /\ 3 \in 1..3
          BY SMTT(40), <1>5, <2>1, <2>3, EscapeFacts
        <4> QED
          BY <1>5, <2>1, <4>1
      <3>2. (CHOOSE d \in Text!Control : output[pos + 2] = Text!Hex[d]) = c
        BY <2>3, <3>1, LettersDiffer
      <3>3. ~\E d \in Text!Short : Text!Letter[d] = Text!Symbol
        BY <3>1, LettersDiffer
      <3>4. state' = "inside" /\ parsed' = Append(parsed, c) /\ pos' = f[n + 1]
        <4>1. (\E d \in Text!Control : output[pos + 2] = Text!Hex[d]) /\ f[n] + 1 + 2 = f[n] + 3
          BY <1>5, <2>3, <3>1
        <4> HIDE DEF n, c
        <4> QED
          BY <1>9, <2>1, <3>1, <3>2, <3>3, <4>1 DEF Text!ReadEscape, Text!Take
      <3>5. n + 1 <= Len(value) /\ f[n + 1] \in Nat
        BY SMTT(40), <1>2, <1>4, <1>5, <2>1, <3>1
      <3>6. ReadAs(f)'
        BY <1>2, <1>4, <1>6, <2>1, <3>4, <3>5 DEF ReadAs
      <3> QED
        BY <1>2, <1>3, <3>4, <3>5, <3>6 DEF TextInv, TextTypes
    <2> QED
      BY <2>1, <2>2, <2>3
  <1>10. CASE Text!ReadBehind
    BY <1>1, <1>2, <1>10 DEF ReadAs, Text!ReadBehind
  <1> QED
    BY <1>7, <1>8, <1>9, <1>10 DEF Text!Read

LEMMA TextStays ==
  ASSUME TextInv, UNCHANGED ofText
  PROVE  TextInv'
  BY ZenonT(60) DEF TextInv, TextTypes, WrittenAs, ReadAs, Escapes, ofText

LEMMA TextMeans ==
  ASSUME TextInv
  PROVE  Text!TypeOK /\ Text!RoundTrip /\ Text!ParsedIsPrefix
  <1>1. PICK f : WrittenAs(f) /\ ReadAs(f)
    BY DEF TextInv
  <1>2. TextTypes /\ Len(value) \in Nat /\ Len(output) \in Nat /\ Escapes <= Len(value)
    BY DEF TextInv, TextTypes, Escapes
  <1>3. parsed \in Seq(Text!Bytes) /\ Len(parsed) \in 0..Len(value)
        /\ (\A i \in 1..Len(parsed) : parsed[i] = value[i])
    BY <1>1, <1>2 DEF ReadAs, Escapes, TextTypes
  <1>4. done > Len(value) => f[Len(parsed)] \in Nat /\ f[Len(parsed)] < Len(output)
    BY <1>1, <1>2, <1>3, NextEscape
  <1>5. state = "inside" => pos < Len(output)
    BY <1>1, <1>4 DEF ReadAs
  <1>6. state = "escape" => pos < Len(output)
    <2> SUFFICES ASSUME state = "escape"
                 PROVE  pos < Len(output)
      OBVIOUS
    <2>1. /\ done > Len(value) /\ Len(parsed) < Len(value) /\ pos = f[Len(parsed)] + 1
          /\ value[Len(parsed) + 1] \in Text!Short \cup Text!Control
      BY <1>1 DEF ReadAs
    <2>2. f[Len(parsed) + 1] = f[Len(parsed)] + Len(Text!Escaped(value[Len(parsed) + 1]))
          /\ value[Len(parsed) + 1] \in Text!Bytes
      BY <1>1, <1>2, <1>3, <2>1, NextEscape
    <2>3. Len(Text!Escaped(value[Len(parsed) + 1])) \in Nat
          /\ Len(Text!Escaped(value[Len(parsed) + 1])) >= 2
      BY <2>1, <2>2, EscapeFacts
    <2>4. Len(parsed) + 1 \in 0..Len(value)
      BY <1>2, <1>3, <2>1
    <2>5. f[Len(parsed) + 1] < Len(output)
      BY <1>1, <1>2, <2>1, <2>4, NextEscape
    <2>6. f[Len(parsed)] \in Nat /\ f[Len(parsed) + 1] \in Nat
      BY <1>1, <1>2, <1>4, <2>1, <2>4, NextEscape
    <2>7. f[Len(parsed) + 1] > f[Len(parsed)] + 1
      BY <2>2, <2>3, <2>6
    <2> QED
      BY <1>2, <2>1, <2>5, <2>6, <2>7
  <1>7. Text!TypeOK
    <2>1. pos \in 0..Len(output)
      BY <1>1, <1>2, <1>5, <1>6 DEF ReadAs, TextTypes
    <2> QED
      BY <1>1, <1>2, <1>3, <2>1 DEF Text!TypeOK, TextTypes, ReadAs
  <1>8. Text!RoundTrip
    <2>1. state = "outside" /\ done > Len(value) => pos # Len(output)
      BY <1>1, <1>2, <1>4 DEF ReadAs
    <2> QED
      BY <1>1, <1>2, <1>5, <1>6, <2>1 DEF Text!RoundTrip, ReadAs
  <1>9. Text!ParsedIsPrefix
    BY <1>1, <1>2, <1>3 DEF Text!ParsedIsPrefix, ReadAs
  <1> QED
    BY <1>7, <1>8, <1>9

LEMMA TextStep ==
  ASSUME TextInv, Text!Next
  PROVE  TextInv'
  <1>1. Text!Finished => UNCHANGED ofText
    BY DEF Text!Finished, Text!vars, ofText
  <1> QED
    BY <1>1, EscapeKeeps, CloseKeeps, ReadKeeps, TextStays DEF Text!Next

(***************************************************************************)
(* The query.                                                              *)
(***************************************************************************)

QueryInv == IInv /\ Replied /\ text \in Texts /\ changes \in 0..MaxChanges

LEMMA QueryStart ==
  ASSUME Init
  PROVE  QueryInv
  <1>1. changes \in 0..MaxChanges
    BY QueryAssumption DEF Init
  <1> QED
    BY <1>1, InitInv, RepliedFirst DEF Init, QueryInv

LEMMA QueryStep ==
  ASSUME QueryInv, [Next]_vars
  PROVE  QueryInv'
  <1>1. IInv' /\ Replied'
    BY Inductive, RepliedKept DEF QueryInv
  <1>2. text' = text
    BY DEF Next, Lookup, Build, Send, ChangeTable, Done, vars
  <1>3. changes' \in 0..MaxChanges
    <2>1. changes' = changes \/ (changes < MaxChanges /\ changes' = changes + 1)
      BY DEF Next, Lookup, Build, Send, ChangeTable, Done, vars
    <2> QED
      BY <2>1, QueryAssumption DEF QueryInv
  <1> QED
    BY <1>1, <1>2, <1>3 DEF QueryInv

LEMMA QueryMeans ==
  ASSUME QueryInv
  PROVE  TypeOK
  BY TypedFrom DEF QueryInv


(***************************************************************************)
(* All parts.                                                              *)
(***************************************************************************)

AnswerInv ==
  \/ part = "query" /\ QueryInv
  \/ part = "nodes" /\ NodesInv
  \/ part = "edges" /\ EdgesInv
  \/ part = "text"  /\ TextInv

\* The inductive invariant, of whichever part it is.
THEOREM AnswerInvariance == AnswerSpec => []AnswerInv
  <1>1. AnswerInit => AnswerInv
    BY QueryStart, NodesStart, EdgesStart, TextStart DEF AnswerInit, AnswerInv
  <1>2. ASSUME AnswerInv, [AnswerNext]_allVars
        PROVE  AnswerInv'
    <2>1. CASE part = "query" /\ QueryInv
      <3>1. part' = part /\ [Next]_vars
        BY <1>2, <2>1 DEF AnswerNext, allVars
      <3> QED
        BY <2>1, <3>1, QueryStep DEF AnswerInv
    <2>2. CASE part = "nodes" /\ NodesInv
      <3>1. part' = part /\ (Nodes!Next \/ UNCHANGED <<ofRecords, ofNodes>>)
        BY <1>2, <2>2 DEF AnswerNext, allVars
      <3> QED
        BY <2>2, <3>1, NodesStep, NodesStay DEF AnswerInv
    <2>3. CASE part = "edges" /\ EdgesInv
      <3>1. part' = part /\ (Edges!Next \/ UNCHANGED <<ofRecords, links>>)
        BY <1>2, <2>3 DEF AnswerNext, allVars
      <3> QED
        BY <2>3, <3>1, EdgesStep, EdgesStay DEF AnswerInv
    <2>4. CASE part = "text" /\ TextInv
      <3>1. part' = part /\ (Text!Next \/ UNCHANGED ofText)
        BY <1>2, <2>4 DEF AnswerNext, allVars
      <3> QED
        BY <2>4, <3>1, TextStep, TextStays DEF AnswerInv
    <2> QED
      BY <1>2, <2>1, <2>2, <2>3, <2>4 DEF AnswerInv
  <1> QED
    BY <1>1, <1>2, PTL DEF AnswerSpec

\* Nodes, links and texts are what the rows and the values say, wherever the
\* connection ended (cpp:222-239 and 264-276, worker.js:67-128).
THEOREM Decodes == AnswerSpec => []DecodesToRows
  <1>1. AnswerInv => DecodesToRows
    BY QueryMeans, NodesMean, EdgesMean, TextMeans DEF AnswerInv, DecodesToRows
  <1> QED
    BY <1>1, AnswerInvariance, PTL

\* One colour for each category, different ones for different categories while they
\* last, and grey for the first row's (cpp:200-216, worker.js:91-109).
THEOREM Coloured == AnswerSpec => []ColorsOfCategories
  <1>1. AnswerInv => ColorsOfCategories
    BY NodesMean DEF AnswerInv, ColorsOfCategories
  <1> QED
    BY <1>1, AnswerInvariance, PTL

=============================================================================

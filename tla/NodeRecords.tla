----------------------------- MODULE NodeRecords -----------------------------
(***************************************************************************)
(* The body of /data/nodes_binary, from the rows of the query to the nodes *)
(* of the page: the server packs each row into five words of four bytes    *)
(* and numbers the categories of colours (FastColorMap); the connection    *)
(* may end behind any byte; the data worker cuts the bytes into records    *)
(* and gives each category a colour of its palette.                        *)
(*                                                                         *)
(* Of a row only the category matters; a word says which field of which    *)
(* row it holds.  That a body may be cut is StreamResponse's result, which *)
(* rows are packed is DataQuery's.                                         *)
(***************************************************************************)
EXTENDS Naturals, Sequences, FiniteSets

CONSTANTS
  Categories,   \* texts of the column color, the empty one for NULL among them
  MaxRows,      \* bound: rows of the result
  Palette,      \* colours of the page's palette (19)
  FloatMax      \* 2^24: a 32-bit float plus one is the same float from here on

Fields == <<"x", "y", "size", "color", "id">>
Word   == [field : {"x", "y", "size", "color", "id", "count"}, val : Nat]

WordBytes   == 4
RecordBytes == 20

VARIABLES
  configured,  \* serve_graph was given a query
  rows,        \* the category of each row of the result
  numbers,     \* FastColorMap::map
  nextVal,     \* FastColorMap::next_val
  packed,      \* rows packed so far
  words,       \* the body
  phase,       \* "packing", "sent", "cut" (received) or "decoded"
  bytes,       \* bytes that the worker has received
  result,      \* "none", "nodes", "empty" (no records) or "error"
  nodes        \* the nodes the worker has made

vars == <<configured, rows, numbers, nextVal, packed, words, phase, bytes, result, nodes>>

Init ==
  /\ configured \in BOOLEAN
  /\ rows \in UNION {[1..n -> Categories] : n \in 0..MaxRows}
  /\ ~configured => rows = <<>>
  /\ numbers = [c \in {} |-> 0]
  /\ nextVal = 0
  /\ packed = 0
  /\ words = <<>>
  /\ phase = "packing"
  /\ bytes = 0
  /\ result = "none"
  /\ nodes = <<>>

(***************************************************************************)
(* The server.                                                             *)
(***************************************************************************)

\* next_val++ on a float.
Incremented(v) == IF v < FloatMax THEN v + 1 ELSE v

\* Mutant of Insert: the number is not remembered.
InsertsNothing(c) ==
  /\ numbers' = numbers
  /\ nextVal' = IF c \in DOMAIN numbers THEN nextVal ELSE Incremented(nextVal)

NumberOf(c) == IF c \in DOMAIN numbers THEN numbers[c] ELSE nextVal

Insert(c) ==
  IF c \in DOMAIN numbers
  THEN UNCHANGED <<numbers, nextVal>>
  ELSE /\ numbers' = [d \in DOMAIN numbers \cup {c} |-> IF d = c THEN nextVal ELSE numbers[d]]
       /\ nextVal' = Incremented(nextVal)

\* Mutant of Record: colour and id in the wrong order.
RecordSwapped(i, number) ==
  << [field |-> "x", val |-> i], [field |-> "y", val |-> i], [field |-> "size", val |-> i],
     [field |-> "id", val |-> i], [field |-> "color", val |-> number] >>

Record(i, number) ==
  << [field |-> "x", val |-> i], [field |-> "y", val |-> i], [field |-> "size", val |-> i],
     [field |-> "color", val |-> number], [field |-> "id", val |-> i] >>

\* One turn of the loop over a chunk; the words of a chunk are written together.
PackRow ==
  /\ phase = "packing"
  /\ packed < Len(rows)
  /\ LET c == rows[packed + 1]
     IN /\ words' = words \o Record(packed + 1, NumberOf(c))
        /\ Insert(c)
  /\ packed' = packed + 1
  /\ UNCHANGED <<configured, rows, phase, bytes, result, nodes>>

EndOfRows ==
  /\ phase = "packing"
  /\ packed = Len(rows)
  /\ words' = IF configured THEN words ELSE <<[field |-> "count", val |-> 0]>>
  /\ phase' = "sent"
  /\ UNCHANGED <<configured, rows, numbers, nextVal, packed, bytes, result, nodes>>

(***************************************************************************)
(* The connection: what arrives is a beginning of what was sent.           *)
(***************************************************************************)

Receive ==
  /\ phase = "sent"
  /\ bytes' \in 0..WordBytes * Len(words)
  /\ phase' = "cut"
  /\ UNCHANGED <<configured, rows, numbers, nextVal, packed, words, result, nodes>>

(***************************************************************************)
(* The data worker.                                                        *)
(***************************************************************************)

\* floatView[i * 5 + k], with i and k counted from one.
View(i, k) == words[(i - 1) * 5 + k]

Count == bytes \div RecordBytes

\* The palette's next colour for each category that is new, in the order of the
\* records; category 0 is false in JavaScript and gets the grey (0 here).
Before(i)  == {View(j, 4).val : j \in 1..i - 1}
FirstOf(n) == CHOOSE i \in 1..Count : View(i, 4).val = n /\ n \notin Before(i)

ColorOf(n) == IF n = 0 THEN 0 ELSE (Cardinality(Before(FirstOf(n)) \ {0}) % Palette) + 1

NodeAt(i) ==
  [x |-> View(i, 1), y |-> View(i, 2), size |-> View(i, 3),
   color |-> ColorOf(View(i, 4).val), id |-> View(i, 5)]

\* An empty body and one without a whole record are the empty graph; Float32Array
\* throws on a length that is not a multiple of four.
Decode ==
  /\ phase = "cut"
  /\ phase' = "decoded"
  /\ IF Count = 0
     THEN result' = "empty" /\ nodes' = <<>>
     ELSE IF bytes % WordBytes # 0
     THEN result' = "error" /\ nodes' = <<>>
     ELSE result' = "nodes" /\ nodes' = [i \in 1..Count |-> NodeAt(i)]
  /\ UNCHANGED <<configured, rows, numbers, nextVal, packed, words, bytes>>

Done == phase = "decoded" /\ UNCHANGED vars

Next == PackRow \/ EndOfRows \/ Receive \/ Decode \/ Done

(***************************************************************************)
(* Properties.                                                             *)
(***************************************************************************)

TypeOK ==
  /\ configured \in BOOLEAN
  /\ rows \in Seq(Categories)
  /\ DOMAIN numbers \subseteq Categories /\ \A c \in DOMAIN numbers : numbers[c] \in Nat
  /\ nextVal \in 0..FloatMax
  /\ packed \in 0..Len(rows)
  /\ words \in Seq(Word)
  /\ phase \in {"packing", "sent", "cut", "decoded"}
  /\ bytes \in 0..WordBytes * Len(words)
  /\ result \in {"none", "nodes", "empty", "error"}
  /\ nodes \in Seq([x : Word, y : Word, size : Word, color : 0..Palette, id : Word])

\* Wherever the connection ended, the nodes are the first rows of the result, each
\* field its own, and all rows of which every byte has arrived.
NodesAreRows ==
  /\ Len(nodes) <= Len(rows)
  /\ result = "nodes" => Len(nodes) = Count
  /\ \A i \in 1..Len(nodes) :
       /\ nodes[i].x = [field |-> "x", val |-> i]
       /\ nodes[i].y = [field |-> "y", val |-> i]
       /\ nodes[i].size = [field |-> "size", val |-> i]
       /\ nodes[i].id = [field |-> "id", val |-> i]

\* The server numbers categories across all chunks and the page numbers them again:
\* one category has one colour.
OneColorPerCategory ==
  \A i, j \in 1..Len(nodes) : rows[i] = rows[j] => nodes[i].color = nodes[j].color

\* While the palette and the floats last, different categories differ.
ColorsApart ==
  LET shown == {rows[i] : i \in 1..Len(nodes)}
  IN (Cardinality(shown) <= Palette + 1 /\ Cardinality(shown) <= FloatMax + 1) =>
       \A i, j \in 1..Len(nodes) : rows[i] # rows[j] => nodes[i].color # nodes[j].color

\* Grey, the page's colour for no category, is the category of the first row, be it
\* the empty one or not.
GreyIsTheFirst ==
  \A i \in 1..Len(nodes) : nodes[i].color = 0 <=> rows[i] = rows[1]
=============================================================================

----------------------------- MODULE EdgeRecords -----------------------------
(***************************************************************************)
(* The body of /data/edges_binary, from the rows of the query to the links *)
(* of the page: the ends of an edge are cast to 32-bit floats and packed   *)
(* into two words; the connection may end behind any byte; the data worker *)
(* takes the bytes for an array of floats, or does without edges.          *)
(***************************************************************************)
EXTENDS Naturals, Sequences, FiniteSets

CONSTANTS
  Ids,        \* ends of edges
  MaxRows,    \* bound: rows of the result
  Exact,      \* 2^24: up to here every natural number is a 32-bit float
  Null        \* the SQL NULL

Ends == Ids \cup {Null}
Edge == [source : Ends, target : Ends]

VARIABLES
  configured,  \* serve_graph was given a query for edges
  rows,        \* the rows of that query
  packed,      \* rows packed or passed over so far
  words,       \* the body
  phase,       \* "packing", "sent", "cut" (received) or "decoded"
  bytes,       \* bytes that the worker has received
  links        \* the floats that it gives to the page; empty for edges = null

vars == <<configured, rows, packed, words, phase, bytes, links>>

Init ==
  /\ configured \in BOOLEAN
  /\ rows \in UNION {[1..n -> Edge] : n \in 0..MaxRows}
  /\ ~configured => rows = <<>>
  /\ packed = 0
  /\ words = <<>>
  /\ phase = "packing"
  /\ bytes = 0
  /\ links = <<>>

\* CAST(... AS FLOAT): the nearest float, in a tie the one with the even mantissa.
Float(n) ==
  IF n <= Exact \/ n % 2 = 0 THEN n
  ELSE IF ((n - 1) \div 2) % 2 = 0 THEN n - 1 ELSE n + 1

\* WHERE source IS NOT NULL AND target IS NOT NULL
Whole(e) == e.source # Null /\ e.target # Null

PackRow ==
  /\ phase = "packing"
  /\ packed < Len(rows)
  /\ LET e == rows[packed + 1]
     IN words' = IF Whole(e) THEN words \o <<Float(e.source), Float(e.target)>> ELSE words
  /\ packed' = packed + 1
  /\ UNCHANGED <<configured, rows, phase, bytes, links>>

\* Without a query the body is the number zero.
EndOfRows ==
  /\ phase = "packing"
  /\ packed = Len(rows)
  /\ words' = IF configured THEN words ELSE <<0>>
  /\ phase' = "sent"
  /\ UNCHANGED <<configured, rows, packed, bytes, links>>

Receive ==
  /\ phase = "sent"
  /\ bytes' \in 0..4 * Len(words)
  /\ phase' = "cut"
  /\ UNCHANGED <<configured, rows, packed, words, links>>

\* Less than one edge is none, and Float32Array throws on a length that is not a
\* multiple of four: the graph is then drawn without edges.
Enough == bytes >= 8

Decode ==
  /\ phase = "cut"
  /\ phase' = "decoded"
  /\ links' = IF Enough /\ bytes % 4 = 0 THEN SubSeq(words, 1, bytes \div 4) ELSE <<>>
  /\ UNCHANGED <<configured, rows, packed, words, bytes>>

Done == phase = "decoded" /\ UNCHANGED vars

Next == PackRow \/ EndOfRows \/ Receive \/ Decode \/ Done

(***************************************************************************)
(* Properties.                                                             *)
(***************************************************************************)

TypeOK ==
  /\ configured \in BOOLEAN
  /\ rows \in Seq(Edge)
  /\ packed \in 0..Len(rows)
  /\ words \in Seq(0..2 * Exact)
  /\ phase \in {"packing", "sent", "cut", "decoded"}
  /\ bytes \in 0..4 * Len(words)
  /\ links \in Seq(0..2 * Exact)

\* The rows that have both ends, and how many of them there are up to row r.
BothEnds == {r \in 1..Len(rows) : rows[r].source # Null /\ rows[r].target # Null}
Rank(r)  == Cardinality(BothEnds \cap 1..r)

Near(f, n) == f \in {n - 1, n, n + 1} /\ (n <= Exact => f = n)

\* Link k joins the ends of the k-th edge that has both, as near as a float comes;
\* up to 2^24 it names them exactly; and there are no other links.
LinksJoinTheirEnds ==
  /\ Len(links) \div 2 <= Cardinality(BothEnds)
  /\ \A r \in BothEnds :
       2 * Rank(r) <= Len(links) =>
         Near(links[2 * Rank(r) - 1], rows[r].source) /\ Near(links[2 * Rank(r)], rows[r].target)

\* An answer without edges, or one cut before the first whole edge, draws none.
NoEdgesNoLinks == (~configured \/ bytes < 8) => links = <<>>

\* The worker counts whole edges, but what it hands on may end in half an edge, and
\* only when the connection was cut inside one.
HalfOnlyWhenCut ==
  Len(links) % 2 = 1 => bytes < 4 * Len(words) /\ bytes % 8 = 4
=============================================================================

------------------------------ MODULE DataAnswer ------------------------------
(***************************************************************************)
(* From a data request to what the browser has of it: which rows the two   *)
(* handlers for nodes select (DataQuery, extended here), how the rows of   *)
(* nodes and edges are packed and read again (NodeRecords, EdgeRecords),   *)
(* and how a text gets into JSON and out of it (EscapeJSON).               *)
(*                                                                         *)
(* The parts are checked one at a time, each on inputs of its own: part is *)
(* chosen at first, and the variables of the other parts stay as they are. *)
(***************************************************************************)
EXTENDS DataQuery, Sequences

CONSTANTS
  Categories, MaxNodes, Palette, FloatMax,  \* of NodeRecords
  Ids, MaxEdges, Exact,                     \* of EdgeRecords
  MaxLength                                 \* of EscapeJSON

\* Twice Exact is the end of the next binade, where floats are two apart.
ASSUME AnswerAssumption ==
  /\ MaxNodes \in Nat /\ Palette \in Nat \ {0} /\ FloatMax \in Nat \ {0}
  /\ Exact \in Nat \ {0} /\ MaxEdges \in Nat
  /\ Ids \subseteq 0..2 * Exact
  /\ MaxLength \in Nat

VARIABLES
  part,                                                \* "query", "nodes", "edges" or "text"
  configured, rows, packed, words, phase, bytes,       \* of both kinds of records
  numbers, nextVal, result, nodes,                     \* of NodeRecords
  links,                                               \* of EdgeRecords
  value, done, output, pos, state, parsed              \* of EscapeJSON

ofRecords == <<configured, rows, packed, words, phase, bytes>>
ofNodes   == <<numbers, nextVal, result, nodes>>
ofText    == <<value, done, output, pos, state, parsed>>

allVars == <<part, vars, ofRecords, ofNodes, links, ofText>>

Nodes == INSTANCE NodeRecords WITH MaxRows <- MaxNodes
Edges == INSTANCE EdgeRecords WITH MaxRows <- MaxEdges
Text  == INSTANCE EscapeJSON

NoQuery   == /\ text = "none" /\ params = NoBounds /\ table = NoTable /\ changes = 0
             /\ pc = [h \in Handlers |-> "lookup"] /\ cols = [h \in Handlers |-> {}]
             /\ clause = [h \in Handlers |-> NoBounds] /\ asked = [h \in Handlers |-> 0]
             /\ answer = [h \in Handlers |-> NoAnswer]
             /\ queried = [h \in Handlers |-> NoTable]
NoRecords == /\ configured = FALSE /\ rows = <<>> /\ packed = 0 /\ words = <<>>
             /\ phase = "none" /\ bytes = 0
NoNodes   == numbers = <<>> /\ nextVal = 0 /\ result = "none" /\ nodes = <<>>
NoLinks   == links = <<>>
NoText    == /\ value = <<>> /\ done = 0 /\ output = <<>> /\ pos = 0
             /\ state = "none" /\ parsed = <<>>

AnswerInit ==
  \/ part = "query" /\ Init /\ NoRecords /\ NoNodes /\ NoLinks /\ NoText
  \/ part = "nodes" /\ Nodes!Init /\ NoQuery /\ NoLinks /\ NoText
  \/ part = "edges" /\ Edges!Init /\ NoQuery /\ NoNodes /\ NoText
  \/ part = "text"  /\ Text!Init /\ NoQuery /\ NoRecords /\ NoNodes /\ NoLinks

AnswerNext ==
  \/ part = "query" /\ Next /\ UNCHANGED <<part, ofRecords, ofNodes, links, ofText>>
  \/ part = "nodes" /\ Nodes!Next /\ UNCHANGED <<part, vars, links, ofText>>
  \/ part = "edges" /\ Edges!Next /\ UNCHANGED <<part, vars, ofNodes, ofText>>
  \/ part = "text"  /\ Text!Next /\ UNCHANGED <<part, vars, ofRecords, ofNodes, links>>

AnswerSpec == AnswerInit /\ [][AnswerNext]_allVars

-----------------------------------------------------------------------------
(***************************************************************************)
(* Properties, besides those of DataQuery.                                 *)
(***************************************************************************)

\* Wherever the connection ended, what the browser reads is a beginning of what was
\* sent: whole nodes with each field its own, links between the ends of their
\* edges, half a link only of a cut body, and a text that its own quotation marks
\* and backslashes neither end nor change.
DecodesToRows ==
  CASE part = "query" -> TypeOK
    [] part = "nodes" -> Nodes!TypeOK /\ Nodes!NodesAreRows
    [] part = "edges" -> Edges!TypeOK /\ Edges!LinksJoinTheirEnds /\ Edges!NoEdgesNoLinks
                           /\ Edges!HalfOnlyWhenCut
    [] part = "text"  -> Text!TypeOK /\ Text!RoundTrip /\ Text!ParsedIsPrefix

\* The server numbers categories and the page numbers them again: a category keeps
\* one colour, categories differ as long as the palette and the floats last, and
\* the first row's is the grey one.
ColorsOfCategories ==
  part = "nodes" => Nodes!OneColorPerCategory /\ Nodes!ColorsApart /\ Nodes!GreyIsTheFirst

=============================================================================

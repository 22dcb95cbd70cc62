------------------------------ MODULE DataQuery ------------------------------
(***************************************************************************)
(* What the two handlers for nodes ask of the database: how the query that *)
(* serve_graph was given is wrapped, which columns the look-up finds, how  *)
(* the bounds of the viewport become a WHERE clause, and which rows the    *)
(* answer then has.  Both handlers answer the same request, each with a    *)
(* look-up and a query of its own, while other connections create, alter   *)
(* and drop the table behind the query.                                    *)
(*                                                                         *)
(* The coordinates are columns of type DOUBLE or FLOAT.  Both they and the *)
(* bounds are numbers of fine units; a DOUBLE is any of them, exactly, and *)
(* a FLOAT (REAL) one of the coarser Reals.  Only the binary handler casts *)
(* what it selects, x, y and size to REAL and id to UINTEGER: its casts    *)
(* round, and the cast of a row may fail while the query runs.             *)
(*                                                                         *)
(* How an answer is streamed is StreamResponse's matter, how a row is      *)
(* packed NodeRecords'.                                                    *)
(***************************************************************************)
EXTENDS Integers, FiniteSets

CONSTANTS
  Tables,             \* what others may put behind the query
  XParams, YParams,   \* values of the request's parameters, Bad ones included
  Reals,              \* the numbers that are REALs, in fine units
  Unit,               \* fine units in 0.000001, the precision of std::to_string
  Null,               \* the SQL NULL
  Bad,                \* a parameter that is not a number
  NotFinite,          \* "nan" or "inf", which are numbers for std::stod
  Texts,              \* what serve_graph may be given
  MaxChanges          \* bound: changes of the table by others

\* A coordinate that the table does not have is Null in its rows.  The CASTs of the
\* binary query take a row (casts) or fail on its id, size or coordinates.
WellFormed(t) ==
  /\ t = [columns |-> t.columns, floats |-> t.floats, rows |-> t.rows, there |-> TRUE]
  /\ t.columns \subseteq {"x", "y"} /\ t.floats \subseteq t.columns
  /\ \A r \in t.rows :
       /\ r = [x |-> r.x, y |-> r.y, casts |-> r.casts] /\ r.casts \in BOOLEAN
       /\ \A c \in {"x", "y"} :
            /\ r[c] \in Int \cup {Null}
            /\ c \notin t.columns => r[c] = Null
            /\ c \in t.floats => r[c] \in Reals \cup {Null}

ASSUME QueryAssumption ==
  /\ XParams \subseteq Int \cup {Bad, NotFinite}
  /\ YParams \subseteq Int \cup {Bad, NotFinite}
  /\ Reals \subseteq Int /\ Reals # {}
  /\ Unit \in Nat \ {0} /\ MaxChanges \in Nat
  /\ Null \notin Int /\ Bad \notin Int \cup {NotFinite} /\ NotFinite \notin Int
  /\ Texts \subseteq {"table", "table_named_select", "file", "select", "with", "with_newline"}
  /\ \A t \in Tables : WellFormed(t)

Handlers == {"binary", "json"}

(***************************************************************************)
(* The text that serve_graph was given.                                    *)
(***************************************************************************)

\* A text stands for its kind: the name of a table (one may begin with "select") or
\* file, or a query that begins with SELECT or WITH.
IsQuery(text) == text \in {"select", "with", "with_newline"}

\* Blanks are skipped and the first six letters put into upper case.
LooksLikeQuery(text) == text \in {"table_named_select", "select", "with"}

\* "(text) AS __t" for a query, "(SELECT * FROM text) AS __t" for the rest.
WrapQuery(text) == IF LooksLikeQuery(text) THEN "as_query" ELSE "as_table"

\* The database's parser takes only what fits.
Parses(text) == WrapQuery(text) = IF IsQuery(text) THEN "as_query" ELSE "as_table"

VARIABLES
  text,      \* nodes_query
  params,    \* the request's parameters that are there
  table,     \* what the query rests on: its columns and its rows, or NoTable
  changes,   \* changes of the table so far
  pc,        \* where each handler is
  cols,      \* the columns its look-up has found
  clause,    \* the bounds in its SQL, or NoBounds
  answer,    \* its answer
  asked,     \* history: the value of changes when it looked the columns up
  queried    \* history: the table its query was run on

vars == <<text, params, table, changes, pc, cols, clause, answer, asked, queried>>

Bounds    == {"min_x", "max_x", "min_y", "max_y"}
NoTable   == [columns |-> {}, floats |-> {}, rows |-> {}, there |-> FALSE]
NoBounds  == [p \in {} |-> 0]
NoAnswer  == [status |-> 0, rows |-> {}, failed |-> FALSE]

Refused(s) == [status |-> s, rows |-> {}, failed |-> FALSE]

Params == UNION {[d -> XParams \cup YParams] : d \in SUBSET Bounds}
WellTyped(q) ==
  \A p \in DOMAIN q : q[p] \in IF p \in {"min_x", "max_x"} THEN XParams ELSE YParams

Init ==
  /\ text \in Texts
  /\ params \in {q \in Params : WellTyped(q)}
  /\ table \in Tables \cup {NoTable}
  /\ changes = 0
  /\ pc = [h \in Handlers |-> "lookup"]
  /\ cols = [h \in Handlers |-> {}]
  /\ clause = [h \in Handlers |-> NoBounds]
  /\ answer = [h \in Handlers |-> NoAnswer]
  /\ asked = [h \in Handlers |-> 0]
  /\ queried = [h \in Handlers |-> NoTable]

Respond(h, a) ==
  /\ answer' = [answer EXCEPT ![h] = a]
  /\ pc' = [pc EXCEPT ![h] = "done"]

(***************************************************************************)
(* SELECT * FROM ... LIMIT 0.                                              *)
(***************************************************************************)

LookupFails == ~Parses(text) \/ ~table.there

\* An error of the look-up ends the binary handler; the other goes on without
\* columns, and so without bounds.
Lookup(h) ==
  /\ pc[h] = "lookup"
  /\ asked' = [asked EXCEPT ![h] = changes]
  /\ IF LookupFails /\ h = "binary"
     THEN Respond(h, Refused(500)) /\ UNCHANGED cols
     ELSE /\ cols' = [cols EXCEPT ![h] = IF LookupFails THEN {} ELSE table.columns]
          /\ pc' = [pc EXCEPT ![h] = "build"]
          /\ UNCHANGED answer
  /\ UNCHANGED <<text, params, table, changes, clause, queried>>

(***************************************************************************)
(* The bounds.                                                             *)
(***************************************************************************)

HasBounds == DOMAIN params = Bounds

\* Mutant of Rounded: the decimals behind the sixth are cut off.
Truncated(v) == IF v = NotFinite THEN v ELSE (v \div Unit) * Unit

\* std::to_string prints six decimals: the nearest ones, the even one in a tie.
Rounded(v) ==
  LET q == v \div Unit
      r == v - q * Unit
  IN IF v = NotFinite THEN v
     ELSE IF 2 * r > Unit \/ (2 * r = Unit /\ q % 2 = 1) THEN (q + 1) * Unit ELSE q * Unit

Build(h) ==
  /\ pc[h] = "build"
  /\ IF ~(HasBounds /\ {"x", "y"} \subseteq cols[h])
     THEN pc' = [pc EXCEPT ![h] = "send"] /\ UNCHANGED <<clause, answer>>
     ELSE IF \E p \in Bounds : params[p] = Bad
     THEN Respond(h, Refused(400)) /\ UNCHANGED clause
     ELSE /\ clause' = [clause EXCEPT ![h] = [p \in Bounds |-> Rounded(params[p])]]
          /\ pc' = [pc EXCEPT ![h] = "send"]
          /\ UNCHANGED answer
  /\ UNCHANGED <<text, params, table, changes, cols, asked, queried>>

(***************************************************************************)
(* SendQuery.                                                              *)
(***************************************************************************)

Bounded(h) == clause[h] # NoBounds

\* CAST(v AS REAL): the nearest REAL, one of the two in a tie.
Distance(v, r) == IF v <= r THEN r - v ELSE v - r
AsReal(v) == CHOOSE r \in Reals : \A s \in Reals : Distance(v, r) <= Distance(v, s)

\* A bound is a DECIMAL literal: a comparison with a FLOAT column casts it to FLOAT.
Compared(t, column, v) == IF column \in t.floats THEN AsReal(v) ELSE v

\* Mutant of Passes: one bound of the other axis.
PassesSwapped(t, row, c) ==
  /\ row.x # Null /\ row.y # Null
  /\ Compared(t, "x", c["min_x"]) <= row.x /\ row.x <= Compared(t, "x", c["min_y"])
  /\ Compared(t, "y", c["min_y"]) <= row.y /\ row.y <= Compared(t, "y", c["max_y"])

\* Comparisons with NULL are not true.
Passes(t, row, c) ==
  /\ row.x # Null /\ row.y # Null
  /\ Compared(t, "x", c["min_x"]) <= row.x /\ row.x <= Compared(t, "x", c["max_x"])
  /\ Compared(t, "y", c["min_y"]) <= row.y /\ row.y <= Compared(t, "y", c["max_y"])

\* Mutant of NotNull: the binary handler selects NULL coordinates too.
KeepsNull(h, row) == TRUE

\* x IS NOT NULL AND y IS NOT NULL, for the columns that were there.
NotNull(h, row) ==
  h = "binary" => \A c \in cols[h] : row[c] # Null

\* The binary handler names the columns it has found; so does a WHERE clause.
ColumnsNamed(h) ==
  (IF h = "binary" THEN cols[h] ELSE {}) \cup (IF Bounded(h) THEN {"x", "y"} ELSE {})

\* Mutant of Selected: a column that was not found is NULL in the binary answer.
SelectsNull(h, row) ==
  IF h = "json" THEN row
  ELSE [c \in {"x", "y"} |-> IF c \in cols[h] /\ row[c] # Null THEN AsReal(row[c]) ELSE Null]

\* The JSON handler selects the row as it is.  The binary handler casts the columns it
\* has found; the others are 0 ("0.0::REAL AS x").
Selected(h, row) ==
  IF h = "json" THEN row
  ELSE [c \in {"x", "y"} |-> IF c \notin cols[h] THEN 0
                             ELSE IF row[c] = Null THEN Null ELSE AsReal(row[c])]

\* The rows of the table that the WHERE clause lets through.
Found(h, t) == {r \in t.rows : NotNull(h, r) /\ (Bounded(h) => Passes(t, r, clause[h]))}

\* SendQuery returns when the query is over or its buffer is full.  A cast that fails
\* before that is an error; one that fails later ends an answer that has its status
\* already, behind any part of the other rows.
Send(h) ==
  LET found == Found(h, table)
      good  == {r \in found : h = "binary" => r.casts}
      sent  == {Selected(h, r) : r \in good}
  IN
  /\ pc[h] = "send"
  /\ queried' = [queried EXCEPT ![h] = table]
  /\ IF \/ LookupFails
        \/ ~(ColumnsNamed(h) \subseteq table.columns)
        \/ Bounded(h) /\ \E p \in Bounds : clause[h][p] = NotFinite  \* a column of that name
     THEN Respond(h, Refused(500))
     ELSE \/ found = good /\ Respond(h, [status |-> 200, rows |-> sent, failed |-> FALSE])
          \/ found # good /\ Respond(h, Refused(500))
          \/ /\ found # good /\ good # {}
             /\ \E some \in SUBSET sent :
                  Respond(h, [status |-> 200, rows |-> some, failed |-> TRUE])
  /\ UNCHANGED <<text, params, table, changes, cols, clause, asked>>

(***************************************************************************)
(* Other connections, and the specification.                               *)
(***************************************************************************)

ChangeTable ==
  /\ changes < MaxChanges
  /\ \E h \in Handlers : pc[h] # "done"
  /\ table' \in Tables \cup {NoTable}
  /\ changes' = changes + 1
  /\ UNCHANGED <<text, params, pc, cols, clause, answer, asked, queried>>

Done ==
  /\ \A h \in Handlers : pc[h] = "done"
  /\ UNCHANGED vars

Next ==
  \/ \E h \in Handlers : Lookup(h) \/ Build(h) \/ Send(h)
  \/ ChangeTable
  \/ Done

Spec == Init /\ [][Next]_vars

(***************************************************************************)
(* Properties.                                                             *)
(***************************************************************************)

TypeOK ==
  /\ text \in Texts
  /\ DOMAIN params \subseteq Bounds /\ WellTyped(params)
  /\ table \in Tables \cup {NoTable}
  /\ changes \in 0..MaxChanges
  /\ pc \in [Handlers -> {"lookup", "build", "send", "done"}]
  /\ cols \in [Handlers -> SUBSET {"x", "y"}]
  /\ \A h \in Handlers : Bounded(h) => clause[h] \in [Bounds -> Int \cup {NotFinite}]
  /\ \A h \in Handlers : answer[h].status \in (IF pc[h] = "done" THEN {200, 400, 500} ELSE {0})
  /\ asked \in [Handlers -> 0..MaxChanges]
  /\ queried \in [Handlers -> Tables \cup {NoTable}]

GoodBounds == HasBounds /\ \A p \in Bounds : params[p] \in Int

\* Printing moves a bound by half a unit at most.
Half == Unit \div 2

\* Outside, or inside, by more than printing and the cast to REAL, of a bound or of
\* a coordinate, can make of it.
Below(v, bound) == v < bound - Half /\ v < AsReal(bound - Half)
Above(v, bound) == v > bound + Half /\ v > AsReal(bound + Half)

ClearlyOut(r) ==
  \/ Below(r.x, params["min_x"]) \/ Above(r.x, params["max_x"])
  \/ Below(r.y, params["min_y"]) \/ Above(r.y, params["max_y"])
ClearlyIn(r) ==
  /\ params["min_x"] + Half <= r.x /\ r.x <= params["max_x"] - Half
  /\ params["min_y"] + Half <= r.y /\ r.y <= params["max_y"] - Half

\* The binary answer has no row outside the viewport, whatever others do to the
\* table between look-up and query, if the look-up found both coordinates.
BinaryInBounds ==
  (GoodBounds /\ cols["binary"] = {"x", "y"}) =>
    \A r \in answer["binary"].rows : ~ClearlyOut(r)

\* No row inside the viewport is missing from an answer with status 200, unless its
\* query failed behind the status.
NothingMissing ==
  \A h \in Handlers :
    (answer[h].status = 200 /\ ~answer[h].failed /\ cols[h] = {"x", "y"}) =>
      \A r \in queried[h].rows :
        (r.x # Null /\ r.y # Null /\ (GoodBounds => ClearlyIn(r))) =>
          Selected(h, r) \in answer[h].rows

\* The provider packs coordinates without a look at their validity: none is NULL.
NoNullPacked ==
  \A r \in answer["binary"].rows : r.x # Null /\ r.y # Null

\* When nobody changes the table, the binary answer has no row that the JSON answer
\* has not, but for the casts; and it has the same status and all the rows without
\* NULL coordinates, unless one of these rows cannot be cast.
HandlersAgree ==
  ((\A h \in Handlers : pc[h] = "done") /\ (\A h \in Handlers : asked[h] = changes)) =>
    LET shown == {r \in answer["json"].rows : \A c \in cols["binary"] : r[c] # Null}
        cast  == {Selected("binary", r) : r \in shown}
    IN /\ answer["binary"].rows \subseteq cast
       /\ (\A r \in shown : r.casts) =>
            /\ answer["binary"].status = answer["json"].status
            /\ answer["binary"].rows = cast

\* What the README says of the viewport, for the JSON handler: its rows are inside
\* the bounds.
JsonInBounds ==
  (GoodBounds /\ queried["json"].columns = {"x", "y"}) =>
    \A r \in answer["json"].rows : r.x # Null /\ r.y # Null => ~ClearlyOut(r)
=============================================================================

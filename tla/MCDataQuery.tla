----------------------------- MODULE MCDataQuery ------------------------------
(***************************************************************************)
(* DataQuery for TLC: the tables of a run.  Parameters are 7 and 38, units *)
(* of four, and the REALs are as fine as the units up to 8 and nine apart  *)
(* from 24 on: 7 is printed as 8 and 38 as 40, which as a REAL is 42.      *)
(***************************************************************************)
EXTENDS DataQuery

Row(a, b, fits) == [x |-> a, y |-> b, casts |-> fits]

Low     == Row(4, 4, TRUE)       \* outside, and no REAL is between it and 7
Inner   == Row(12, 4, TRUE)
TextId  == Row(16, 4, FALSE)     \* its id is no UINTEGER
Edge    == Row(39, 4, TRUE)      \* within the printed bound; 42 as a REAL
High    == Row(42, 4, TRUE)      \* within the bound as a REAL
NullX   == Row(Null, 4, TRUE)
NullY   == Row(12, Null, FALSE)

RowSets == {{}, {Low, Inner}, {Inner, TextId}, {TextId, NullY}, {Edge, NullX}, {High, Inner}}

FloatSets == {{}, {"x"}, {"x", "y"}}

FullTables ==
  {t \in [columns : {{"x", "y"}}, floats : FloatSets, rows : RowSets, there : {TRUE}] :
     WellFormed(t)}

OtherTables ==
  {[columns |-> {c}, floats |-> {}, there |-> TRUE,
    rows |-> {[[x |-> Null, y |-> Null, casts |-> TRUE] EXCEPT ![c] = 4]}] : c \in {"x", "y"}}
  \cup {[columns |-> {}, floats |-> {}, there |-> TRUE, rows |-> {Row(Null, Null, FALSE)}]}

MCTables == FullTables \cup OtherTables
=============================================================================

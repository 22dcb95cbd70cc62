---------------------------- MODULE MCGraphServer ----------------------------
(***************************************************************************)
(* GraphServer for TLC: the SQL clients and the connections of a run are   *)
(* interchangeable, except in the runs that check liveness.                *)
(***************************************************************************)
EXTENDS GraphServer, TLC

SqlSymmetry  == Permutations(Sql)
ConnSymmetry == Permutations(Conns)

=============================================================================

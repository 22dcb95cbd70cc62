---------------------------- MODULE MCDataAnswer ------------------------------
(* DataAnswer for TLC, with the tables of MCDataQuery. *)
EXTENDS DataAnswer, MCDataQuery
=============================================================================

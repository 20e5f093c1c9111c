---------------------------- MODULE MCStatistics ----------------------------
(***************************************************************************)
(* Model-checking instance of Statistics: two files, one group name and   *)
(* two group contents, so that a file can hold every kind of content and  *)
(* update, merge and addGroup can be told apart.                          *)
(***************************************************************************)
EXTENDS Statistics

MCGroupVals == {EmptyGroup, "v"}
=============================================================================

----------------------------- MODULE MCCounters -----------------------------
(***************************************************************************)
(* Model-checking instance of Counters.  TLC's own integers are 32-bit,   *)
(* so int is given 4 bits here: the wrap at the top and bottom of the     *)
(* range is reached in a few calls.  The arguments are the smallest step  *)
(* and the unsigned value 2^(IntWidth-1), which int cannot hold.          *)
(***************************************************************************)
EXTENDS Counters

MCUArgs == {1, 2^(IntWidth - 1)}
MCIntArgs == {0, 2^(IntWidth - 1) - 1}
=============================================================================

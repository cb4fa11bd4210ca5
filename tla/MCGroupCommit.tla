--------------------------- MODULE MCGroupCommit ---------------------------
(***************************************************************************)
(* Small instances of GroupCommit for TLC: two transactions, a group of  *)
(* two, and a log that is big after two records.                           *)
(***************************************************************************)
EXTENDS GroupCommit

CONSTANTS x1, x2

MCXct == {x1, x2}
=============================================================================

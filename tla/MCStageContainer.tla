-------------------------- MODULE MCStageContainer --------------------------
(***************************************************************************)
(* Three queries over one scan stage of two workers.  The second has two   *)
(* packets, one of which never merges.                                     *)
(***************************************************************************)
EXTENDS StageContainer

TheQueries == {"q1", "q2", "q3"}
TheNeed == [q1 |-> 1, q2 |-> 2, q3 |-> 1]
ThePackets == [q1 |-> {"a"}, q2 |-> {"b", "d"}, q3 |-> {"c"}]
=============================================================================

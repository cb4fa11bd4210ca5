--------------------------- MODULE MCLockManager ---------------------------
(***************************************************************************)
(* A partition with two keys and five actions: an updater of each key, a   *)
(* reader of one key, and a transaction that reads both keys with one      *)
(* action while another transaction updates the first key again.           *)
(***************************************************************************)
EXTENDS LockManager

CONSTANTS k1, k2

MCAction == {"upd1", "upd2", "rd1", "rd12", "upd12"}
MCTid    == {"t1", "t2", "t3", "t4", "t5"}
MCTidOf  == [a \in MCAction |->
                CASE a = "upd1"  -> "t1"
                  [] a = "upd2"  -> "t2"
                  [] a = "rd1"   -> "t3"
                  [] a = "rd12"  -> "t4"
                  [] a = "upd12" -> "t5"]
MCKeysOf == [a \in MCAction |->
                CASE a \in {"upd1", "rd1"} -> {k1}
                  [] a = "upd2"            -> {k2}
                  [] OTHER                 -> {k1, k2}]
MCReadOnly == {"rd1", "rd12"}
=============================================================================

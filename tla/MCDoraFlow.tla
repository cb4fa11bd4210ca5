----------------------------- MODULE MCDoraFlow -----------------------------
(***************************************************************************)
(* Flows of the workloads, over one key of each table.                     *)
(***************************************************************************)
EXTENDS DoraFlow

CONSTANTS datum

On(p, mode) == [part |-> p, key |-> datum, dlm |-> mode]

\* TM1 transactions on one subscriber, as XCT_TM1_DORA_MIX dispatches them.
TM1 ==
    [upd_sub_data_mix |-> <<<<On("sub", EXCL)>>, <<On("sf", EXCL)>>>>,
     ins_call_fwd     |-> <<<<On("sub", SHARED)>>, <<On("sf", SHARED)>>, <<On("cf", EXCL)>>>>,
     del_call_fwd     |-> <<<<On("sub", SHARED)>>, <<On("cf", EXCL)>>>>]

\* TPC-C: two Payments of one district and one customer.
Payment == <<<<On("wh", EXCL), On("dist", EXCL), On("cust", EXCL)>>, <<On("hist", EXCL)>>>>
TPCC == [payment1 |-> Payment, payment2 |-> Payment]

\* Each workload runs alone.
Workloads == {DOMAIN TM1, DOMAIN TPCC}
WorkloadXct    == DOMAIN TM1 \cup DOMAIN TPCC
WorkloadTables == {"sub", "sf", "cf", "wh", "dist", "cust", "hist"}
WorkloadFlow   == TM1 @@ TPCC

\* TPC-B: two tellers of one branch in different partitions update the same
\* account.
TPCBTables == {"br", "te1", "te2", "ac", "hi1", "hi2"}
TPCBFlow ==
    [au1 |-> <<<<On("br", EXCL), On("te1", EXCL), On("ac", EXCL), On("hi1", EXCL)>>>>,
     au2 |-> <<<<On("br", EXCL), On("te2", EXCL), On("ac", EXCL), On("hi2", EXCL)>>>>]

\* The flows of TM1 and of one customer's Payments keep their order; those of TPC-B do not.
ASSUME CoupledFlows(WorkloadFlow) /\ ~CoupledFlows(TPCBFlow)
=============================================================================

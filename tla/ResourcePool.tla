---------------------------- MODULE ResourcePool ----------------------------
(***************************************************************************)
(* resource_pool_t (src/util/resource_pool.cpp): reservations of worker    *)
(* threads, granted in the order they were asked for.  Its methods run     *)
(* under a mutex of the caller, so each is a step; only waiter_wake()      *)
(* loops, and `waking' says that the mutex is held by a thread in its      *)
(* loop.  A thread that waits is one of Client, its request the Need of    *)
(* the client.                                                             *)
(***************************************************************************)
EXTENDS Naturals, Sequences, FiniteSets

CONSTANTS
    Client,     \* those who reserve
    Need        \* how many resources each reserves at once

ASSUME NeedAssumption == Need \in [Client -> Nat \ {0}]

VARIABLES
    capacity,   \* _capacity
    reserved,   \* _reserved
    nonIdle,    \* _non_idle
    waiters,    \* _waiters
    waking      \* whether a thread is inside waiter_wake()

pool == <<capacity, reserved, nonIdle, waiters, waking>>

PoolTypeOK ==
    /\ capacity \in Nat /\ reserved \in Nat /\ nonIdle \in Nat
    /\ waiters \in Seq(Client)
    /\ waking \in BOOLEAN

PoolInit ==
    /\ capacity = 0 /\ reserved = 0 /\ nonIdle = 0
    /\ waiters = <<>>
    /\ waking = FALSE

(***************************************************************************)
(* get_capacity() - get_reserved().                                        *)
(***************************************************************************)
Unreserved == capacity - reserved

Waiting == {waiters[i] : i \in DOMAIN waiters}

(***************************************************************************)
(* reserve(), of a pool that has grown to `size' just before.  Who does    *)
(* not get the resources waits behind those who wait already.              *)
(***************************************************************************)
PoolReserve(c, size) ==
    /\ capacity' = size
    /\ IF waiters = <<>> /\ Need[c] <= size - reserved
       THEN reserved' = reserved + Need[c] /\ UNCHANGED waiters
       ELSE waiters' = Append(waiters, c) /\ UNCHANGED reserved
    /\ UNCHANGED <<nonIdle, waking>>

(***************************************************************************)
(* unreserve() gives n back and begins waiter_wake().                      *)
(***************************************************************************)
PoolUnreserve(n) ==
    /\ reserved' = reserved - n
    /\ waking' = TRUE
    /\ UNCHANGED <<capacity, waiters>>

(***************************************************************************)
(* A turn of waiter_wake(): the head is taken off the list and granted its *)
(* request if that fits; otherwise, and when nobody waits, the loop ends.  *)
(***************************************************************************)
HeadFits == waiters # <<>> /\ Need[Head(waiters)] <= Unreserved

WakeOne ==
    /\ waking
    /\ HeadFits
    /\ reserved' = reserved + Need[Head(waiters)]
    /\ waiters' = Tail(waiters)
    /\ UNCHANGED <<capacity, nonIdle, waking>>

\* Slip: the loop does not return when the head does not fit.
WakeDoneOnlyEmpty ==
    /\ waking
    /\ waiters = <<>>
    /\ waking' = FALSE
    /\ UNCHANGED <<capacity, reserved, nonIdle, waiters>>

WakeDone ==
    /\ waking
    /\ ~HeadFits
    /\ waking' = FALSE
    /\ UNCHANGED <<capacity, reserved, nonIdle, waiters>>
=============================================================================

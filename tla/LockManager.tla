---------------------------- MODULE LockManager ----------------------------
(***************************************************************************)
(* The lock manager of one DORA partition (lock_man_t and KeyLockMap,      *)
(* src/include/dora/lockman.h and logical_lock.h): the map from keys to    *)
(* logical locks, and for every action of the partition the number of keys *)
(* it still needs.  The worker of the partition is its only caller.        *)
(*                                                                         *)
(* An action asks for all its keys at once, in one mode, when the worker   *)
(* dequeues it (trx_acq_locks); it runs when it needs no more keys; after  *)
(* its transaction ended the worker releases all its keys (trx_rel_locks), *)
(* which can make other actions ready.                                     *)
(***************************************************************************)
EXTENDS LogicalLock, FiniteSets

CONSTANTS
    Action,     \* the actions enqueued in the partition
    Tid,        \* the transactions they belong to
    Key,        \* the keys of the partition
    TidOf,      \* the transaction of an action
    KeysOf,     \* the keys an action needs (_requests)
    ReadOnly    \* the actions whose requests are shared (set_read_only)

\* Two actions of one transaction never name the same key of a partition:
\* in every transaction of the workloads they belong to different tables,
\* or split one table's keys among themselves (dora_tm1_xct.cpp:995-1015).
ASSUME ConstantsAssumption ==
    /\ IsFiniteSet(Key)
    /\ TidOf \in [Action -> Tid]
    /\ KeysOf \in [Action -> (SUBSET Key) \ {{}}]
    /\ ReadOnly \subseteq Action
    /\ \A a, b \in Action :
          a # b /\ TidOf[a] = TidOf[b] => KeysOf[a] \cap KeysOf[b] = {}

VARIABLES
    locks,      \* _ll_map: the keys seen so far, with their locks
    needed,     \* _keys_needed of each action
    phase       \* where each action is in its cycle

vars == <<locks, needed, phase>>

Phase == {"new", "waiting", "ready", "released"}

Known == DOMAIN locks

\* Slip: the request carries the action where its transaction belongs.
ReqOfAction(a) == [action |-> a, tid |-> a, dlm |-> EXCL]

\* trx_upd_keys(): exclusive requests, or shared ones for a reader.
Req(a) == [action |-> a,
           tid    |-> TidOf[a],
           dlm    |-> IF a \in ReadOnly THEN SHARED ELSE EXCL]

Holds(a, k)    == \E i \in DOMAIN locks[k].owners : locks[k].owners[i].action = a
WaitsFor(a, k) == \E i \in DOMAIN locks[k].waiters : locks[k].waiters[i].action = a

TypeOK ==
    /\ Known \subseteq Key
    /\ locks \in [Known -> Lock(Action, Tid)]
    /\ needed \in [Action -> Int]
    /\ phase \in [Action -> Phase]

Init ==
    /\ locks = [k \in {} |-> NewLock(Req(CHOOSE a \in Action : TRUE))]
    /\ needed = [a \in Action |-> 0]
    /\ phase = [a \in Action |-> "new"]

-----------------------------------------------------------------------------
\* KeyLockMap::acquire() fails on the keys where the request has to wait.
Refused(a) == {k \in KeysOf[a] \cap Known : MustWait(locks[k], Req(a))}

\* Slip: acquire_all() counts one missing key however many were refused.
AcquireAllCountingOnce(a) ==
    /\ phase[a] = "new"
    /\ \A k \in KeysOf[a] \cap Known : CanAcquire(locks[k], Req(a))
    /\ locks' = [k \in Known \cup KeysOf[a] |->
                    IF k \notin KeysOf[a] THEN locks[k]
                    ELSE IF k \in Known   THEN Acquire(locks[k], Req(a))
                    ELSE NewLock(Req(a))]
    /\ needed' = [needed EXCEPT ![a] = IF Refused(a) = {} THEN 0 ELSE 1]
    /\ phase' = [phase EXCEPT ![a] = IF Refused(a) = {} THEN "ready" ELSE "waiting"]

(***************************************************************************)
(* acquire_all(): every key is tried, also after one was refused, and each *)
(* key granted is counted (gotkeys).                                       *)
(***************************************************************************)
AcquireAll(a) ==
    /\ phase[a] = "new"
    /\ \A k \in KeysOf[a] \cap Known : CanAcquire(locks[k], Req(a))
    /\ locks' = [k \in Known \cup KeysOf[a] |->
                    IF k \notin KeysOf[a] THEN locks[k]
                    ELSE IF k \in Known   THEN Acquire(locks[k], Req(a))
                    ELSE NewLock(Req(a))]
    /\ needed' = [needed EXCEPT ![a] = Cardinality(Refused(a))]
    /\ phase' = [phase EXCEPT ![a] = IF Refused(a) = {} THEN "ready" ELSE "waiting"]

\* The keys on which action b stops waiting when the locks become `after'.
PromotedOn(b, after) ==
    {k \in Known : WaitsFor(b, k) /\ ~\E i \in DOMAIN after[k].waiters :
                                         after[k].waiters[i].action = b}

\* Slip: release_all() stops after one key.
ReleaseOne(a) ==
    /\ phase[a] = "ready"
    /\ \A b \in Action : TidOf[b] = TidOf[a] => phase[b] \in {"ready", "released"}
    /\ LET one == CHOOSE k \in KeysOf[a] : TRUE IN
       \E after \in {[locks EXCEPT ![one] = Release(@, TidOf[a])]} :
          /\ locks' = after
          /\ needed' = [b \in Action |-> needed[b] - Cardinality(PromotedOn(b, after))]
          /\ phase' = [b \in Action |->
                IF b = a THEN "released"
                ELSE IF /\ PromotedOn(b, after) # {}
                        /\ needed[b] = Cardinality(PromotedOn(b, after)) THEN "ready"
                ELSE phase[b]]

(***************************************************************************)
(* release_all(): the keys of an action whose transaction ended (so that   *)
(* all its actions ran) are released, each promotion is counted, and the   *)
(* actions that now have all their keys are ready.                         *)
(***************************************************************************)
ReleaseAll(a) ==
    /\ phase[a] = "ready"
    /\ \A b \in Action : TidOf[b] = TidOf[a] => phase[b] \in {"ready", "released"}
    /\ \A k \in KeysOf[a] : CanRelease(locks[k], TidOf[a])
    /\ \E after \in {[k \in Known |-> IF k \in KeysOf[a]
                                     THEN Release(locks[k], TidOf[a])
                                     ELSE locks[k]]} :
          /\ locks' = after
          /\ needed' = [b \in Action |-> needed[b] - Cardinality(PromotedOn(b, after))]
          /\ phase' = [b \in Action |->
                IF b = a THEN "released"
                ELSE IF /\ PromotedOn(b, after) # {}
                        /\ needed[b] = Cardinality(PromotedOn(b, after)) THEN "ready"
                ELSE phase[b]]

\* Every action of the partition went through.
Finished ==
    /\ \A a \in Action : phase[a] = "released"
    /\ UNCHANGED vars

Next ==
    \/ \E a \in Action : AcquireAll(a) \/ ReleaseAll(a)
    \/ Finished

Spec == Init /\ [][Next]_vars

\* The worker dequeues its input, and a transaction whose actions run ends.
\* (An action asks once and releases once, so that nothing can put off another
\* step for ever.)
Fairness == WF_vars(Next)

FairSpec == Spec /\ Fairness

-----------------------------------------------------------------------------
(***************************************************************************)
(* No lost promotion: whenever the worker is between two calls, the head   *)
(* of the waiters of every key conflicts with what the owners hold.  The   *)
(* promotion loop of release() runs only when _upd_dlm() reported a        *)
(* change, and acquire() lets a request pass only a queue it is compatible *)
(* with: a waiter left behind by either would never be looked at again.    *)
(***************************************************************************)
HeadIsBlocked == \A k \in Known : ~HeadCanAcquire(locks[k])

(***************************************************************************)
(* Isolation inside the partition: two transactions own a key together     *)
(* only in compatible modes, and the mode of the lock, which is all        *)
(* acquire() looks at, is the one its owners hold.                         *)
(***************************************************************************)
OwnersSound ==
    \A k \in Known : OwnersCompatible(locks[k]) /\ DlmIsWatermark(locks[k])

(***************************************************************************)
(* The two readings of "this action can run" agree: _keys_needed counts    *)
(* exactly the keys where the action is still queued, on every other key   *)
(* it asked for it is an owner, and it is never on a key twice.  This is   *)
(* what the WARNING in acquire_all() doubts for lists of keys.             *)
(***************************************************************************)
NeededIsQueued ==
    \A a \in Action :
        /\ needed[a] = Cardinality({k \in Known : WaitsFor(a, k)})
        /\ phase[a] = "waiting" <=> needed[a] > 0
        /\ phase[a] \in {"waiting", "ready"} =>
              \A k \in KeysOf[a] :
                  /\ k \in Known
                  /\ Holds(a, k) <=> ~WaitsFor(a, k)
                  /\ Cardinality({i \in DOMAIN locks[k].owners :
                                     locks[k].owners[i].action = a}) <= 1

(***************************************************************************)
(* No overtaking (the comment at logical_lock.cpp:340-345, "the FIFO       *)
(* execution principle BREAKS"): a step that makes an action owner of a    *)
(* key leaves no request that was queued on that key before, and conflicts *)
(* with it, still waiting.                                                 *)
(***************************************************************************)
QueuedBefore(k, a) ==
    {i \in DOMAIN locks[k].waiters :
        \A j \in DOMAIN locks[k].waiters : locks[k].waiters[j].action = a => i < j}

NoOvertaking ==
    [][\A k \in Known, a \in Action :
          ~Holds(a, k) /\ Holds(a, k)' =>
              \A i \in QueuedBefore(k, a), b \in Action :
                  locks[k].waiters[i].action = b =>
                      Compatible(Req(b).dlm, Req(a).dlm) \/ Holds(b, k)']_vars

(***************************************************************************)
(* Nobody starves: an action that had to wait is executed in the end, as   *)
(* all keys of a partition are asked for in one call and granted in the    *)
(* order of those calls.                                                   *)
(***************************************************************************)
EveryWaiterRuns ==
    \A a \in Action : phase[a] = "waiting" ~> phase[a] = "ready"
=============================================================================

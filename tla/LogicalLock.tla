---------------------------- MODULE LogicalLock ----------------------------
(***************************************************************************)
(* The logical lock of one key of a DORA partition (struct LogicalLock,    *)
(* src/src/dora/logical_lock.cpp).  A lock is a value: the current mode    *)
(* `dlm', the vector of owners and the FIFO list of waiters, both of lock  *)
(* requests.  The methods of the C++ struct are operators that return the  *)
(* lock they leave behind; the modules that keep locks in their state      *)
(* (LockManager, DoraFlow) call them.                                       *)
(*                                                                         *)
(* Only the worker that owns the partition calls these methods, so a call  *)
(* is atomic.                                                              *)
(***************************************************************************)
EXTENDS Integers, Sequences

\* The lock modes, enum eDoraLockMode.
NOLOCK == 0
SHARED == 1
EXCL   == 2

LockMode == {NOLOCK, SHARED, EXCL}

\* DoraLockModeMatrix[held][asked].
Compatible(held, asked) ==
    \/ NOLOCK \in {held, asked}
    \/ held = SHARED /\ asked = SHARED

\* ActionLockReq: an action asks for a lock, on behalf of its transaction.
LockReq(Action, Tid) == [action : Action, tid : Tid, dlm : LockMode]

Lock(Action, Tid) ==
    [dlm     : LockMode,
     owners  : Seq(LockReq(Action, Tid)),
     waiters : Seq(LockReq(Action, Tid))]

\* The constructor: a key is first seen when an action asks for it.
NewLock(req) == [dlm |-> req.dlm, owners |-> <<req>>, waiters |-> <<>>]

\* is_clean(), and what abort_and_reset() leaves.
Clean(ll)     == ll.owners = <<>> /\ ll.waiters = <<>> /\ ll.dlm = NOLOCK
AbortAndReset == [dlm |-> NOLOCK, owners |-> <<>>, waiters |-> <<>>]

-----------------------------------------------------------------------------
(***************************************************************************)
(* _upd_dlm(): the mode the owners add up to.  The loop keeps the mode of  *)
(* the last owner that really locks; its assertion that every owner is     *)
(* compatible with the ones before it is OwnersCompatible below.           *)
(***************************************************************************)
Watermark(owners) ==
    IF \A i \in DOMAIN owners : owners[i].dlm = NOLOCK
    THEN NOLOCK
    ELSE LET last == CHOOSE i \in DOMAIN owners :
                        /\ owners[i].dlm # NOLOCK
                        /\ \A j \in DOMAIN owners : j > i => owners[j].dlm = NOLOCK
         IN  owners[last].dlm

\* _head_can_acquire()
HeadCanAcquire(ll) ==
    /\ ll.waiters # <<>>
    /\ Compatible(ll.dlm, Head(ll.waiters).dlm)

(***************************************************************************)
(* The promotion loop of release(): while the head of the waiters can      *)
(* acquire, it moves to the owners and _upd_dlm() is called again.         *)
(* DlmAfter is the mode of the lock once n waiters were promoted, and the  *)
(* loop ends before the first waiter that conflicts with it.               *)
(***************************************************************************)
DlmAfter(ll, n) ==
    IF n = 0 THEN ll.dlm ELSE Watermark(ll.owners \o SubSeq(ll.waiters, 1, n))

\* Slip: an if where the code loops.
PromotedOnce(ll) == IF HeadCanAcquire(ll) THEN 1 ELSE 0

PromotedCount(ll) ==
    CHOOSE n \in 0 .. Len(ll.waiters) :
        /\ \A m \in 0 .. n - 1 :
              Compatible(DlmAfter(ll, m), ll.waiters[m + 1].dlm)
        /\ n < Len(ll.waiters) =>
              ~Compatible(DlmAfter(ll, n), ll.waiters[n + 1].dlm)

Promote(ll) ==
    LET n == PromotedCount(ll)
    IN  [dlm     |-> DlmAfter(ll, n),
         owners  |-> ll.owners \o SubSeq(ll.waiters, 1, n),
         waiters |-> SubSeq(ll.waiters, n + 1, Len(ll.waiters))]

-----------------------------------------------------------------------------
\* The owners on behalf of transaction t; isSame() compares transactions.
OwnedBy(ll, t) == {i \in DOMAIN ll.owners : ll.owners[i].tid = t}

\* _owners.erase() of the first owner of transaction t.
EraseOwner(ll, t) ==
    LET i == CHOOSE j \in OwnedBy(ll, t) : \A k \in OwnedBy(ll, t) : j <= k
    IN  SubSeq(ll.owners, 1, i - 1) \o
        SubSeq(ll.owners, i + 1, Len(ll.owners))

(***************************************************************************)
(* release().  The owner is erased; when that changes the mode, waiters    *)
(* are promoted.  A transaction that is not an owner must find the lock    *)
(* free (w_assert0): CanRelease.                                           *)
(***************************************************************************)
CanRelease(ll, t) == OwnedBy(ll, t) # {} \/ ll.dlm = NOLOCK

Release(ll, t) ==
    IF OwnedBy(ll, t) = {}
    THEN Promote(ll)
    ELSE LET owners == EraseOwner(ll, t)
             freed  == [ll EXCEPT !.owners = owners, !.dlm = Watermark(owners)]
         IN  IF freed.dlm = ll.dlm THEN freed ELSE Promote(freed)

(***************************************************************************)
(* acquire().  A transaction that owns the lock already keeps it, the sole *)
(* owner in the stronger mode; several owners cannot be upgraded           *)
(* (assert(0)): CanAcquire.  Any other request waits behind an owner or a  *)
(* waiter it conflicts with.                                               *)
(***************************************************************************)
CanAcquire(ll, req) ==
    OwnedBy(ll, req.tid) # {} => ll.dlm = req.dlm \/ Len(ll.owners) = 1

\* Slip: the waiters are not looked at.
MustWaitForOwners(ll, req) ==
    OwnedBy(ll, req.tid) = {} /\ ~Compatible(ll.dlm, req.dlm)

\* Slip: the mode of the owners is looked at only when nobody waits.
MustWaitInQueue(ll, req) ==
    /\ OwnedBy(ll, req.tid) = {}
    /\ IF ll.waiters = <<>> THEN ll.dlm = EXCL ELSE TRUE

MustWait(ll, req) ==
    /\ OwnedBy(ll, req.tid) = {}
    /\ \/ ~Compatible(ll.dlm, req.dlm)
       \/ \E i \in DOMAIN ll.waiters : ~Compatible(ll.waiters[i].dlm, req.dlm)

Acquire(ll, req) ==
    IF OwnedBy(ll, req.tid) # {}
    THEN [ll EXCEPT !.dlm = IF @ < req.dlm THEN req.dlm ELSE @]
    ELSE IF MustWait(ll, req)
    THEN [ll EXCEPT !.waiters = Append(@, req)]
    ELSE [ll EXCEPT !.owners = Append(@, req),
                    !.dlm    = IF req.dlm = NOLOCK THEN @ ELSE req.dlm]

-----------------------------------------------------------------------------
\* Two owners of different transactions hold compatible modes.
OwnersCompatible(ll) ==
    \A i, j \in DOMAIN ll.owners :
        \/ ll.owners[i].tid = ll.owners[j].tid
        \/ Compatible(ll.owners[i].dlm, ll.owners[j].dlm)

\* The mode of the lock tells what its owners hold.
DlmIsWatermark(ll) == ll.dlm = Watermark(ll.owners)
=============================================================================

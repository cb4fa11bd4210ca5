-------------------------- MODULE LockManagerProofs -------------------------
(***************************************************************************)
(* Proofs about the lock manager of a partition, for any sets of actions   *)
(* and keys: its type invariant, isolation between owners, and that no     *)
(* waiter that could run is left behind.                                   *)
(*                                                                         *)
(* The argument is about one lock.  A sound lock (LockOK) is held by one   *)
(* owner or shared by all of them, its mode is the mode of its last owner, *)
(* and the head of its waiters conflicts with that mode; acquire() and     *)
(* release() turn sound locks into sound locks.  For acquire() this needs  *)
(* that the transaction is not an owner yet, which follows from the        *)
(* actions having disjoint keys (EntriesOK).                               *)
(***************************************************************************)
EXTENDS LockManager, SequenceTheorems, FiniteSetTheorems, TLAPS

\* Every owner or waiter really locks, and owners share unless alone.
AllLock(reqs) == \A i \in DOMAIN reqs : reqs[i].dlm # NOLOCK

AllShared(reqs) == \A i \in DOMAIN reqs : reqs[i].dlm = SHARED

LockOK(ll) ==
    /\ ll \in Lock(Action, Tid)
    /\ AllLock(ll.owners)
    /\ AllLock(ll.waiters)
    /\ AllShared(ll.owners) \/ Len(ll.owners) <= 1
    /\ ll.dlm = IF ll.owners = <<>> THEN NOLOCK ELSE ll.owners[Len(ll.owners)].dlm

\* The requests of lock `after' are requests of lock `ll', and no owner
\* became a waiter.
NothingNew(after, ll) ==
    /\ \A i \in DOMAIN after.owners :
          \/ \E j \in DOMAIN ll.owners : after.owners[i] = ll.owners[j]
          \/ \E j \in DOMAIN ll.waiters : after.owners[i] = ll.waiters[j]
    /\ \A i \in DOMAIN after.waiters :
          \E j \in DOMAIN ll.waiters : after.waiters[i] = ll.waiters[j]

\* A request in a lock was made by its action, for one of its keys.
Entry(ph, r, k) ==
    /\ r.action \in Action
    /\ r = Req(r.action)
    /\ k \in KeysOf[r.action]
    /\ ph[r.action] # "new"

Entries(ph, ll, k) ==
    /\ \A i \in DOMAIN ll.owners : Entry(ph, ll.owners[i], k)
    /\ \A i \in DOMAIN ll.waiters : Entry(ph, ll.waiters[i], k)

EntriesOK == \A k \in Known : Entries(phase, locks[k], k)

LocksOK == \A k \in Known : LockOK(locks[k]) /\ ~HeadCanAcquire(locks[k])

IInv == TypeOK /\ EntriesOK /\ LocksOK

-----------------------------------------------------------------------------
\* A non-empty set of naturals has a least element.
LEMMA LeastNatural ==
    ASSUME NEW S \in SUBSET Nat, S # {}
    PROVE  \E n \in S : \A m \in S : n <= m
<1> DEFINE Upto == {0 .. n : n \in S}
<1>1. Upto \subseteq FiniteSubsetsOf(Nat) /\ Upto # {}
  <2>1. ASSUME NEW n \in S PROVE 0 .. n \in FiniteSubsetsOf(Nat)
    <3>1. n \in Int /\ 0 \in Int /\ 0 .. n \in SUBSET Nat
      OBVIOUS
    <3>2. IsFiniteSet(0 .. n)
      BY <3>1, FS_Interval
    <3> QED
      BY <3>1, <3>2 DEF FiniteSubsetsOf
  <2> QED
    BY <2>1
<1>2. \E X \in Upto : \A Y \in Upto : ~(<<Y, X>> \in StrictSubsetOrdering(Nat))
  BY <1>1, WFMin, FS_StrictSubsetOrderingWellFounded
<1>3. PICK n \in S : \A m \in S : ~(<<0 .. m, 0 .. n>> \in StrictSubsetOrdering(Nat))
  BY <1>2
<1>4. ASSUME NEW m \in S, ~(n <= m) PROVE FALSE
  <2>1. 0 .. m \subseteq 0 .. n /\ n \in 0 .. n /\ n \notin 0 .. m
    BY <1>4
  <2>2. 0 .. m \in SUBSET Nat /\ 0 .. n \in SUBSET Nat
    BY <1>4
  <2> QED
    BY <1>3, <2>1, <2>2 DEF StrictSubsetOrdering
<1> QED
  BY <1>4

\* _upd_dlm() yields the mode of the last owner when every owner locks.
LEMMA WatermarkIsLast ==
    ASSUME NEW reqs \in Seq(LockReq(Action, Tid)), AllLock(reqs)
    PROVE  Watermark(reqs) = IF reqs = <<>> THEN NOLOCK ELSE reqs[Len(reqs)].dlm
<1>1. DOMAIN reqs = 1 .. Len(reqs) /\ Len(reqs) \in Nat
  BY LenProperties
<1>2. CASE reqs = <<>>
  BY <1>2 DEF Watermark
<1>3. CASE reqs # <<>>
  <2>1. Len(reqs) \in DOMAIN reqs
    BY <1>1, <1>3, EmptySeq
  <2>2. \A i \in DOMAIN reqs :
           (\A j \in DOMAIN reqs : j > i => reqs[j].dlm = NOLOCK) => i = Len(reqs)
    BY <1>1, <2>1 DEF AllLock
  <2>3. \E i \in DOMAIN reqs : /\ reqs[i].dlm # NOLOCK
                               /\ \A j \in DOMAIN reqs : j > i => reqs[j].dlm = NOLOCK
    BY <1>1, <2>1 DEF AllLock
  <2> QED
    BY <1>3, <2>1, <2>2, <2>3 DEF Watermark, AllLock
<1> QED
  BY <1>2, <1>3

\* The promotion loop stops before the first waiter that conflicts.
LEMMA PromotedCountSpec ==
    ASSUME NEW ll \in Lock(Action, Tid)
    PROVE  LET n == PromotedCount(ll)
           IN  /\ n \in 0 .. Len(ll.waiters)
               /\ \A m \in 0 .. n - 1 :
                     Compatible(DlmAfter(ll, m), ll.waiters[m + 1].dlm)
               /\ n < Len(ll.waiters) =>
                     ~Compatible(DlmAfter(ll, n), ll.waiters[n + 1].dlm)
<1> DEFINE Runs(m) == Compatible(DlmAfter(ll, m), ll.waiters[m + 1].dlm)
           Stops   == {m \in 0 .. Len(ll.waiters) - 1 : ~Runs(m)}
<1>1. Len(ll.waiters) \in Nat
  BY LenProperties DEF Lock
<1>2. \E n \in 0 .. Len(ll.waiters) :
         /\ \A m \in 0 .. n - 1 : Runs(m)
         /\ n < Len(ll.waiters) => ~Runs(n)
  <2>1. CASE Stops = {}
    <3>1. \A m \in 0 .. Len(ll.waiters) - 1 : Runs(m)
      BY <2>1
    <3> HIDE DEF Runs
    <3> QED
      BY <1>1, <3>1
  <2>2. CASE Stops # {}
    <3>1. Stops \in SUBSET Nat
      BY <1>1
    <3>2. PICK n \in Stops : \A m \in Stops : n <= m
      BY <2>2, <3>1, LeastNatural
    <3>3. ~Runs(n) /\ n \in 0 .. Len(ll.waiters) - 1
      BY <3>2
    <3>4. \A m \in 0 .. Len(ll.waiters) - 1 : ~Runs(m) => n <= m
      BY <3>2
    <3> HIDE DEF Runs, Stops
    <3> QED
      BY <1>1, <3>3, <3>4
  <2> QED
    BY <2>1, <2>2
<1> QED
  BY <1>2 DEF PromotedCount

\* The first m requests of a list.
LEMMA FirstRequests ==
    ASSUME NEW R, NEW w \in Seq(R), NEW m \in 0 .. Len(w)
    PROVE  LET g == SubSeq(w, 1, m)
           IN  /\ g \in Seq(R) /\ Len(g) = m
               /\ \A i \in 1 .. m : g[i] = w[i]
<1>1. Len(w) \in Nat /\ m \in Int /\ 1 \in Int
  BY LenProperties
<1>2. \A i \in 1 .. m : w[i] \in R
  BY <1>1, ElementOfSeq
<1>3. PICK g : g = SubSeq(w, 1, m)
  OBVIOUS
<1>4. /\ g \in Seq(R) /\ Len(g) = IF 1 <= m THEN m - 1 + 1 ELSE 0
      /\ \A i \in 1 .. m - 1 + 1 : g[i] = w[1 + i - 1]
  BY <1>1, <1>2, <1>3, SubSeqProperties
<1>5. ASSUME NEW k \in Nat
      PROVE  /\ k - 1 + 1 = k /\ (~(1 <= k) => k = 0)
             /\ \A i \in 1 .. k : 1 + i - 1 = i
  OBVIOUS
<1>6. m - 1 + 1 = m /\ (~(1 <= m) => m = 0) /\ \A i \in 1 .. m : 1 + i - 1 = i
  BY <1>1, <1>5
<1> QED
  BY <1>3, <1>4, <1>6

\* A request behind the first L of L + n is one of the last n.
LEMMA PlaceOfMoved ==
    ASSUME NEW L \in Nat, NEW n \in Nat, NEW i \in 1 .. L + n, ~(i <= L)
    PROVE  i - L \in 1 .. n
  OBVIOUS

\* The first m waiters, moved behind the owners.
LEMMA MovedWaiters ==
    ASSUME NEW R, NEW o \in Seq(R), NEW w \in Seq(R), NEW m \in 0 .. Len(w)
    PROVE  LET all == o \o SubSeq(w, 1, m)
           IN  /\ all \in Seq(R) /\ Len(all) = Len(o) + m
               /\ DOMAIN all = 1 .. Len(o) + m
               /\ \A i \in 1 .. Len(o) + m :
                     all[i] = IF i <= Len(o) THEN o[i] ELSE w[i - Len(o)]
<1>1. Len(o) \in Nat /\ Len(w) \in Nat /\ DOMAIN w = 1 .. Len(w)
  BY LenProperties
<1>3. PICK g : g = SubSeq(w, 1, m)
  OBVIOUS
<1>4. g \in Seq(R) /\ Len(g) = m /\ \A i \in 1 .. m : g[i] = w[i]
  BY <1>3, FirstRequests
<1>5. PICK all : all = o \o g
  OBVIOUS
<1>6. /\ all \in Seq(R) /\ Len(all) = Len(o) + m
      /\ \A i \in 1 .. Len(o) + m : all[i] = IF i <= Len(o) THEN o[i] ELSE g[i - Len(o)]
  <2>1. /\ o \o g \in Seq(R) /\ Len(o \o g) = Len(o) + Len(g)
        /\ \A i \in 1 .. Len(o) + Len(g) :
              (o \o g)[i] = IF i <= Len(o) THEN o[i] ELSE g[i - Len(o)]
    BY <1>4, ConcatProperties
  <2> QED
    BY <1>4, <1>5, <2>1
<1>7. DOMAIN all = 1 .. Len(o) + m
  BY <1>6, LenProperties
<1> QED
  BY <1>1, <1>3, <1>4, <1>5, <1>6, <1>7

\* The waiters that stay.
LEMMA LeftWaiters ==
    ASSUME NEW R, NEW w \in Seq(R), NEW n \in 0 .. Len(w)
    PROVE  LET rest == SubSeq(w, n + 1, Len(w))
           IN  /\ rest \in Seq(R) /\ Len(rest) = Len(w) - n
               /\ DOMAIN rest = 1 .. Len(w) - n
               /\ \A i \in 1 .. Len(w) - n : rest[i] = w[n + i]
               /\ rest # <<>> => n < Len(w) /\ Head(rest) = w[n + 1]
<1>1. Len(w) \in Nat /\ DOMAIN w = 1 .. Len(w)
  BY LenProperties
<1>2. \A i \in n + 1 .. Len(w) : w[i] \in R
  BY <1>1, ElementOfSeq
<1>3. PICK rest : rest = SubSeq(w, n + 1, Len(w))
  OBVIOUS
<1>4. /\ rest \in Seq(R)
      /\ Len(rest) = IF n + 1 <= Len(w) THEN Len(w) - (n + 1) + 1 ELSE 0
      /\ \A i \in 1 .. Len(w) - (n + 1) + 1 : rest[i] = w[n + 1 + i - 1]
  BY <1>1, <1>2, <1>3, SubSeqProperties
<1>5. Len(rest) = Len(w) - n /\ \A i \in 1 .. Len(w) - n : rest[i] = w[n + i]
  <2>1. /\ Len(w) - (n + 1) + 1 = Len(w) - n
        /\ ~(n + 1 <= Len(w)) => Len(w) - n = 0
    <3>1. ASSUME NEW L \in Nat, NEW m \in 0 .. L
          PROVE  L - (m + 1) + 1 = L - m /\ (~(m + 1 <= L) => L - m = 0)
      OBVIOUS
    <3> QED
      BY <1>1, <3>1
  <2>2. Len(rest) = Len(w) - n
    BY <1>1, <1>4, <2>1, Zenon
  <2>3. ASSUME NEW i \in 1 .. Len(w) - n PROVE rest[i] = w[n + i]
    <3>1. i \in 1 .. Len(w) - (n + 1) + 1 /\ n + 1 + i - 1 = n + i
      BY <1>1
    <3>2. rest[i] = w[n + 1 + i - 1]
      BY <1>4, <3>1
    <3> QED
      BY <3>1, <3>2
  <2> QED
    BY <2>2, <2>3
<1>6. DOMAIN rest = 1 .. Len(w) - n
  BY <1>4, <1>5, LenProperties
<1>7. ASSUME rest # <<>> PROVE n < Len(w) /\ Head(rest) = w[n + 1]
  <2>1. Len(rest) # 0 /\ Head(rest) = rest[1]
    BY <1>4, <1>7, EmptySeq, HeadTailProperties
  <2> QED
    BY <1>1, <1>5, <2>1
<1> QED
  BY <1>3, <1>4, <1>5, <1>6, <1>7

\* Promoting the waiters of a sound lock leaves a sound lock whose head
\* waiter conflicts with the owners, and moves requests only.
LEMMA PromoteSound ==
    ASSUME NEW ll, LockOK(ll)
    PROVE  /\ LockOK(Promote(ll))
           /\ ~HeadCanAcquire(Promote(ll))
           /\ NothingNew(Promote(ll), ll)
<1>0. PICK R, o, w, n : /\ R = LockReq(Action, Tid) /\ n = PromotedCount(ll)
                        /\ o = ll.owners /\ w = ll.waiters
  OBVIOUS
<1>1. ll \in Lock(Action, Tid) /\ o \in Seq(R) /\ w \in Seq(R)
  BY <1>0 DEF LockOK, Lock
<1>2. /\ Len(o) \in Nat /\ DOMAIN o = 1 .. Len(o) /\ (o = <<>> <=> Len(o) = 0)
      /\ Len(w) \in Nat /\ DOMAIN w = 1 .. Len(w)
      /\ \A i \in 1 .. Len(o) : o[i].dlm \in {SHARED, EXCL}
      /\ \A i \in 1 .. Len(w) : w[i].dlm \in {SHARED, EXCL}
  <2>1. /\ Len(o) \in Nat /\ DOMAIN o = 1 .. Len(o) /\ (o = <<>> <=> Len(o) = 0)
        /\ Len(w) \in Nat /\ DOMAIN w = 1 .. Len(w)
    BY <1>1, LenProperties, EmptySeq
  <2>2. /\ \A i \in 1 .. Len(o) : o[i] \in R /\ o[i].dlm # NOLOCK
        /\ \A i \in 1 .. Len(w) : w[i] \in R /\ w[i].dlm # NOLOCK
    BY <1>0, <1>1, <2>1, ElementOfSeq DEF LockOK, AllLock
  <2> QED
    BY <1>0, <2>1, <2>2 DEF LockReq, LockMode
<1>3. /\ n \in 0 .. Len(w)
      /\ \A m \in 0 .. n - 1 : Compatible(DlmAfter(ll, m), w[m + 1].dlm)
      /\ n < Len(w) => ~Compatible(DlmAfter(ll, n), w[n + 1].dlm)
  BY <1>0, <1>1, PromotedCountSpec
<1>4. /\ AllShared(o) \/ Len(o) <= 1
      /\ ll.dlm = IF Len(o) = 0 THEN NOLOCK ELSE o[Len(o)].dlm
  BY <1>0, <1>2 DEF LockOK
\* After at least one promotion the mode is that of the last one promoted.
<1>5. DlmAfter(ll, 0) = ll.dlm /\ \A m \in 1 .. Len(w) : DlmAfter(ll, m) = w[m].dlm
  <2>1. DlmAfter(ll, 0) = ll.dlm
    BY DEF DlmAfter
  <2> SUFFICES ASSUME NEW m \in 1 .. Len(w) PROVE DlmAfter(ll, m) = w[m].dlm
    BY <2>1
  <2>2. PICK all : all = o \o SubSeq(w, 1, m)
    OBVIOUS
  <2>3. /\ all \in Seq(R) /\ Len(all) = Len(o) + m /\ DOMAIN all = 1 .. Len(o) + m
        /\ \A i \in 1 .. Len(o) + m : all[i] = IF i <= Len(o) THEN o[i] ELSE w[i - Len(o)]
    BY <1>1, <1>2, <2>2, MovedWaiters
  <2>4. \A i \in DOMAIN all : all[i].dlm # NOLOCK
    <3> SUFFICES ASSUME NEW i \in 1 .. Len(o) + m PROVE all[i].dlm \in {SHARED, EXCL}
      BY <2>3 DEF NOLOCK, SHARED, EXCL
    <3>1. CASE i <= Len(o)
      <4>1. i \in 1 .. Len(o) /\ all[i] = o[i]
        BY <1>2, <2>3, <3>1
      <4> QED
        BY <1>2, <4>1
    <3>2. CASE ~(i <= Len(o))
      <4>1. i - Len(o) \in 1 .. Len(w) /\ all[i] = w[i - Len(o)]
        BY <1>2, <2>3, <3>2
      <4> QED
        BY <1>2, <4>1
    <3> QED
      BY <3>1, <3>2
  <2>5. Len(all) # 0 /\ all[Len(all)] = w[m]
    <3>1. Len(o) + m \in 1 .. Len(o) + m /\ ~(Len(o) + m <= Len(o)) /\ Len(o) + m - Len(o) = m
      BY <1>2
    <3> QED
      BY <2>3, <3>1
  <2>6. Watermark(all) = w[m].dlm
    BY <1>0, <2>3, <2>4, <2>5, EmptySeq, WatermarkIsLast DEF AllLock
  <2> QED
    BY <1>0, <2>2, <2>6 DEF DlmAfter
<1>6. PICK all, rest, p : /\ all = o \o SubSeq(w, 1, n)
                          /\ rest = SubSeq(w, n + 1, Len(w))
                          /\ p = Promote(ll)
  OBVIOUS
<1>7. /\ all \in Seq(R) /\ Len(all) = Len(o) + n /\ DOMAIN all = 1 .. Len(o) + n
      /\ \A i \in 1 .. Len(o) + n : all[i] = IF i <= Len(o) THEN o[i] ELSE w[i - Len(o)]
  BY <1>1, <1>3, <1>6, MovedWaiters
<1>8. /\ rest \in Seq(R) /\ Len(rest) = Len(w) - n /\ DOMAIN rest = 1 .. Len(w) - n
      /\ \A i \in 1 .. Len(w) - n : rest[i] = w[n + i]
      /\ rest # <<>> => n < Len(w) /\ Head(rest) = w[n + 1]
  BY <1>1, <1>3, <1>6, LeftWaiters
<1>9. p = [dlm |-> DlmAfter(ll, n), owners |-> all, waiters |-> rest]
  BY <1>0, <1>6 DEF Promote
<1>10. n > 0 => (Len(o) = 0 \/ (AllShared(o) /\ w[1].dlm = SHARED))
  <2> SUFFICES ASSUME n > 0, Len(o) # 0 PROVE AllShared(o) /\ w[1].dlm = SHARED
    OBVIOUS
  <2>1. Compatible(ll.dlm, w[1].dlm) /\ 1 \in 1 .. Len(w)
    BY <1>2, <1>3, <1>5
  <2>2. ll.dlm \in {SHARED, EXCL} /\ ll.dlm = o[Len(o)].dlm
    BY <1>2, <1>4
  <2>3. ll.dlm = SHARED /\ w[1].dlm = SHARED
    BY <1>2, <2>1, <2>2 DEF Compatible, NOLOCK, SHARED, EXCL
  <2>4. AllShared(o)
    <3>1. CASE AllShared(o)
      BY <3>1, Zenon
    <3>2. CASE Len(o) <= 1
      <4>1. Len(o) = 1
        BY <1>2, <3>2
      <4>a. \A i \in 1 .. Len(o) : i = Len(o)
        BY <4>1
      <4>2. o[Len(o)].dlm = SHARED
        BY <2>2, <2>3
      <4> QED
        BY <1>2, <4>2, <4>a DEF AllShared
    <3> QED
      BY <1>4, <3>1, <3>2
  <2> QED
    BY <2>3, <2>4
<1>11. \A m \in 1 .. n - 1 : w[m].dlm = SHARED /\ w[m + 1].dlm = SHARED
  <2> TAKE m \in 1 .. n - 1
  <2>1. m \in 0 .. n - 1 /\ m \in 1 .. Len(w) /\ m + 1 \in 1 .. Len(w)
    BY <1>2, <1>3
  <2>2. Compatible(w[m].dlm, w[m + 1].dlm)
    BY <1>3, <1>5, <2>1
  <2> QED
    BY <1>2, <2>1, <2>2 DEF Compatible, NOLOCK, SHARED, EXCL
<1>12. AllShared(all) \/ Len(all) <= 1
  <2>1. CASE n = 0
    <3>1. \A i \in 1 .. Len(o) : all[i] = o[i]
      BY <1>2, <1>7, <2>1
    <3> QED
      BY <1>2, <1>4, <1>7, <2>1, <3>1 DEF AllShared
  <2>2. CASE n = 1
    <3>1. Len(o) = 0 => Len(all) = 1
      BY <1>7, <2>2
    <3>2. AllShared(o) /\ w[1].dlm = SHARED => AllShared(all)
      <4> SUFFICES ASSUME AllShared(o), w[1].dlm = SHARED, NEW i \in 1 .. Len(o) + 1
                   PROVE  all[i].dlm = SHARED
        BY <1>7, <2>2 DEF AllShared
      <4>1. CASE i <= Len(o)
        BY <1>2, <1>7, <2>2, <4>1 DEF AllShared
      <4>2. CASE ~(i <= Len(o))
        <5>1. i - Len(o) = 1
          BY <1>2, <4>2
        <5> QED
          BY <1>7, <2>2, <4>2, <5>1
      <4> QED
        BY <4>1, <4>2
    <3> QED
      BY <1>10, <2>2, <3>1, <3>2
  <2>3. CASE n > 1
    <3>1. \A m \in 1 .. n : w[m].dlm = SHARED
      <4> TAKE m \in 1 .. n
      <4>1. CASE m < n
        BY <1>3, <1>11, <4>1
      <4>2. CASE m = n
        <5>1. n - 1 \in 1 .. n - 1 /\ n - 1 + 1 = n
          BY <1>3, <2>3
        <5> QED
          BY <1>11, <4>2, <5>1
      <4> QED
        BY <1>3, <4>1, <4>2
    <3>2. \A i \in 1 .. Len(o) : o[i].dlm = SHARED
      BY <1>2, <1>3, <1>10, <2>3 DEF AllShared
    <3>3. ASSUME NEW i \in 1 .. Len(o) + n PROVE all[i].dlm = SHARED
      <4>1. CASE i <= Len(o)
        <5>1. i \in 1 .. Len(o) /\ all[i] = o[i]
          BY <1>2, <1>3, <1>7, <4>1
        <5> QED
          BY <3>2, <5>1, Zenon
      <4>2. CASE ~(i <= Len(o))
        <5>1. Len(o) \in Nat /\ n \in Nat
          BY <1>2, <1>3
        <5>2. i - Len(o) \in 1 .. n
          BY <4>2, <5>1, PlaceOfMoved, Zenon
        <5>3. all[i] = w[i - Len(o)]
          BY <1>7, <4>2, Zenon
        <5> QED
          BY <3>1, <5>2, <5>3, Zenon
      <4> QED
        BY <4>1, <4>2
    <3> QED
      BY <1>7, <3>3, Zenon DEF AllShared
  <2> QED
    BY <1>3, <2>1, <2>2, <2>3
<1>13. AllLock(all) /\ AllLock(rest)
  <2>1. ASSUME NEW i \in DOMAIN all PROVE all[i].dlm \in {SHARED, EXCL}
    <3>1. CASE i <= Len(o)
      <4>1. i \in DOMAIN o /\ all[i] = o[i]
        BY <1>2, <1>7, <3>1
      <4> QED
        BY <1>2, <4>1, Zenon
    <3>2. CASE ~(i <= Len(o))
      <4>1. /\ Len(o) \in Nat /\ n \in Nat /\ \A m \in 1 .. n : m \in DOMAIN w
            /\ i \in 1 .. Len(o) + n
        BY <1>2, <1>3, <1>7
      <4>2. i - Len(o) \in 1 .. n
        BY <3>2, <4>1, PlaceOfMoved, Zenon
      <4>3. i - Len(o) \in DOMAIN w /\ all[i] = w[i - Len(o)]
        BY <1>7, <3>2, <4>1, <4>2, Zenon
      <4> QED
        BY <1>2, <4>3, Zenon
    <3> QED
      BY <3>1, <3>2
  <2>2. \A i \in DOMAIN rest : rest[i].dlm \in {SHARED, EXCL}
    BY <1>2, <1>3, <1>8
  <2> QED
    BY <2>1, <2>2 DEF AllLock, NOLOCK, SHARED, EXCL
<1>14. p.dlm = IF p.owners = <<>> THEN NOLOCK ELSE p.owners[Len(p.owners)].dlm
  <2>1. all = <<>> <=> Len(all) = 0
    BY <1>7, EmptySeq
  <2>2. CASE n = 0
    <3>1. Len(all) = Len(o) /\ \A i \in 1 .. Len(o) : all[i] = o[i]
      BY <1>2, <1>7, <2>2
    <3>2. Len(o) # 0 => all[Len(all)] = o[Len(o)]
      BY <1>2, <3>1
    <3> QED
      BY <1>4, <1>5, <1>9, <2>1, <2>2, <3>1, <3>2
  <2>3. CASE n > 0
    <3>1. /\ Len(o) + n \in 1 .. Len(o) + n /\ ~(Len(o) + n <= Len(o))
          /\ Len(o) + n - Len(o) = n /\ n \in 1 .. Len(w) /\ Len(o) + n # 0
      BY <1>2, <1>3, <2>3
    <3>2. all[Len(all)] = w[n] /\ all # <<>>
      BY <1>7, <2>1, <3>1
    <3> QED
      BY <1>5, <1>9, <3>1, <3>2
  <2> QED
    BY <1>3, <2>2, <2>3
<1>15. p \in Lock(Action, Tid)
  <2>1. DlmAfter(ll, n) \in LockMode
    <3>1. CASE n = 0
      BY <1>1, <1>5, <3>1 DEF Lock
    <3>2. CASE n > 0
      BY <1>2, <1>3, <1>5, <3>2 DEF LockMode
    <3> QED
      BY <1>3, <3>1, <3>2
  <2> QED
    BY <1>0, <1>7, <1>8, <1>9, <2>1 DEF Lock
<1>16. ~HeadCanAcquire(p)
  BY <1>3, <1>8, <1>9 DEF HeadCanAcquire
<1>17. \A i \in DOMAIN p.owners :
          (\E j \in DOMAIN o : p.owners[i] = o[j]) \/ (\E j \in DOMAIN w : p.owners[i] = w[j])
  <2> SUFFICES ASSUME NEW i \in 1 .. Len(o) + n
               PROVE  (\E j \in DOMAIN o : all[i] = o[j]) \/ (\E j \in DOMAIN w : all[i] = w[j])
    BY <1>7, <1>9
  <2>1. CASE i <= Len(o)
    <3>1. i \in DOMAIN o /\ all[i] = o[i]
      BY <1>2, <1>7, <2>1
    <3> QED
      BY <3>1
  <2>2. CASE ~(i <= Len(o))
    <3>1. i - Len(o) \in DOMAIN w /\ all[i] = w[i - Len(o)]
      BY <1>2, <1>3, <1>7, <2>2
    <3> QED
      BY <3>1
  <2> QED
    BY <2>1, <2>2
<1>18. \A i \in DOMAIN p.waiters : \E j \in DOMAIN w : p.waiters[i] = w[j]
  <2> SUFFICES ASSUME NEW i \in 1 .. Len(w) - n PROVE \E j \in DOMAIN w : rest[i] = w[j]
    BY <1>8, <1>9
  <2>1. n + i \in DOMAIN w /\ rest[i] = w[n + i]
    BY <1>2, <1>3, <1>8
  <2> QED
    BY <2>1
<1>19. LockOK(p)
  BY <1>9, <1>12, <1>13, <1>14, <1>15 DEF LockOK
<1>20. NothingNew(p, ll)
  BY <1>0, <1>17, <1>18 DEF NothingNew
<1> QED
  BY <1>6, <1>16, <1>19, <1>20

-----------------------------------------------------------------------------
\* The owners that stay when the first one of a transaction is erased.
LEMMA ErasedOwners ==
    ASSUME NEW ll \in Lock(Action, Tid), NEW t, OwnedBy(ll, t) # {}
    PROVE  LET e == EraseOwner(ll, t)
           IN  /\ e \in Seq(LockReq(Action, Tid))
               /\ Len(e) = Len(ll.owners) - 1
               /\ \A i \in DOMAIN e : \E j \in DOMAIN ll.owners : e[i] = ll.owners[j]
               /\ \E i \in OwnedBy(ll, t) : \A k \in DOMAIN e :
                     e[k] = ll.owners[IF k < i THEN k ELSE k + 1]
<1>0. PICK R, o : R = LockReq(Action, Tid) /\ o = ll.owners
  OBVIOUS
<1>1. o \in Seq(R) /\ Len(o) \in Nat /\ DOMAIN o = 1 .. Len(o)
  BY <1>0, LenProperties DEF Lock
<1>2. OwnedBy(ll, t) \in SUBSET Nat /\ OwnedBy(ll, t) \subseteq DOMAIN o
  BY <1>0, <1>1 DEF OwnedBy
<1>3. \E i \in OwnedBy(ll, t) : \A k \in OwnedBy(ll, t) : i <= k
  BY <1>2, LeastNatural
<1>4. PICK i : i = CHOOSE j \in OwnedBy(ll, t) : \A k \in OwnedBy(ll, t) : j <= k
  OBVIOUS
<1>5. i \in 1 .. Len(o) /\ i \in OwnedBy(ll, t)
  BY <1>1, <1>2, <1>3, <1>4
<1>6. PICK u, v, e : /\ u = SubSeq(o, 1, i - 1) /\ v = SubSeq(o, i + 1, Len(o))
                     /\ e = u \o v
  OBVIOUS
<1>7. i - 1 \in 0 .. Len(o) /\ i \in 0 .. Len(o) /\ \A k \in 1 .. i - 1 : k \in DOMAIN o
  BY <1>1, <1>5
<1>9. /\ u \in Seq(R) /\ Len(u) = i - 1
      /\ \A k \in 1 .. i - 1 : u[k] = o[k]
  BY <1>1, <1>6, <1>7, FirstRequests, Zenon
<1>10. /\ v \in Seq(R) /\ Len(v) = Len(o) - i
       /\ \A k \in 1 .. Len(o) - i : v[k] = o[i + k]
  BY <1>1, <1>6, <1>7, LeftWaiters, Zenon
<1>11. /\ e \in Seq(R) /\ Len(e) = Len(u) + Len(v)
       /\ \A k \in 1 .. Len(u) + Len(v) : e[k] = IF k <= Len(u) THEN u[k] ELSE v[k - Len(u)]
  <2>1. u \in Seq(R) /\ v \in Seq(R) /\ e = u \o v
    BY <1>6, <1>9, <1>10
  <2> QED
    BY <2>1, ConcatProperties, Zenon
<1>12. Len(e) = Len(o) - 1
  BY <1>1, <1>5, <1>9, <1>10, <1>11
<1>13. DOMAIN e = 1 .. Len(o) - 1
  BY <1>11, <1>12, LenProperties
<1>14. ASSUME NEW k \in 1 .. Len(o) - 1
       PROVE  /\ (IF k < i THEN k ELSE k + 1) \in DOMAIN o
              /\ e[k] = o[IF k < i THEN k ELSE k + 1]
  <2>1. k \in 1 .. Len(u) + Len(v)
    BY <1>11, <1>12
  <2>2. CASE k <= i - 1
    <3>1. k \in 1 .. i - 1 /\ k < i
      BY <1>1, <1>5, <2>2
    <3> QED
      BY <1>7, <1>9, <1>11, <2>1, <2>2, <3>1
  <2>3. CASE ~(k <= i - 1)
    <3>1. /\ k - (i - 1) \in 1 .. Len(o) - i /\ i + (k - (i - 1)) = k + 1
          /\ k + 1 \in 1 .. Len(o) /\ ~(k < i)
      BY <1>1, <1>5, <2>3
    <3>2. e[k] = v[k - (i - 1)]
      BY <1>9, <1>11, <2>1, <2>3
    <3> QED
      BY <1>1, <1>10, <3>1, <3>2
  <2> QED
    BY <2>2, <2>3
<1>15. e = EraseOwner(ll, t)
  BY <1>0, <1>4, <1>6 DEF EraseOwner
<1>16. \A k \in DOMAIN e : \E j \in DOMAIN o : e[k] = o[j]
  BY <1>13, <1>14
<1>17. \E j \in OwnedBy(ll, t) : \A k \in DOMAIN e : e[k] = o[IF k < j THEN k ELSE k + 1]
  BY <1>5, <1>13, <1>14
<1> QED
  BY <1>0, <1>11, <1>12, <1>15, <1>16, <1>17

\* release() turns a sound lock into a sound lock, whether the transaction
\* owned it or not, and leaves no waiter behind that could acquire it.
LEMMA ReleaseSound ==
    ASSUME NEW ll, NEW t, LockOK(ll), ~HeadCanAcquire(ll)
    PROVE  /\ LockOK(Release(ll, t))
           /\ ~HeadCanAcquire(Release(ll, t))
           /\ NothingNew(Release(ll, t), ll)
<1>1. CASE OwnedBy(ll, t) = {}
  BY <1>1, PromoteSound DEF Release
<1>2. CASE OwnedBy(ll, t) # {}
  <2>1. PICK e, freed : /\ e = EraseOwner(ll, t)
                        /\ freed = [ll EXCEPT !.owners = e, !.dlm = Watermark(e)]
    OBVIOUS
  <2>2. ll \in Lock(Action, Tid)
    BY DEF LockOK
  <2>3. /\ e \in Seq(LockReq(Action, Tid)) /\ Len(e) = Len(ll.owners) - 1
        /\ \A i \in DOMAIN e : \E j \in DOMAIN ll.owners : e[i] = ll.owners[j]
    BY <1>2, <2>1, <2>2, ErasedOwners
  <2>4. /\ freed.owners = e /\ freed.waiters = ll.waiters /\ freed.dlm = Watermark(e)
        /\ freed = [dlm |-> Watermark(e), owners |-> e, waiters |-> ll.waiters]
    BY <2>1, <2>2 DEF Lock
  <2>5. AllLock(e)
    BY <2>3 DEF LockOK, AllLock
  <2>6. Watermark(e) = IF e = <<>> THEN NOLOCK ELSE e[Len(e)].dlm
    BY <2>3, <2>5, WatermarkIsLast
  <2>7. Watermark(e) \in LockMode
    <3>1. CASE e = <<>>
      BY <2>6, <3>1 DEF LockMode
    <3>2. CASE e # <<>>
      <4>1. Len(e) \in DOMAIN e
        BY <2>3, <3>2, LenProperties, EmptySeq
      <4>2. e[Len(e)] \in LockReq(Action, Tid)
        BY <2>3, <4>1, LenProperties, ElementOfSeq
      <4> QED
        BY <2>6, <3>2, <4>2 DEF LockReq
    <3> QED
      BY <3>1, <3>2
  <2>8. AllShared(e) \/ Len(e) <= 1
    <3>1. Len(ll.owners) \in Nat
      BY <2>2, LenProperties DEF Lock
    <3>2. AllShared(ll.owners) => AllShared(e)
      BY <2>3 DEF AllShared
    <3>3. Len(ll.owners) <= 1 => Len(e) <= 1
      BY <2>3, <3>1
    <3> QED
      BY <3>2, <3>3 DEF LockOK
  <2>9. LockOK(freed)
    <3>1. freed \in Lock(Action, Tid)
      BY <2>2, <2>3, <2>4, <2>7 DEF Lock
    <3> QED
      BY <2>4, <2>5, <2>6, <2>8, <3>1 DEF LockOK
  <2>10. NothingNew(freed, ll)
    BY <2>3, <2>4 DEF NothingNew
  <2>11. Release(ll, t) = IF freed.dlm = ll.dlm THEN freed ELSE Promote(freed)
    BY <1>2, <2>1 DEF Release
  <2>12. CASE freed.dlm = ll.dlm
    <3>1. ~HeadCanAcquire(freed)
      BY <2>4, <2>12 DEF HeadCanAcquire
    <3> QED
      BY <2>9, <2>10, <2>11, <2>12, <3>1
  <2>13. CASE freed.dlm # ll.dlm
    <3>1. /\ LockOK(Promote(freed)) /\ ~HeadCanAcquire(Promote(freed))
          /\ NothingNew(Promote(freed), freed)
      BY <2>9, PromoteSound
    <3>2. NothingNew(Promote(freed), ll)
      BY <2>10, <3>1 DEF NothingNew
    <3> QED
      BY <2>11, <2>13, <3>1, <3>2
  <2> QED
    BY <2>12, <2>13
<1> QED
  BY <1>1, <1>2

\* acquire() turns a sound lock into a sound lock when the transaction is
\* not an owner yet and the request really locks; the lock holds the request
\* and what it held before, and a request that need not wait is an owner.
LEMMA AcquireSound ==
    ASSUME NEW ll, NEW req \in LockReq(Action, Tid), LockOK(ll), ~HeadCanAcquire(ll),
           req.dlm # NOLOCK, OwnedBy(ll, req.tid) = {}
    PROVE  LET after == Acquire(ll, req)
           IN  /\ LockOK(after)
               /\ ~HeadCanAcquire(after)
               /\ \A i \in DOMAIN after.owners :
                     after.owners[i] = req \/ \E j \in DOMAIN ll.owners : after.owners[i] = ll.owners[j]
               /\ \A i \in DOMAIN after.waiters :
                     after.waiters[i] = req \/ \E j \in DOMAIN ll.waiters : after.waiters[i] = ll.waiters[j]
<1>0. PICK R, o, w, after : /\ R = LockReq(Action, Tid) /\ o = ll.owners /\ w = ll.waiters
                            /\ after = Acquire(ll, req)
  OBVIOUS
<1>1. ll \in Lock(Action, Tid) /\ o \in Seq(R) /\ w \in Seq(R) /\ req \in R
  BY <1>0 DEF LockOK, Lock
<1>2. /\ Len(o) \in Nat /\ DOMAIN o = 1 .. Len(o) /\ (o = <<>> <=> Len(o) = 0)
      /\ Len(w) \in Nat /\ DOMAIN w = 1 .. Len(w) /\ (w = <<>> <=> Len(w) = 0)
  BY <1>1, LenProperties, EmptySeq
<1>3. /\ \A i \in DOMAIN o : o[i].dlm # NOLOCK
      /\ \A i \in DOMAIN w : w[i].dlm # NOLOCK
      /\ AllShared(o) \/ Len(o) <= 1
      /\ ll.dlm = IF o = <<>> THEN NOLOCK ELSE o[Len(o)].dlm
  BY <1>0 DEF LockOK, AllLock
<1>4. ll = [dlm |-> ll.dlm, owners |-> o, waiters |-> w] /\ ll.dlm \in LockMode
  BY <1>0, <1>1 DEF Lock
<1>5. req.dlm \in {SHARED, EXCL}
  BY <1>0, <1>1 DEF LockReq, LockMode
<1>6. CASE MustWait(ll, req)
  <2>1. PICK v : v = Append(w, req)
    OBVIOUS
  <2>2. /\ v \in Seq(R) /\ Len(v) = Len(w) + 1 /\ v[Len(w) + 1] = req
        /\ \A i \in 1 .. Len(w) : v[i] = w[i]
    BY <1>1, <2>1, AppendProperties
  <2>3. DOMAIN v = 1 .. Len(w) + 1 /\ v # <<>>
    BY <1>2, <2>2, LenProperties, EmptySeq
  <2>4. after = [dlm |-> ll.dlm, owners |-> o, waiters |-> v]
    BY <1>0, <1>4, <1>6, <2>1 DEF Acquire
  <2>5. \A i \in DOMAIN v : v[i] = req \/ \E j \in DOMAIN w : v[i] = w[j]
    <3> SUFFICES ASSUME NEW i \in 1 .. Len(w) + 1, v[i] # req
                 PROVE  \E j \in DOMAIN w : v[i] = w[j]
      BY <2>3
    <3>1. i \in 1 .. Len(w)
      BY <1>2, <2>2
    <3> QED
      BY <1>2, <2>2, <3>1
  <2>6. AllLock(v)
    BY <1>3, <2>5 DEF AllLock
  <2>7. LockOK(after)
    <3>1. after \in Lock(Action, Tid)
      BY <1>0, <1>1, <1>4, <2>2, <2>4 DEF Lock
    <3> QED
      BY <1>3, <2>4, <2>6, <3>1 DEF LockOK, AllLock
  <2>8. ~HeadCanAcquire(after)
    <3>1. Head(v) = v[1]
      BY <2>2, <2>3, HeadTailProperties
    <3>2. CASE w = <<>>
      <4>1. ~Compatible(ll.dlm, req.dlm)
        BY <1>0, <1>6, <3>2 DEF MustWait
      <4>2. v[1] = req
        BY <1>2, <2>2, <3>2
      <4> QED
        BY <2>4, <3>1, <4>1, <4>2 DEF HeadCanAcquire
    <3>3. CASE w # <<>>
      <4>1. v[1] = w[1]
        BY <1>2, <2>2, <3>3
      <4>2. Head(w) = w[1]
        BY <1>1, <3>3, HeadTailProperties
      <4>3. ~Compatible(ll.dlm, Head(w).dlm)
        BY <1>0, <3>3 DEF HeadCanAcquire
      <4> QED
        BY <2>4, <3>1, <4>1, <4>2, <4>3 DEF HeadCanAcquire
    <3> QED
      BY <3>2, <3>3
  <2>9. \A i \in DOMAIN o : after.owners[i] = o[i]
    BY <2>4
  <2> QED
    BY <1>0, <2>4, <2>5, <2>7, <2>8
<1>7. CASE ~MustWait(ll, req)
  <2>1. PICK v : v = Append(o, req)
    OBVIOUS
  <2>2. /\ v \in Seq(R) /\ Len(v) = Len(o) + 1 /\ v[Len(o) + 1] = req
        /\ \A i \in 1 .. Len(o) : v[i] = o[i]
    BY <1>1, <2>1, AppendProperties
  <2>3. DOMAIN v = 1 .. Len(o) + 1 /\ v # <<>>
    BY <1>2, <2>2, LenProperties, EmptySeq
  <2>4. after = [dlm |-> req.dlm, owners |-> v, waiters |-> w]
    BY <1>0, <1>4, <1>7, <2>1 DEF Acquire
  <2>5. \A i \in DOMAIN v : v[i] = req \/ \E j \in DOMAIN o : v[i] = o[j]
    <3> SUFFICES ASSUME NEW i \in 1 .. Len(o) + 1, v[i] # req
                 PROVE  \E j \in DOMAIN o : v[i] = o[j]
      BY <2>3
    <3>1. i \in 1 .. Len(o)
      BY <1>2, <2>2
    <3> QED
      BY <1>2, <2>2, <3>1
  <2>6. AllLock(v)
    BY <1>3, <2>5 DEF AllLock
  <2>7. Compatible(ll.dlm, req.dlm) /\ \A i \in DOMAIN w : Compatible(w[i].dlm, req.dlm)
    BY <1>0, <1>7 DEF MustWait
  \* The owners there were share with the new one.
  <2>8. AllShared(v) \/ Len(v) <= 1
    <3>1. CASE Len(o) = 0
      BY <2>2, <3>1
    <3>2. CASE Len(o) # 0
      <4>1. Len(o) \in DOMAIN o /\ ll.dlm = o[Len(o)].dlm
        BY <1>2, <1>3, <3>2
      <4>2. ll.dlm = SHARED /\ req.dlm = SHARED
        BY <1>3, <1>5, <2>7, <4>1 DEF Compatible, NOLOCK, SHARED, EXCL
      <4>3. AllShared(o)
        <5>1. CASE Len(o) <= 1
          <6>1. Len(o) = 1
            BY <1>2, <3>2, <5>1
          <6>2. \A i \in 1 .. Len(o) : i = Len(o)
            BY <6>1
          <6> QED
            BY <1>2, <4>1, <4>2, <6>2 DEF AllShared
        <5> QED
          BY <1>3, <5>1, Zenon
      <4> QED
        BY <2>5, <4>2, <4>3 DEF AllShared
    <3> QED
      BY <3>1, <3>2
  <2>9. LockOK(after)
    <3>1. after \in Lock(Action, Tid)
      BY <1>0, <1>1, <1>4, <2>2, <2>4 DEF Lock, LockReq
    <3> QED
      BY <1>3, <2>2, <2>3, <2>4, <2>6, <2>8, <3>1 DEF LockOK, AllLock
  \* A request may only pass the waiters when there are none it conflicts
  \* with; so it and the head of the waiters share, and the lock was shared
  \* or free, and the head was not blocked: there are no waiters.
  <2>10. ~HeadCanAcquire(after)
    <3> SUFFICES ASSUME w # <<>>, Compatible(req.dlm, Head(w).dlm) PROVE FALSE
      BY <2>4 DEF HeadCanAcquire
    <3>1. Head(w) = w[1] /\ 1 \in DOMAIN w
      BY <1>1, <1>2, HeadTailProperties
    <3>2. w[1].dlm # NOLOCK
      BY <1>3, <3>1
    <3>3. req.dlm = SHARED /\ w[1].dlm = SHARED
      BY <1>5, <3>1, <3>2 DEF Compatible, NOLOCK, SHARED, EXCL
    <3>4. ~Compatible(ll.dlm, w[1].dlm)
      BY <1>0, <3>1 DEF HeadCanAcquire
    <3> QED
      BY <2>7, <3>3, <3>4
  <2>11. \A i \in DOMAIN w : after.waiters[i] = w[i]
    BY <2>4
  <2> QED
    BY <1>0, <2>4, <2>5, <2>9, <2>10
<1> QED
  BY <1>6, <1>7

-----------------------------------------------------------------------------
\* What an action asks for is a request, and it really locks.
LEMMA ReqType ==
    ASSUME NEW a \in Action
    PROVE  /\ Req(a) \in LockReq(Action, Tid) /\ Req(a).dlm # NOLOCK
           /\ Req(a).action = a /\ Req(a).tid = TidOf[a]
  BY ConstantsAssumption DEF Req, LockReq, LockMode, NOLOCK, SHARED, EXCL

\* The number of keys in a set of keys is an integer.
LEMMA KeyCount ==
    ASSUME NEW S \in SUBSET Key
    PROVE  Cardinality(S) \in Int
<1>1. IsFiniteSet(Key) /\ S \subseteq Key
  BY ConstantsAssumption
<1>2. Cardinality(S) \in Nat
  BY <1>1, FS_CardinalityType, FS_Subset
<1> QED
  BY <1>2

\* The constructor makes a sound lock.
LEMMA NewLockSound ==
    ASSUME NEW a \in Action
    PROVE  /\ LockOK(NewLock(Req(a))) /\ ~HeadCanAcquire(NewLock(Req(a)))
           /\ \A i \in DOMAIN NewLock(Req(a)).owners : NewLock(Req(a)).owners[i] = Req(a)
           /\ \A i \in DOMAIN NewLock(Req(a)).waiters : FALSE
<1>1. PICK r, ll : r = Req(a) /\ ll = NewLock(Req(a))
  OBVIOUS
<1>2. r \in LockReq(Action, Tid) /\ r.dlm # NOLOCK /\ r.dlm \in LockMode
  BY <1>1, ReqType DEF LockReq
<1>3. ll = [dlm |-> r.dlm, owners |-> <<r>>, waiters |-> <<>>]
  BY <1>1 DEF NewLock
<1>4. /\ <<r>> \in Seq(LockReq(Action, Tid)) /\ <<>> \in Seq(LockReq(Action, Tid))
      /\ Len(<<r>>) = 1 /\ DOMAIN <<r>> = {1} /\ <<r>>[1] = r /\ <<r>> # <<>>
      /\ DOMAIN << >> = {}
  BY <1>2
<1>5. LockOK(ll)
  BY <1>2, <1>3, <1>4 DEF LockOK, AllLock, AllShared, Lock
<1> QED
  BY <1>1, <1>3, <1>4, <1>5 DEF HeadCanAcquire

\* Requests stay the requests of actions that asked.
LEMMA EntriesLater ==
    ASSUME NEW ph, NEW later, NEW ll, NEW k, Entries(ph, ll, k),
           \A b \in Action : ph[b] # "new" => later[b] # "new"
    PROVE  Entries(later, ll, k)
  BY DEF Entries, Entry

\* A new action's transaction owns none of the action's keys.
LEMMA NewActionOwnsNothing ==
    ASSUME IInv, NEW a \in Action, phase[a] = "new", NEW k \in KeysOf[a] \cap Known
    PROVE  OwnedBy(locks[k], TidOf[a]) = {}
<1> SUFFICES ASSUME NEW i \in DOMAIN locks[k].owners, locks[k].owners[i].tid = TidOf[a]
             PROVE  FALSE
  BY DEF OwnedBy
<1>1. PICK r : r = locks[k].owners[i]
  OBVIOUS
<1>2. Entry(phase, r, k)
  BY <1>1 DEF IInv, EntriesOK, Entries
<1>3. r.action \in Action /\ r = Req(r.action) /\ k \in KeysOf[r.action] /\ phase[r.action] # "new"
  BY <1>2 DEF Entry
<1>4. TidOf[r.action] = TidOf[a] /\ r.action # a
  BY <1>1, <1>3, ReqType
<1> QED
  BY <1>3, <1>4, ConstantsAssumption

-----------------------------------------------------------------------------
\* The invariant holds before any key is asked for.
LEMMA InvInit == Init => IInv
<1> SUFFICES ASSUME Init PROVE IInv
  OBVIOUS
<1>1. Known = {}
  BY DEF Init, Known
<1>2. locks \in [Known -> Lock(Action, Tid)]
  BY <1>1 DEF Init, Known
<1> QED
  BY <1>1, <1>2 DEF Init, IInv, TypeOK, EntriesOK, LocksOK, Phase

\* acquire_all() keeps the invariant: it makes new locks and acquires sound
\* ones on behalf of a transaction that owns none of them.
LEMMA InvAcquireAll ==
    ASSUME IInv, NEW a \in Action, AcquireAll(a)
    PROVE  IInv'
<1>1. /\ Known \subseteq Key /\ KeysOf[a] \subseteq Key /\ phase[a] = "new"
      /\ needed \in [Action -> Int] /\ phase \in [Action -> Phase]
  BY ConstantsAssumption DEF IInv, TypeOK, AcquireAll
<1>2. /\ Known' = Known \cup KeysOf[a]
      /\ \A k \in Known' : locks'[k] = IF k \notin KeysOf[a] THEN locks[k]
                                       ELSE IF k \in Known THEN Acquire(locks[k], Req(a))
                                       ELSE NewLock(Req(a))
      /\ locks' = [k \in Known' |-> locks'[k]]
  BY DEF AcquireAll, Known
<1>3. /\ phase' = [phase EXCEPT ![a] = IF Refused(a) = {} THEN "ready" ELSE "waiting"]
      /\ needed' = [needed EXCEPT ![a] = Cardinality(Refused(a))]
  BY DEF AcquireAll
<1>4. phase' \in [Action -> Phase] /\ phase'[a] # "new"
      /\ \A b \in Action : phase[b] # "new" => phase'[b] # "new"
  BY <1>1, <1>3 DEF Phase
<1>5. needed' \in [Action -> Int]
  <2>1. Cardinality(Refused(a)) \in Int
    BY <1>1, KeyCount DEF Refused
  <2> QED
    BY <1>1, <1>3, <2>1
\* Lock by lock: sound, and its requests are those before and that of a.
<1>6. ASSUME NEW k \in Known'
      PROVE  /\ LockOK(locks'[k]) /\ ~HeadCanAcquire(locks'[k])
             /\ Entries(phase', locks'[k], k)
  <2>1. k \in KeysOf[a] => Entry(phase', Req(a), k)
    BY <1>4, ReqType DEF Entry
  <2>2. ASSUME k \in Known
        PROVE  LockOK(locks[k]) /\ ~HeadCanAcquire(locks[k]) /\ Entries(phase', locks[k], k)
    <3>1. LockOK(locks[k]) /\ ~HeadCanAcquire(locks[k]) /\ Entries(phase, locks[k], k)
      BY <2>2 DEF IInv, LocksOK, EntriesOK
    <3> QED
      BY <1>4, <3>1, EntriesLater
  <2>3. CASE k \notin KeysOf[a]
    <3>1. k \in Known /\ locks'[k] = locks[k]
      BY <1>2, <2>3
    <3> QED
      BY <2>2, <3>1
  <2>4. CASE k \in KeysOf[a] /\ k \in Known
    <3>1. locks'[k] = Acquire(locks[k], Req(a))
      BY <1>2, <2>4
    <3>2. OwnedBy(locks[k], Req(a).tid) = {}
      BY <1>1, <2>4, ReqType, NewActionOwnsNothing
    <3>3. /\ LockOK(locks'[k]) /\ ~HeadCanAcquire(locks'[k])
          /\ \A i \in DOMAIN locks'[k].owners :
                \/ locks'[k].owners[i] = Req(a)
                \/ \E j \in DOMAIN locks[k].owners : locks'[k].owners[i] = locks[k].owners[j]
          /\ \A i \in DOMAIN locks'[k].waiters :
                \/ locks'[k].waiters[i] = Req(a)
                \/ \E j \in DOMAIN locks[k].waiters : locks'[k].waiters[i] = locks[k].waiters[j]
      BY <2>2, <2>4, <3>1, <3>2, ReqType, AcquireSound
    <3>4. Entries(phase', locks'[k], k)
      BY <2>1, <2>2, <2>4, <3>3 DEF Entries
    <3> QED
      BY <3>3, <3>4
  <2>5. CASE k \in KeysOf[a] /\ k \notin Known
    <3>1. locks'[k] = NewLock(Req(a))
      BY <1>2, <2>5
    <3>2. Entries(phase', locks'[k], k)
      BY <2>1, <2>5, <3>1, NewLockSound DEF Entries
    <3> QED
      BY <3>1, <3>2, NewLockSound
  <2> QED
    BY <2>3, <2>4, <2>5
<1>7. TypeOK'
  <2>1. locks' \in [Known' -> Lock(Action, Tid)]
    BY <1>2, <1>6 DEF LockOK
  <2> QED
    BY <1>1, <1>2, <1>4, <1>5, <2>1 DEF TypeOK
<1>8. \A k \in Known' :
         LockOK(locks'[k]) /\ ~HeadCanAcquire(locks'[k]) /\ Entries(phase', locks'[k], k)
  BY <1>6
<1> QED
  BY <1>7, <1>8 DEF IInv, EntriesOK, LocksOK

\* release_all() keeps the invariant: sound locks are released, and no
\* request appears.
LEMMA InvReleaseAll ==
    ASSUME IInv, NEW a \in Action, ReleaseAll(a)
    PROVE  IInv'
<1>1. PICK after : /\ after = [k \in Known |-> IF k \in KeysOf[a]
                                               THEN Release(locks[k], TidOf[a])
                                               ELSE locks[k]]
                   /\ locks' = after
                   /\ needed' = [b \in Action |-> needed[b] - Cardinality(PromotedOn(b, after))]
                   /\ phase' = [b \in Action |->
                         IF b = a THEN "released"
                         ELSE IF /\ PromotedOn(b, after) # {}
                                 /\ needed[b] = Cardinality(PromotedOn(b, after)) THEN "ready"
                         ELSE phase[b]]
  BY DEF ReleaseAll
<1>2. Known \subseteq Key /\ needed \in [Action -> Int] /\ phase \in [Action -> Phase]
  BY DEF IInv, TypeOK
<1>3. /\ Known' = Known
      /\ \A k \in Known : locks'[k] = IF k \in KeysOf[a] THEN Release(locks[k], TidOf[a])
                                      ELSE locks[k]
      /\ locks' = [k \in Known |-> locks'[k]]
  BY <1>1 DEF Known
<1>4. phase' \in [Action -> Phase] /\ \A b \in Action : phase[b] # "new" => phase'[b] # "new"
  BY <1>1, <1>2 DEF Phase
<1>5. needed' \in [Action -> Int]
  <2>1. \A b \in Action : Cardinality(PromotedOn(b, after)) \in Int
    BY <1>2, KeyCount DEF PromotedOn
  <2> QED
    BY <1>1, <1>2, <2>1
<1>6. ASSUME NEW k \in Known
      PROVE  /\ LockOK(locks'[k]) /\ ~HeadCanAcquire(locks'[k])
             /\ Entries(phase', locks'[k], k)
  <2>1. LockOK(locks[k]) /\ ~HeadCanAcquire(locks[k]) /\ Entries(phase, locks[k], k)
    BY DEF IInv, LocksOK, EntriesOK
  <2>2. Entries(phase', locks[k], k)
    BY <1>4, <2>1, EntriesLater
  <2>3. CASE k \in KeysOf[a]
    <3>1. locks'[k] = Release(locks[k], TidOf[a])
      BY <1>3, <2>3
    <3>2. LockOK(locks'[k]) /\ ~HeadCanAcquire(locks'[k]) /\ NothingNew(locks'[k], locks[k])
      BY <2>1, <3>1, ReleaseSound
    <3>3. Entries(phase', locks'[k], k)
      BY <2>2, <3>2 DEF Entries, NothingNew
    <3> QED
      BY <3>2, <3>3
  <2>4. CASE k \notin KeysOf[a]
    <3>1. locks'[k] = locks[k]
      BY <1>3, <2>4
    <3> QED
      BY <2>1, <2>2, <3>1
  <2> QED
    BY <2>3, <2>4
<1>7. TypeOK'
  <2>1. locks' \in [Known' -> Lock(Action, Tid)]
    BY <1>3, <1>6 DEF LockOK
  <2> QED
    BY <1>2, <1>3, <1>4, <1>5, <2>1 DEF TypeOK
<1>8. \A k \in Known' :
         LockOK(locks'[k]) /\ ~HeadCanAcquire(locks'[k]) /\ Entries(phase', locks'[k], k)
  BY <1>3, <1>6
<1> QED
  BY <1>7, <1>8 DEF IInv, EntriesOK, LocksOK

\* Every step of the lock manager keeps the invariant.
LEMMA InvNext == IInv /\ [Next]_vars => IInv'
<1> SUFFICES ASSUME IInv, [Next]_vars PROVE IInv'
  OBVIOUS
<1>1. ASSUME NEW a \in Action, AcquireAll(a) PROVE IInv'
  BY <1>1, InvAcquireAll
<1>2. ASSUME NEW a \in Action, ReleaseAll(a) PROVE IInv'
  BY <1>2, InvReleaseAll
<1>3. CASE UNCHANGED vars
  BY <1>3 DEF vars, IInv, TypeOK, EntriesOK, LocksOK, Known
<1>4. CASE Finished
  BY <1>3, <1>4 DEF Finished
<1> QED
  BY <1>1, <1>2, <1>3, <1>4 DEF Next

\* The invariant holds in every behaviour of the lock manager.
LEMMA Invariance == Spec => []IInv
  BY InvInit, InvNext, PTL DEF Spec

\* The owners of a sound lock hold compatible modes, and its mode tells them.
LEMMA SoundIsIsolated ==
    ASSUME NEW ll, LockOK(ll)
    PROVE  OwnersCompatible(ll) /\ DlmIsWatermark(ll)
<1>1. ll.owners \in Seq(LockReq(Action, Tid)) /\ AllLock(ll.owners)
  BY DEF LockOK, Lock
<1>2. DlmIsWatermark(ll)
  BY <1>1, WatermarkIsLast DEF LockOK, DlmIsWatermark
<1>3. OwnersCompatible(ll)
  <2>1. CASE AllShared(ll.owners)
    BY <2>1 DEF AllShared, OwnersCompatible, Compatible
  <2>2. CASE Len(ll.owners) <= 1
    <3>1. DOMAIN ll.owners = 1 .. Len(ll.owners) /\ Len(ll.owners) \in Nat
      BY <1>1, LenProperties
    <3>2. \A i, j \in DOMAIN ll.owners : i = j
      BY <2>2, <3>1
    <3> QED
      BY <3>2 DEF OwnersCompatible
  <2> QED
    BY <2>1, <2>2 DEF LockOK
<1> QED
  BY <1>2, <1>3

-----------------------------------------------------------------------------
\* The lock map, the counters of _keys_needed and the cycle of the actions
\* keep their types in every behaviour of lock_man_t.
THEOREM TypeCorrect == Spec => []TypeOK
<1>1. IInv => TypeOK
  BY DEF IInv
<1> QED
  BY <1>1, Invariance, PTL

\* No lost promotion, for any keys and actions: between two calls of
\* acquire_all() and release_all() the head of every list of waiters
\* conflicts with the owners.
THEOREM NoLostPromotion == Spec => []HeadIsBlocked
<1>1. IInv => HeadIsBlocked
  BY DEF IInv, LocksOK, HeadIsBlocked
<1> QED
  BY <1>1, Invariance, PTL

\* Isolation, for any keys and actions: acquire_all() and release_all()
\* never let two transactions own a key in conflicting modes, and the mode
\* they compare with is the one the owners hold.
THEOREM Isolation == Spec => []OwnersSound
<1>1. IInv => OwnersSound
  BY SoundIsIsolated DEF IInv, LocksOK, OwnersSound
<1> QED
  BY <1>1, Invariance, PTL

-----------------------------------------------------------------------------
(***************************************************************************)
(* What an action needs.  _keys_needed is right because no action is on a  *)
(* lock twice: acquire_all() puts its request once on each of its keys,    *)
(* release() takes it off again, and promotion moves requests from the     *)
(* waiters to the owners in their order.                                   *)
(***************************************************************************)
Owns(ll, b)   == \E i \in DOMAIN ll.owners : ll.owners[i].action = b
Queues(ll, b) == \E i \in DOMAIN ll.waiters : ll.waiters[i].action = b

OneEach(ll) ==
    /\ \A i, j \in DOMAIN ll.owners : ll.owners[i].action = ll.owners[j].action => i = j
    /\ \A i, j \in DOMAIN ll.waiters : ll.waiters[i].action = ll.waiters[j].action => i = j
    /\ \A i \in DOMAIN ll.owners, j \in DOMAIN ll.waiters :
          ll.owners[i].action # ll.waiters[j].action

QueuedOn(b) == {k \in Known : WaitsFor(b, k)}

\* An action that asked is on all its keys until it released them, and the
\* counter is the number of keys it is queued on.
AskedInv ==
    /\ \A b \in Action : phase[b] \in {"waiting", "ready"} =>
          \A k \in KeysOf[b] : k \in Known /\ (Holds(b, k) \/ WaitsFor(b, k))
    /\ \A b \in Action : phase[b] = "released" =>
          \A k \in Known : ~Holds(b, k) /\ ~WaitsFor(b, k)

CountedInv ==
    \A b \in Action : /\ needed[b] = Cardinality(QueuedOn(b))
                      /\ phase[b] = "waiting" <=> QueuedOn(b) # {}

OnceInv == \A k \in Known : OneEach(locks[k])

NeedInv == OnceInv /\ AskedInv /\ CountedInv

\* Lock `after' is lock `ll' once its first n waiters became owners.
Moved(ll, after, n) ==
    /\ n \in 0 .. Len(ll.waiters)
    /\ DOMAIN after.owners = 1 .. Len(ll.owners) + n
    /\ \A i \in 1 .. Len(ll.owners) + n :
          after.owners[i] = IF i <= Len(ll.owners) THEN ll.owners[i]
                                                   ELSE ll.waiters[i - Len(ll.owners)]
    /\ DOMAIN after.waiters = 1 .. Len(ll.waiters) - n
    /\ \A i \in 1 .. Len(ll.waiters) - n : after.waiters[i] = ll.waiters[n + i]

\* The two lists of a lock.
LEMMA ListsOf ==
    ASSUME NEW ll \in Lock(Action, Tid)
    PROVE  /\ Len(ll.owners) \in Nat /\ DOMAIN ll.owners = 1 .. Len(ll.owners)
           /\ Len(ll.waiters) \in Nat /\ DOMAIN ll.waiters = 1 .. Len(ll.waiters)
  BY LenProperties DEF Lock

\* The promotion loop of release() moves the first waiters, none or more.
LEMMA PromoteMoves ==
    ASSUME NEW ll \in Lock(Action, Tid)
    PROVE  \E n \in Nat : Moved(ll, Promote(ll), n)
<1>0. PICK R, o, w, n : /\ R = LockReq(Action, Tid) /\ n = PromotedCount(ll)
                        /\ o = ll.owners /\ w = ll.waiters
  OBVIOUS
<1>1. o \in Seq(R) /\ w \in Seq(R) /\ Len(o) \in Nat /\ Len(w) \in Nat
  BY <1>0, LenProperties DEF Lock
<1>2. n \in 0 .. Len(w)
  BY <1>0, PromotedCountSpec
<1>3. PICK all, rest, p : /\ all = o \o SubSeq(w, 1, n)
                          /\ rest = SubSeq(w, n + 1, Len(w))
                          /\ p = Promote(ll)
  OBVIOUS
<1>4. /\ DOMAIN all = 1 .. Len(o) + n
      /\ \A i \in 1 .. Len(o) + n : all[i] = IF i <= Len(o) THEN o[i] ELSE w[i - Len(o)]
  BY <1>1, <1>2, <1>3, MovedWaiters
<1>5. /\ DOMAIN rest = 1 .. Len(w) - n
      /\ \A i \in 1 .. Len(w) - n : rest[i] = w[n + i]
  BY <1>1, <1>2, <1>3, LeftWaiters
<1>6. p.owners = all /\ p.waiters = rest
  BY <1>0, <1>3 DEF Promote
<1>7. Moved(ll, p, n)
  BY <1>0, <1>2, <1>4, <1>5, <1>6 DEF Moved
<1> QED
  BY <1>1, <1>2, <1>3, <1>7

\* The place of a waiter when the m waiters before it have left.
LEMMA PlacesLeft ==
    ASSUME NEW L \in Nat, NEW m \in Nat, NEW l \in Nat, l <= L, m + 1 <= l
    PROVE  l - m \in 1 .. L - m /\ m + (l - m) = l
  OBVIOUS

\* Moving waiters keeps every action on the lock, once, and makes nobody wait.
LEMMA MovedKeeps ==
    ASSUME NEW ll \in Lock(Action, Tid), NEW after, NEW n \in Nat, Moved(ll, after, n),
           OneEach(ll)
    PROVE  /\ OneEach(after)
           /\ \A b : Owns(after, b) \/ Queues(after, b) <=> Owns(ll, b) \/ Queues(ll, b)
           /\ \A b : Queues(after, b) => Queues(ll, b)
<1>0. PICK o, w, o2, w2 : /\ o = ll.owners /\ w = ll.waiters
                          /\ o2 = after.owners /\ w2 = after.waiters
  OBVIOUS
<1>1. /\ Len(o) \in Nat /\ DOMAIN o = 1 .. Len(o)
      /\ Len(w) \in Nat /\ DOMAIN w = 1 .. Len(w)
  BY <1>0, ListsOf
<1>2. /\ n \in 0 .. Len(w)
      /\ DOMAIN o2 = 1 .. Len(o) + n /\ DOMAIN w2 = 1 .. Len(w) - n
      /\ \A i \in 1 .. Len(o) + n : o2[i] = IF i <= Len(o) THEN o[i] ELSE w[i - Len(o)]
      /\ \A i \in 1 .. Len(w) - n : w2[i] = w[n + i]
  BY <1>0 DEF Moved
<1>3. /\ \A i, j \in DOMAIN o : o[i].action = o[j].action => i = j
      /\ \A i, j \in DOMAIN w : w[i].action = w[j].action => i = j
      /\ \A i \in DOMAIN o, j \in DOMAIN w : o[i].action # w[j].action
  BY <1>0 DEF OneEach
\* An owner was an owner, or one of the first waiters; the others wait on.
<1>4. \A i \in DOMAIN o2 : \/ i \in DOMAIN o /\ o2[i] = o[i]
                          \/ /\ i - Len(o) \in DOMAIN w /\ i - Len(o) <= n
                             /\ o2[i] = w[i - Len(o)]
  <2> SUFFICES ASSUME NEW i \in DOMAIN o2
               PROVE  \/ i \in DOMAIN o /\ o2[i] = o[i]
                      \/ /\ i - Len(o) \in DOMAIN w /\ i - Len(o) <= n
                         /\ o2[i] = w[i - Len(o)]
    OBVIOUS
  <2>1. i \in 1 .. Len(o) + n
    BY <1>2
  <2>2. CASE i <= Len(o)
    <3>1. i \in DOMAIN o
      BY <1>1, <2>1, <2>2
    <3> QED
      BY <1>2, <2>1, <2>2, <3>1, Zenon
  <2>3. CASE ~(i <= Len(o))
    <3>1. i - Len(o) \in DOMAIN w /\ i - Len(o) <= n
      BY <1>1, <1>2, <2>1, <2>3
    <3> QED
      BY <1>2, <2>1, <2>3, <3>1, Zenon
  <2> QED
    BY <2>2, <2>3
<1>5. \A i \in DOMAIN w2 : n + i \in DOMAIN w /\ ~(n + i <= n) /\ w2[i] = w[n + i]
  BY <1>1, <1>2
<1>6. /\ \A i \in DOMAIN o : i \in DOMAIN o2 /\ o2[i] = o[i]
      /\ \A i \in DOMAIN w : \/ Len(o) + i \in DOMAIN o2 /\ o2[Len(o) + i] = w[i]
                             \/ i - n \in DOMAIN w2 /\ w2[i - n] = w[i]
  <2>1. \A i \in DOMAIN o : i \in DOMAIN o2 /\ o2[i] = o[i]
    BY <1>1, <1>2
  <2>2. ASSUME NEW i \in DOMAIN w, i <= n
        PROVE  Len(o) + i \in DOMAIN o2 /\ o2[Len(o) + i] = w[i]
    <3>1. Len(o) + i \in 1 .. Len(o) + n /\ ~(Len(o) + i <= Len(o)) /\ Len(o) + i - Len(o) = i
      BY <1>1, <1>2, <2>2
    <3> QED
      BY <1>2, <3>1
  <2>3. ASSUME NEW i \in DOMAIN w, ~(i <= n) PROVE i - n \in DOMAIN w2 /\ w2[i - n] = w[i]
    <3>1. i \in Nat /\ n \in Nat /\ i <= Len(w) /\ n + 1 <= i
      BY <1>1, <1>2, <2>3
    <3>2. PICK d : d = i - n
      OBVIOUS
    <3>3. d \in 1 .. Len(w) - n /\ n + d = i
      BY <1>1, <3>1, <3>2, PlacesLeft
    <3>4. d \in DOMAIN w2 /\ w2[d] = w[n + d]
      BY <1>2, <3>3
    <3> QED
      BY <3>2, <3>3, <3>4, Zenon
  <2> QED
    BY <2>1, <2>2, <2>3
<1>7. \A b : Owns(after, b) \/ Queues(after, b) => Owns(ll, b) \/ Queues(ll, b)
  BY <1>0, <1>4, <1>5 DEF Owns, Queues
<1>8. \A b : Owns(ll, b) \/ Queues(ll, b) => Owns(after, b) \/ Queues(after, b)
  BY <1>0, <1>6 DEF Owns, Queues
<1>9. \A b : Queues(after, b) => Queues(ll, b)
  BY <1>0, <1>5 DEF Queues
<1>10. \A i, j \in DOMAIN o2 : o2[i].action = o2[j].action => i = j
  <2> SUFFICES ASSUME NEW i \in DOMAIN o2, NEW j \in DOMAIN o2, o2[i].action = o2[j].action
               PROVE  i = j
    OBVIOUS
  <2>1. CASE i \in DOMAIN o /\ o2[i] = o[i] /\ j \in DOMAIN o /\ o2[j] = o[j]
    BY <1>3, <2>1
  <2>2. CASE /\ i - Len(o) \in DOMAIN w /\ o2[i] = w[i - Len(o)]
             /\ j - Len(o) \in DOMAIN w /\ o2[j] = w[j - Len(o)]
    <3>1. i - Len(o) = j - Len(o)
      BY <1>3, <2>2
    <3> QED
      BY <1>1, <1>2, <3>1
  <2> QED
    BY <1>3, <1>4, <2>1, <2>2
<1>11. \A i, j \in DOMAIN w2 : w2[i].action = w2[j].action => i = j
  <2> SUFFICES ASSUME NEW i \in DOMAIN w2, NEW j \in DOMAIN w2, w2[i].action = w2[j].action
               PROVE  i = j
    OBVIOUS
  <2>1. n + i = n + j
    BY <1>3, <1>5
  <2> QED
    BY <1>1, <1>2, <2>1
<1>12. ASSUME NEW i \in DOMAIN o2, NEW j \in DOMAIN w2 PROVE o2[i].action # w2[j].action
  <2>1. CASE i \in DOMAIN o /\ o2[i] = o[i]
    BY <1>3, <1>5, <2>1
  <2>2. CASE i - Len(o) \in DOMAIN w /\ i - Len(o) <= n /\ o2[i] = w[i - Len(o)]
    <3>1. n + j \in DOMAIN w /\ w2[j] = w[n + j] /\ i - Len(o) # n + j
      BY <1>5, <2>2
    <3> QED
      BY <1>3, <2>2, <3>1
  <2> QED
    BY <1>4, <2>1, <2>2
<1> QED
  BY <1>0, <1>7, <1>8, <1>9, <1>10, <1>11, <1>12 DEF OneEach

\* Who becomes owner was a waiter, and all that queued before it became
\* owners as well.
LEMMA MovedInOrder ==
    ASSUME NEW ll \in Lock(Action, Tid), NEW after, NEW n \in Nat, Moved(ll, after, n),
           NEW b, ~Owns(ll, b), Owns(after, b)
    PROVE  \E p \in DOMAIN ll.waiters :
              /\ ll.waiters[p].action = b
              /\ \A i \in DOMAIN ll.waiters : i < p => Owns(after, ll.waiters[i].action)
<1>0. PICK o, w, o2 : o = ll.owners /\ w = ll.waiters /\ o2 = after.owners
  OBVIOUS
<1>1. /\ Len(o) \in Nat /\ DOMAIN o = 1 .. Len(o)
      /\ Len(w) \in Nat /\ DOMAIN w = 1 .. Len(w)
  BY <1>0, ListsOf
<1>2. /\ n \in 0 .. Len(w) /\ DOMAIN o2 = 1 .. Len(o) + n
      /\ \A i \in 1 .. Len(o) + n : o2[i] = IF i <= Len(o) THEN o[i] ELSE w[i - Len(o)]
  BY <1>0 DEF Moved
<1>3. PICK j \in DOMAIN o2 : o2[j].action = b
  BY <1>0 DEF Owns
<1>4. ~(j <= Len(o))
  <2>1. ASSUME j <= Len(o) PROVE FALSE
    <3>1. j \in DOMAIN o /\ o2[j] = o[j]
      BY <1>1, <1>2, <2>1
    <3> QED
      BY <1>0, <1>3, <3>1 DEF Owns
  <2> QED
    BY <2>1
<1>5. PICK p : p = j - Len(o)
  OBVIOUS
<1>6. p \in DOMAIN w /\ p <= n /\ w[p].action = b
  BY <1>1, <1>2, <1>3, <1>4, <1>5
<1>7. ASSUME NEW i \in DOMAIN w, i < p PROVE Owns(after, w[i].action)
  <2>1. /\ Len(o) + i \in 1 .. Len(o) + n /\ ~(Len(o) + i <= Len(o))
        /\ Len(o) + i - Len(o) = i
    BY <1>1, <1>2, <1>6, <1>7
  <2>2. Len(o) + i \in DOMAIN o2 /\ o2[Len(o) + i] = w[i]
    BY <1>2, <2>1
  <2> QED
    BY <1>0, <2>2 DEF Owns
<1> QED
  BY <1>0, <1>6, <1>7

\* release() by an owner: its first request is erased, and the first waiters
\* of what is left become owners.
LEMMA ReleaseMoves ==
    ASSUME NEW ll, LockOK(ll), NEW t, OwnedBy(ll, t) # {}
    PROVE  \E freed \in Lock(Action, Tid), i \in OwnedBy(ll, t), n \in Nat :
              /\ freed.waiters = ll.waiters
              /\ Len(freed.owners) = Len(ll.owners) - 1
              /\ \A k \in DOMAIN freed.owners :
                    freed.owners[k] = ll.owners[IF k < i THEN k ELSE k + 1]
              /\ Moved(freed, Release(ll, t), n)
<1>1. PICK e, freed : /\ e = EraseOwner(ll, t)
                      /\ freed = [ll EXCEPT !.owners = e, !.dlm = Watermark(e)]
  OBVIOUS
<1>2. ll \in Lock(Action, Tid) /\ AllLock(ll.owners)
  BY DEF LockOK
<1>3. /\ e \in Seq(LockReq(Action, Tid)) /\ Len(e) = Len(ll.owners) - 1
      /\ \A i \in DOMAIN e : \E j \in DOMAIN ll.owners : e[i] = ll.owners[j]
      /\ \E i \in OwnedBy(ll, t) : \A k \in DOMAIN e :
            e[k] = ll.owners[IF k < i THEN k ELSE k + 1]
  <2>1. ll \in Lock(Action, Tid)
    BY <1>2
  <2>2. /\ EraseOwner(ll, t) \in Seq(LockReq(Action, Tid))
        /\ Len(EraseOwner(ll, t)) = Len(ll.owners) - 1
        /\ \A i \in DOMAIN EraseOwner(ll, t) :
              \E j \in DOMAIN ll.owners : EraseOwner(ll, t)[i] = ll.owners[j]
        /\ \E i \in OwnedBy(ll, t) : \A k \in DOMAIN EraseOwner(ll, t) :
              EraseOwner(ll, t)[k] = ll.owners[IF k < i THEN k ELSE k + 1]
    BY <2>1, ErasedOwners
  <2> QED
    BY <1>1, <2>2, Zenon
<1>4. /\ freed.owners = e /\ freed.waiters = ll.waiters
      /\ freed = [dlm |-> Watermark(e), owners |-> e, waiters |-> ll.waiters]
  BY <1>1, <1>2 DEF Lock
<1>5. AllLock(e)
  BY <1>2, <1>3 DEF AllLock
<1>6. Watermark(e) \in LockMode
  <2>1. Watermark(e) = IF e = <<>> THEN NOLOCK ELSE e[Len(e)].dlm
    BY <1>3, <1>5, WatermarkIsLast
  <2>2. CASE e = <<>>
    BY <2>1, <2>2 DEF LockMode
  <2>3. CASE e # <<>>
    <3>1. Len(e) \in DOMAIN e
      BY <1>3, <2>3, LenProperties, EmptySeq
    <3>2. e[Len(e)] \in LockReq(Action, Tid)
      BY <1>3, <3>1, LenProperties, ElementOfSeq
    <3> QED
      BY <2>1, <2>3, <3>2 DEF LockReq
  <2> QED
    BY <2>2, <2>3
<1>7. freed \in Lock(Action, Tid)
  BY <1>2, <1>3, <1>4, <1>6 DEF Lock
<1>8. Release(ll, t) = IF freed.dlm = ll.dlm THEN freed ELSE Promote(freed)
  BY <1>1 DEF Release
<1>9. \E n \in Nat : Moved(freed, Release(ll, t), n)
  <2>1. CASE freed.dlm = ll.dlm
    <3>1. /\ Len(freed.owners) \in Nat /\ DOMAIN freed.owners = 1 .. Len(freed.owners)
          /\ Len(freed.waiters) \in Nat /\ DOMAIN freed.waiters = 1 .. Len(freed.waiters)
      BY <1>7, ListsOf
    <3>2. /\ Len(freed.owners) + 0 = Len(freed.owners)
          /\ Len(freed.waiters) - 0 = Len(freed.waiters)
          /\ \A i \in 1 .. Len(freed.waiters) : 0 + i = i
          /\ \A i \in 1 .. Len(freed.owners) : i <= Len(freed.owners)
          /\ 0 \in 0 .. Len(freed.waiters) /\ 0 \in Nat
      BY <3>1
    <3>3. Moved(freed, freed, 0)
      BY <3>1, <3>2 DEF Moved
    <3> QED
      BY <1>8, <2>1, <3>2, <3>3
  <2>2. CASE freed.dlm # ll.dlm
    BY <1>7, <1>8, <2>2, PromoteMoves
  <2> QED
    BY <2>1, <2>2
<1> QED
  BY <1>3, <1>4, <1>7, <1>9

\* release() takes the one request of the action off the lock, and keeps the
\* others.
LEMMA ReleaseKeeps ==
    ASSUME NEW ll, LockOK(ll), NEW t, NEW a, OwnedBy(ll, t) # {}, OneEach(ll),
           \A i \in OwnedBy(ll, t) : ll.owners[i].action = a
    PROVE  LET after == Release(ll, t)
           IN  /\ OneEach(after)
               /\ ~Owns(after, a) /\ ~Queues(after, a)
               /\ \A b : b # a =>
                     (Owns(after, b) \/ Queues(after, b) <=> Owns(ll, b) \/ Queues(ll, b))
               /\ \A b : Queues(after, b) => Queues(ll, b)
<1>1. PICK freed \in Lock(Action, Tid), i \in OwnedBy(ll, t), n \in Nat :
              /\ freed.waiters = ll.waiters
              /\ Len(freed.owners) = Len(ll.owners) - 1
              /\ \A k \in DOMAIN freed.owners :
                    freed.owners[k] = ll.owners[IF k < i THEN k ELSE k + 1]
              /\ Moved(freed, Release(ll, t), n)
  BY ReleaseMoves
<1>2. PICK o, o2, w, after : /\ o = ll.owners /\ o2 = freed.owners /\ w = ll.waiters
                             /\ after = Release(ll, t)
  OBVIOUS
<1>3. /\ Len(o) \in Nat /\ DOMAIN o = 1 .. Len(o) /\ Len(o2) = Len(o) - 1
      /\ DOMAIN o2 = 1 .. Len(o2) /\ i \in DOMAIN o /\ o[i].action = a
      /\ \A k \in DOMAIN o2 : o2[k] = o[IF k < i THEN k ELSE k + 1]
  BY <1>1, <1>2, ListsOf DEF LockOK, OwnedBy
<1>4. /\ \A k, j \in DOMAIN o : o[k].action = o[j].action => k = j
      /\ \A k, j \in DOMAIN w : w[k].action = w[j].action => k = j
      /\ \A k \in DOMAIN o, j \in DOMAIN w : o[k].action # w[j].action
  BY <1>2 DEF OneEach
<1>5. \A k \in DOMAIN o2 :
         /\ (IF k < i THEN k ELSE k + 1) \in DOMAIN o
         /\ (IF k < i THEN k ELSE k + 1) # i
  BY <1>3
<1>6. ~Owns(freed, a)
  <2> SUFFICES ASSUME NEW k \in DOMAIN o2, o2[k].action = a PROVE FALSE
    BY <1>2, Zenon DEF Owns
  <2>1. PICK j : /\ j = (IF k < i THEN k ELSE k + 1) /\ j \in DOMAIN o /\ j # i
                 /\ o2[k] = o[j]
    BY <1>3, <1>5
  <2> QED
    BY <1>3, <1>4, <2>1, Zenon
<1>7. ~Queues(freed, a)
  BY <1>1, <1>2, <1>3, <1>4 DEF Queues
<1>8. \A b : Owns(freed, b) => Owns(ll, b)
  BY <1>2, <1>3, <1>5 DEF Owns
<1>9. ASSUME NEW b, b # a, Owns(ll, b) PROVE Owns(freed, b)
  <2>1. PICK k \in DOMAIN o : o[k].action = b
    BY <1>2, <1>9 DEF Owns
  <2>2. k # i
    BY <1>3, <1>9, <2>1
  <2>3. CASE k < i
    <3>1. k \in DOMAIN o2 /\ o2[k] = o[k]
      BY <1>3, <2>1, <2>3
    <3> QED
      BY <1>2, <2>1, <3>1 DEF Owns
  <2>4. CASE i < k
    <3>1. k - 1 \in DOMAIN o2 /\ ~(k - 1 < i) /\ k - 1 + 1 = k
      BY <1>3, <2>1, <2>4
    <3>2. o2[k - 1] = o[k]
      BY <1>3, <3>1
    <3> QED
      BY <1>2, <2>1, <3>1, <3>2 DEF Owns
  <2> QED
    BY <1>3, <2>2, <2>3, <2>4
<1>10. OneEach(freed)
  <2>1. \A k, j \in DOMAIN o2 : o2[k].action = o2[j].action => k = j
    <3> SUFFICES ASSUME NEW k \in DOMAIN o2, NEW j \in DOMAIN o2,
                        o2[k].action = o2[j].action
                 PROVE  k = j
      OBVIOUS
    <3>1. (IF k < i THEN k ELSE k + 1) = (IF j < i THEN j ELSE j + 1)
      BY <1>3, <1>4, <1>5
    <3> QED
      BY <1>3, <3>1
  <2>2. \A k \in DOMAIN o2, j \in DOMAIN w : o2[k].action # w[j].action
    BY <1>3, <1>4, <1>5
  <2> QED
    BY <1>1, <1>2, <1>4, <2>1, <2>2 DEF OneEach
<1>11. /\ OneEach(after)
       /\ \A b : Owns(after, b) \/ Queues(after, b) <=> Owns(freed, b) \/ Queues(freed, b)
       /\ \A b : Queues(after, b) => Queues(freed, b)
  BY <1>1, <1>2, <1>10, MovedKeeps
<1>12. \A b : Queues(freed, b) <=> Queues(ll, b)
  BY <1>1 DEF Queues
<1> QED
  BY <1>2, <1>6, <1>7, <1>8, <1>9, <1>11, <1>12

\* acquire() by a transaction that does not own the lock adds its request,
\* to the owners or to the waiters.
LEMMA AcquireAdds ==
    ASSUME NEW ll \in Lock(Action, Tid), NEW req \in LockReq(Action, Tid),
           OwnedBy(ll, req.tid) = {}
    PROVE  LET after == Acquire(ll, req)
           IN  /\ \A b : Owns(after, b) <=> Owns(ll, b) \/ (b = req.action /\ ~MustWait(ll, req))
               /\ \A b : Queues(after, b) <=> Queues(ll, b) \/ (b = req.action /\ MustWait(ll, req))
               /\ OneEach(ll) /\ ~Owns(ll, req.action) /\ ~Queues(ll, req.action)
                     => OneEach(after)
<1>1. PICK o, w, after : o = ll.owners /\ w = ll.waiters /\ after = Acquire(ll, req)
  OBVIOUS
<1>2. /\ o \in Seq(LockReq(Action, Tid)) /\ w \in Seq(LockReq(Action, Tid))
      /\ Len(o) \in Nat /\ DOMAIN o = 1 .. Len(o) /\ Len(w) \in Nat /\ DOMAIN w = 1 .. Len(w)
      /\ ll = [dlm |-> ll.dlm, owners |-> o, waiters |-> w]
  BY <1>1, ListsOf DEF Lock
<1>3. ASSUME NEW s \in Seq(LockReq(Action, Tid))
      PROVE  /\ DOMAIN Append(s, req) = DOMAIN s \cup {Len(s) + 1}
             /\ Len(s) + 1 \notin DOMAIN s
             /\ Append(s, req)[Len(s) + 1] = req
             /\ \A i \in DOMAIN s : Append(s, req)[i] = s[i]
  OBVIOUS
<1>4. CASE MustWait(ll, req)
  <2>1. PICK v : v = Append(w, req)
    OBVIOUS
  <2>2. /\ DOMAIN v = DOMAIN w \cup {Len(w) + 1} /\ Len(w) + 1 \notin DOMAIN w
        /\ v[Len(w) + 1] = req /\ \A i \in DOMAIN w : v[i] = w[i]
    BY <1>2, <1>3, <2>1
  <2>3. after.owners = o /\ after.waiters = v
    BY <1>1, <1>2, <1>4, <2>1 DEF Acquire
  <2>4. \A b : Owns(after, b) <=> Owns(ll, b)
    BY <1>1, <2>3 DEF Owns
  <2>5. \A b : Queues(after, b) <=> Queues(ll, b) \/ b = req.action
    BY <1>1, <2>2, <2>3 DEF Queues
  <2>6. OneEach(ll) /\ ~Owns(ll, req.action) /\ ~Queues(ll, req.action) => OneEach(after)
    BY <1>1, <2>2, <2>3 DEF OneEach, Owns, Queues
  <2> QED
    BY <1>1, <1>4, <2>4, <2>5, <2>6
<1>5. CASE ~MustWait(ll, req)
  <2>1. PICK v : v = Append(o, req)
    OBVIOUS
  <2>2. /\ DOMAIN v = DOMAIN o \cup {Len(o) + 1} /\ Len(o) + 1 \notin DOMAIN o
        /\ v[Len(o) + 1] = req /\ \A i \in DOMAIN o : v[i] = o[i]
    BY <1>2, <1>3, <2>1
  <2>3. after.owners = v /\ after.waiters = w
    BY <1>1, <1>2, <1>5, <2>1 DEF Acquire
  <2>4. \A b : Owns(after, b) <=> Owns(ll, b) \/ b = req.action
    BY <1>1, <2>2, <2>3 DEF Owns
  <2>5. \A b : Queues(after, b) <=> Queues(ll, b)
    BY <1>1, <2>3 DEF Queues
  <2>6. OneEach(ll) /\ ~Owns(ll, req.action) /\ ~Queues(ll, req.action) => OneEach(after)
    BY <1>1, <2>2, <2>3 DEF OneEach, Owns, Queues
  <2> QED
    BY <1>1, <1>5, <2>4, <2>5, <2>6
<1> QED
  BY <1>4, <1>5

\* Only actions that asked for the key are on its lock.
LEMMA OnLock ==
    ASSUME IInv, NEW k \in Known, NEW b, Holds(b, k) \/ WaitsFor(b, k)
    PROVE  b \in Action /\ k \in KeysOf[b] /\ phase[b] # "new"
  BY DEF IInv, EntriesOK, Entries, Entry, Holds, WaitsFor

\* The constructor puts the request on the lock.
LEMMA NewLockAdds ==
    ASSUME NEW a \in Action
    PROVE  LET ll == NewLock(Req(a))
           IN  /\ OneEach(ll) /\ \A b : ~Queues(ll, b)
               /\ \A b : Owns(ll, b) <=> b = a
<1>1. PICK r, ll : r = Req(a) /\ ll = NewLock(Req(a))
  OBVIOUS
<1>2. /\ ll.owners = <<r>> /\ ll.waiters = <<>> /\ r.action = a
      /\ DOMAIN <<r>> = {1} /\ <<r>>[1] = r /\ DOMAIN << >> = {}
  BY <1>1, ReqType DEF NewLock
<1> QED
  BY <1>1, <1>2 DEF OneEach, Owns, Queues

\* Nobody is on a lock, nothing is needed, before any key is asked for.
LEMMA NeedInit == Init => NeedInv
<1> SUFFICES ASSUME Init PROVE NeedInv
  OBVIOUS
<1>1. Known = {} /\ needed = [b \in Action |-> 0] /\ phase = [b \in Action |-> "new"]
  BY DEF Init, Known
<1>2. \A b \in Action : QueuedOn(b) = {}
  BY <1>1 DEF QueuedOn
<1> QED
  BY <1>1, <1>2, FS_EmptySet DEF NeedInv, OnceInv, AskedInv, CountedInv

\* acquire_all() puts the action on each of its keys, in the queue of those
\* that refused it, and nobody else moves.
LEMMA AcquireAllAdds ==
    ASSUME IInv, NeedInv, NEW a \in Action, AcquireAll(a), NEW k \in Known'
    PROVE  /\ OneEach(locks'[k])
           /\ \A b : b # a => /\ Owns(locks'[k], b) <=> k \in Known /\ Owns(locks[k], b)
                              /\ Queues(locks'[k], b) <=> k \in Known /\ Queues(locks[k], b)
           /\ Owns(locks'[k], a) <=> k \in KeysOf[a] /\ k \notin Refused(a)
           /\ Queues(locks'[k], a) <=> k \in Refused(a)
<1>1. /\ Known' = Known \cup KeysOf[a] /\ phase[a] = "new"
      /\ locks'[k] = IF k \notin KeysOf[a] THEN locks[k]
                     ELSE IF k \in Known THEN Acquire(locks[k], Req(a))
                     ELSE NewLock(Req(a))
  BY DEF AcquireAll, Known
<1>2. k \in Known => /\ OneEach(locks[k]) /\ locks[k] \in Lock(Action, Tid)
                     /\ ~Owns(locks[k], a) /\ ~Queues(locks[k], a)
  <2> SUFFICES ASSUME k \in Known
               PROVE  /\ OneEach(locks[k]) /\ locks[k] \in Lock(Action, Tid)
                      /\ ~Owns(locks[k], a) /\ ~Queues(locks[k], a)
    OBVIOUS
  <2>1. ~Holds(a, k) /\ ~WaitsFor(a, k)
    BY <1>1, OnLock
  <2> QED
    BY <2>1 DEF NeedInv, OnceInv, IInv, LocksOK, LockOK, Holds, WaitsFor, Owns, Queues
<1>3. CASE k \notin KeysOf[a]
  <2>1. k \in Known /\ locks'[k] = locks[k] /\ k \notin Refused(a)
    BY <1>1, <1>3 DEF Refused
  <2> QED
    BY <1>2, <1>3, <2>1
<1>4. CASE k \in KeysOf[a] /\ k \in Known
  <2>1. OwnedBy(locks[k], Req(a).tid) = {}
    BY <1>1, <1>4, ReqType, NewActionOwnsNothing
  <2>2. k \in Refused(a) <=> MustWait(locks[k], Req(a))
    BY <1>4 DEF Refused
  <2>3. Req(a).action = a /\ Req(a) \in LockReq(Action, Tid)
    BY ReqType
  <2>4. locks'[k] = Acquire(locks[k], Req(a))
    BY <1>1, <1>4
  <2>5. /\ \A b : Owns(locks'[k], b) <=>
                     Owns(locks[k], b) \/ (b = a /\ ~MustWait(locks[k], Req(a)))
        /\ \A b : Queues(locks'[k], b) <=>
                     Queues(locks[k], b) \/ (b = a /\ MustWait(locks[k], Req(a)))
        /\ OneEach(locks'[k])
    BY <1>2, <1>4, <2>1, <2>3, <2>4, AcquireAdds
  <2> QED
    BY <1>2, <1>4, <2>2, <2>5
<1>5. CASE k \in KeysOf[a] /\ k \notin Known
  <2>1. locks'[k] = NewLock(Req(a)) /\ k \notin Refused(a)
    BY <1>1, <1>5 DEF Refused
  <2> QED
    BY <1>5, <2>1, NewLockAdds
<1> QED
  BY <1>3, <1>4, <1>5

\* acquire_all() counts the keys on which the action was queued.
LEMMA NeedAcquireAll ==
    ASSUME IInv, NeedInv, NEW a \in Action, AcquireAll(a)
    PROVE  NeedInv'
<1>1. /\ Known' = Known \cup KeysOf[a] /\ Refused(a) \subseteq Known
      /\ phase[a] = "new" /\ phase \in [Action -> Phase] /\ needed \in [Action -> Int]
  BY DEF AcquireAll, Known, Refused, IInv, TypeOK
<1>2. /\ phase' = [phase EXCEPT ![a] = IF Refused(a) = {} THEN "ready" ELSE "waiting"]
      /\ needed' = [needed EXCEPT ![a] = Cardinality(Refused(a))]
  BY DEF AcquireAll
<1>3. \A k \in Known' :
         /\ OneEach(locks'[k])
         /\ \A b : b # a => /\ Owns(locks'[k], b) <=> k \in Known /\ Owns(locks[k], b)
                            /\ Queues(locks'[k], b) <=> k \in Known /\ Queues(locks[k], b)
         /\ Owns(locks'[k], a) <=> k \in KeysOf[a] /\ k \notin Refused(a)
         /\ Queues(locks'[k], a) <=> k \in Refused(a)
  BY AcquireAllAdds
<1>4. /\ \A b, k : Holds(b, k) <=> Owns(locks[k], b)
      /\ \A b, k : WaitsFor(b, k) <=> Queues(locks[k], b)
      /\ \A b, k : Holds(b, k)' <=> Owns(locks'[k], b)
      /\ \A b, k : WaitsFor(b, k)' <=> Queues(locks'[k], b)
  BY DEF Holds, WaitsFor, Owns, Queues
<1>5. OnceInv'
  BY <1>3 DEF OnceInv
<1>6. QueuedOn(a)' = Refused(a) /\ \A b : b # a => QueuedOn(b)' = QueuedOn(b)
  BY <1>1, <1>3, <1>4 DEF QueuedOn
<1>7. AskedInv'
  <2>1. ASSUME NEW b \in Action, phase'[b] \in {"waiting", "ready"}, NEW k \in KeysOf[b]
        PROVE  k \in Known' /\ (Holds(b, k)' \/ WaitsFor(b, k)')
    <3>1. CASE b = a
      BY <1>1, <1>3, <1>4, <3>1
    <3>2. CASE b # a
      <4>1. phase[b] \in {"waiting", "ready"}
        BY <1>1, <1>2, <2>1, <3>2
      <4>2. k \in Known /\ (Holds(b, k) \/ WaitsFor(b, k))
        BY <4>1 DEF NeedInv, AskedInv
      <4> QED
        BY <1>1, <1>3, <1>4, <3>2, <4>2
    <3> QED
      BY <3>1, <3>2
  <2>2. ASSUME NEW b \in Action, phase'[b] = "released", NEW k \in Known'
        PROVE  ~Holds(b, k)' /\ ~WaitsFor(b, k)'
    <3>1. b # a /\ phase[b] = "released"
      BY <1>1, <1>2, <2>2
    <3>2. k \in Known => ~Holds(b, k) /\ ~WaitsFor(b, k)
      BY <3>1 DEF NeedInv, AskedInv
    <3> QED
      BY <1>3, <1>4, <3>1, <3>2
  <2> QED
    BY <2>1, <2>2 DEF AskedInv
<1>8. CountedInv'
  <2>1. ASSUME NEW b \in Action
        PROVE  /\ needed'[b] = Cardinality(QueuedOn(b)')
               /\ phase'[b] = "waiting" <=> QueuedOn(b)' # {}
    <3>1. CASE b = a
      BY <1>1, <1>2, <1>6, <3>1
    <3>2. CASE b # a
      BY <1>1, <1>2, <1>6, <3>2 DEF NeedInv, CountedInv
    <3> QED
      BY <3>1, <3>2
  <2> QED
    BY <2>1 DEF CountedInv
<1> QED
  BY <1>5, <1>7, <1>8 DEF NeedInv

\* An action that can run owns each of its keys, and nobody else owns one of
\* them on behalf of its transaction.
LEMMA ReadyOwnsItsKeys ==
    ASSUME IInv, NeedInv, NEW a \in Action, phase[a] = "ready", NEW k \in KeysOf[a]
    PROVE  /\ k \in Known /\ OwnedBy(locks[k], TidOf[a]) # {}
           /\ \A i \in OwnedBy(locks[k], TidOf[a]) : locks[k].owners[i].action = a
<1>1. k \in Known /\ (Holds(a, k) \/ WaitsFor(a, k))
  BY DEF NeedInv, AskedInv
<1>2. QueuedOn(a) = {}
  BY DEF NeedInv, CountedInv
<1>3. PICK i \in DOMAIN locks[k].owners : locks[k].owners[i].action = a
  BY <1>1, <1>2 DEF QueuedOn, Holds
<1>4. ASSUME NEW j \in DOMAIN locks[k].owners
      PROVE  \E b \in Action : /\ locks[k].owners[j] = Req(b) /\ k \in KeysOf[b]
                               /\ locks[k].owners[j].action = b
                               /\ locks[k].owners[j].tid = TidOf[b]
  <2>1. Entry(phase, locks[k].owners[j], k)
    BY <1>1 DEF IInv, EntriesOK, Entries
  <2> QED
    BY <2>1, ReqType DEF Entry
<1>5. i \in OwnedBy(locks[k], TidOf[a])
  BY <1>3, <1>4 DEF OwnedBy
<1>6. ASSUME NEW j \in OwnedBy(locks[k], TidOf[a]) PROVE locks[k].owners[j].action = a
  <2>1. PICK b \in Action : /\ k \in KeysOf[b] /\ locks[k].owners[j].action = b
                            /\ locks[k].owners[j].tid = TidOf[b]
    BY <1>4 DEF OwnedBy
  <2>2. TidOf[b] = TidOf[a]
    BY <2>1 DEF OwnedBy
  <2> QED
    BY <2>1, <2>2, ConstantsAssumption
<1> QED
  BY <1>1, <1>5, <1>6

\* release_all() takes the action off all its keys; everybody else stays on
\* the locks, and nobody is queued anew.
LEMMA ReleaseAllTakes ==
    ASSUME IInv, NeedInv, NEW a \in Action, ReleaseAll(a), NEW k \in Known
    PROVE  /\ OneEach(locks'[k])
           /\ ~Owns(locks'[k], a) /\ ~Queues(locks'[k], a)
           /\ \A b : b # a => (Owns(locks'[k], b) \/ Queues(locks'[k], b)
                                  <=> Owns(locks[k], b) \/ Queues(locks[k], b))
           /\ \A b : Queues(locks'[k], b) => Queues(locks[k], b)
<1>1. /\ locks'[k] = IF k \in KeysOf[a] THEN Release(locks[k], TidOf[a]) ELSE locks[k]
      /\ phase[a] = "ready"
  BY DEF ReleaseAll, Known
<1>2. OneEach(locks[k]) /\ LockOK(locks[k])
  BY DEF NeedInv, OnceInv, IInv, LocksOK
<1>3. CASE k \in KeysOf[a]
  <2>1. /\ OwnedBy(locks[k], TidOf[a]) # {}
        /\ \A i \in OwnedBy(locks[k], TidOf[a]) : locks[k].owners[i].action = a
    BY <1>1, <1>3, ReadyOwnsItsKeys
  <2>2. PICK ll, t, after : /\ ll = locks[k] /\ t = TidOf[a] /\ after = Release(ll, t)
                            /\ locks'[k] = after
    BY <1>1, <1>3
  <2>3. /\ LockOK(ll) /\ OneEach(ll) /\ OwnedBy(ll, t) # {}
        /\ \A i \in OwnedBy(ll, t) : ll.owners[i].action = a
    BY <1>2, <2>1, <2>2
  <2>4. /\ OneEach(after)
        /\ ~Owns(after, a) /\ ~Queues(after, a)
        /\ \A b : b # a =>
              (Owns(after, b) \/ Queues(after, b) <=> Owns(ll, b) \/ Queues(ll, b))
        /\ \A b : Queues(after, b) => Queues(ll, b)
    <3>1. LET after2 == Release(ll, t)
          IN  /\ OneEach(after2)
              /\ ~Owns(after2, a) /\ ~Queues(after2, a)
              /\ \A b : b # a =>
                    (Owns(after2, b) \/ Queues(after2, b) <=> Owns(ll, b) \/ Queues(ll, b))
              /\ \A b : Queues(after2, b) => Queues(ll, b)
      BY <2>3, ReleaseKeeps, ZenonT(60)
    <3> QED
      BY <2>2, <3>1
  <2> QED
    BY <2>2, <2>4
<1>4. CASE k \notin KeysOf[a]
  <2>1. ~Holds(a, k) /\ ~WaitsFor(a, k)
    BY <1>4, OnLock
  <2>2. ~Owns(locks[k], a) /\ ~Queues(locks[k], a) /\ locks'[k] = locks[k]
    BY <1>1, <1>4, <2>1 DEF Holds, WaitsFor, Owns, Queues
  <2> QED
    BY <1>2, <2>2
<1> QED
  BY <1>3, <1>4

\* release_all() counts each promotion once, and the actions that got their
\* last key are ready.
LEMMA NeedReleaseAll ==
    ASSUME IInv, NeedInv, NEW a \in Action, ReleaseAll(a)
    PROVE  NeedInv'
<1>1. PICK after : /\ DOMAIN after = Known /\ locks' = after
                   /\ needed' = [b \in Action |-> needed[b] - Cardinality(PromotedOn(b, after))]
                   /\ phase' = [b \in Action |->
                         IF b = a THEN "released"
                         ELSE IF /\ PromotedOn(b, after) # {}
                                 /\ needed[b] = Cardinality(PromotedOn(b, after)) THEN "ready"
                         ELSE phase[b]]
  BY DEF ReleaseAll
<1>2. Known' = Known /\ phase[a] = "ready" /\ Known \subseteq Key
  BY <1>1 DEF Known, ReleaseAll, IInv, TypeOK
<1>3. \A k \in Known :
         /\ OneEach(locks'[k])
         /\ ~Owns(locks'[k], a) /\ ~Queues(locks'[k], a)
         /\ \A b : b # a => (Owns(locks'[k], b) \/ Queues(locks'[k], b)
                                <=> Owns(locks[k], b) \/ Queues(locks[k], b))
         /\ \A b : Queues(locks'[k], b) => Queues(locks[k], b)
  BY ReleaseAllTakes
<1>4. /\ \A b, k : Holds(b, k) <=> Owns(locks[k], b)
      /\ \A b, k : WaitsFor(b, k) <=> Queues(locks[k], b)
      /\ \A b, k : Holds(b, k)' <=> Owns(locks'[k], b)
      /\ \A b, k : WaitsFor(b, k)' <=> Queues(locks'[k], b)
  BY DEF Holds, WaitsFor, Owns, Queues
<1>5. OnceInv'
  BY <1>2, <1>3 DEF OnceInv
<1>6. \A b : /\ PromotedOn(b, after) = QueuedOn(b) \ QueuedOn(b)'
             /\ QueuedOn(b)' \subseteq QueuedOn(b)
  <2>1. \A b, k : (\E i \in DOMAIN after[k].waiters : after[k].waiters[i].action = b)
                     <=> Queues(locks'[k], b)
    BY <1>1 DEF Queues
  <2>2. \A b : PromotedOn(b, after) = {k \in Known : WaitsFor(b, k) /\ ~Queues(locks'[k], b)}
    BY <2>1 DEF PromotedOn
  <2>3. \A b : QueuedOn(b)' = {k \in Known : Queues(locks'[k], b)}
    BY <1>2, <1>4 DEF QueuedOn
  <2>4. \A b : QueuedOn(b) = {k \in Known : WaitsFor(b, k)}
    BY DEF QueuedOn
  <2>5. \A b, k : k \in Known /\ Queues(locks'[k], b) => WaitsFor(b, k)
    BY <1>3, <1>4
  <2> QED
    BY <2>2, <2>3, <2>4, <2>5
<1>7. \A b \in Action : /\ needed[b] = Cardinality(QueuedOn(b))
                        /\ phase[b] = "waiting" <=> QueuedOn(b) # {}
  BY DEF NeedInv, CountedInv
\* What b still waits for, counted.
<1>8. ASSUME NEW b \in Action
      PROVE  /\ needed[b] - Cardinality(PromotedOn(b, after)) = Cardinality(QueuedOn(b)')
             /\ needed[b] = Cardinality(PromotedOn(b, after)) <=> QueuedOn(b)' = {}
  <2>1. PICK q, r, p : q = QueuedOn(b) /\ r = QueuedOn(b)' /\ p = PromotedOn(b, after)
    OBVIOUS
  <2>2. p = q \ r /\ r \subseteq q /\ q \subseteq Key
    BY <1>2, <1>6, <2>1 DEF QueuedOn
  <2>3. IsFiniteSet(q) /\ IsFiniteSet(r) /\ IsFiniteSet(p)
    BY <2>2, ConstantsAssumption, FS_Subset
  <2>4. q \cap r = r
    BY <2>2
  <2>5. Cardinality(p) = Cardinality(q) - Cardinality(r)
    <3>1. Cardinality(q \ r) = Cardinality(q) - Cardinality(q \cap r)
      BY <2>3, FS_Difference
    <3> QED
      BY <2>2, <2>4, <3>1
  <2>6. Cardinality(q) \in Nat /\ Cardinality(r) \in Nat /\ Cardinality(p) \in Nat
    BY <2>3, FS_CardinalityType
  <2>7. Cardinality(r) = 0 <=> r = {}
    BY <2>3, FS_EmptySet
  <2>8. needed[b] = Cardinality(q)
    BY <1>7, <2>1
  <2> QED
    BY <2>1, <2>5, <2>6, <2>7, <2>8
<1>9. \A b \in Action : PromotedOn(b, after) # {} => phase[b] = "waiting"
  BY <1>6, <1>7
<1>10. AskedInv'
  <2>1. ASSUME NEW b \in Action, phase'[b] \in {"waiting", "ready"}, NEW k \in KeysOf[b]
        PROVE  k \in Known' /\ (Holds(b, k)' \/ WaitsFor(b, k)')
    <3>1. b # a
      BY <1>1, <2>1
    <3>2. phase[b] \in {"waiting", "ready"}
      BY <1>1, <1>9, <2>1, <3>1
    <3>3. k \in Known /\ (Holds(b, k) \/ WaitsFor(b, k))
      BY <3>2 DEF NeedInv, AskedInv
    <3> QED
      BY <1>2, <1>3, <1>4, <3>1, <3>3
  <2>2. ASSUME NEW b \in Action, phase'[b] = "released", NEW k \in Known'
        PROVE  ~Holds(b, k)' /\ ~WaitsFor(b, k)'
    <3>1. CASE b = a
      BY <1>2, <1>3, <1>4, <3>1
    <3>2. CASE b # a
      <4>1. phase[b] = "released"
        BY <1>1, <2>2, <3>2
      <4>2. ~Holds(b, k) /\ ~WaitsFor(b, k)
        BY <1>2, <4>1 DEF NeedInv, AskedInv
      <4> QED
        BY <1>2, <1>3, <1>4, <3>2, <4>2
    <3> QED
      BY <3>1, <3>2
  <2> QED
    BY <2>1, <2>2 DEF AskedInv
<1>11. CountedInv'
  <2>1. ASSUME NEW b \in Action
        PROVE  /\ needed'[b] = Cardinality(QueuedOn(b)')
               /\ phase'[b] = "waiting" <=> QueuedOn(b)' # {}
    <3>1. needed'[b] = Cardinality(QueuedOn(b)')
      BY <1>1, <1>8
    <3>2. CASE b = a
      <4>1. QueuedOn(b) = {} /\ QueuedOn(b)' = {}
        BY <1>2, <1>6, <1>7, <3>2
      <4> QED
        BY <1>1, <3>1, <3>2, <4>1
    <3>3. CASE b # a
      <4>1. CASE PromotedOn(b, after) = {}
        <5>1. QueuedOn(b)' = QueuedOn(b) /\ phase'[b] = phase[b]
          BY <1>1, <1>6, <3>3, <4>1
        <5> QED
          BY <1>7, <3>1, <5>1
      <4>2. CASE PromotedOn(b, after) # {}
        BY <1>1, <1>8, <1>9, <3>1, <3>3, <4>2
      <4> QED
        BY <4>1, <4>2
    <3> QED
      BY <3>2, <3>3
  <2> QED
    BY <2>1 DEF CountedInv
<1> QED
  BY <1>5, <1>10, <1>11 DEF NeedInv

\* Every step keeps what the counters rest on.
LEMMA NeedNext == IInv /\ NeedInv /\ [Next]_vars => NeedInv'
<1> SUFFICES ASSUME IInv, NeedInv, [Next]_vars PROVE NeedInv'
  OBVIOUS
<1>1. ASSUME NEW a \in Action, AcquireAll(a) PROVE NeedInv'
  BY <1>1, NeedAcquireAll
<1>2. ASSUME NEW a \in Action, ReleaseAll(a) PROVE NeedInv'
  BY <1>2, NeedReleaseAll
<1>3. CASE UNCHANGED vars
  <2>1. locks' = locks /\ needed' = needed /\ phase' = phase
    BY <1>3 DEF vars
  <2>2. Known' = Known /\ OnceInv'
    BY <2>1 DEF Known, NeedInv, OnceInv
  <2>3. \A b, k : (Holds(b, k)' <=> Holds(b, k)) /\ (WaitsFor(b, k)' <=> WaitsFor(b, k))
    BY <2>1 DEF Holds, WaitsFor
  <2>4. \A b : QueuedOn(b)' = QueuedOn(b)
    BY <2>2, <2>3 DEF QueuedOn
  <2>5. AskedInv'
    BY <2>1, <2>2, <2>3 DEF NeedInv, AskedInv
  <2>6. CountedInv'
    BY <2>1, <2>4 DEF NeedInv, CountedInv
  <2> QED
    BY <2>2, <2>5, <2>6 DEF NeedInv
<1>4. CASE Finished
  BY <1>3, <1>4 DEF Finished
<1> QED
  BY <1>1, <1>2, <1>3, <1>4 DEF Next

\* Both invariants hold in every behaviour of the lock manager.
LEMMA NeedInvariance == Spec => [](IInv /\ NeedInv)
<1>1. Init => IInv /\ NeedInv
  BY InvInit, NeedInit
<1>2. (IInv /\ NeedInv) /\ [Next]_vars => (IInv /\ NeedInv)'
  BY InvNext, NeedNext
<1> QED
  BY <1>1, <1>2, PTL DEF Spec

\* At most one place in a list that has an action at most once.
LEMMA AtMostOne ==
    ASSUME NEW S, \A i, j \in S : i = j
    PROVE  Cardinality(S) <= 1
<1>1. CASE S = {}
  BY <1>1, FS_EmptySet
<1>2. CASE S # {}
  <2>1. PICK i : S = {i}
    BY <1>2
  <2>2. Cardinality({i}) = 1
    BY FS_Singleton
  <2> QED
    BY <2>1, <2>2
<1> QED
  BY <1>1, <1>2

-----------------------------------------------------------------------------
\* _keys_needed is right, for any keys and actions: acquire_all() counts and
\* release_all() uncounts exactly the keys on which an action is queued, the
\* action owns its other keys, and it is never on a key twice.
THEOREM NeededIsRight == Spec => []NeededIsQueued
<1>1. IInv /\ NeedInv => NeededIsQueued
  <2> SUFFICES ASSUME IInv, NeedInv, NEW a \in Action
               PROVE  /\ needed[a] = Cardinality(QueuedOn(a))
                      /\ phase[a] = "waiting" <=> needed[a] > 0
                      /\ phase[a] \in {"waiting", "ready"} =>
                            \A k \in KeysOf[a] :
                                /\ k \in Known
                                /\ Holds(a, k) <=> ~WaitsFor(a, k)
                                /\ Cardinality({i \in DOMAIN locks[k].owners :
                                                   locks[k].owners[i].action = a}) <= 1
    BY DEF NeededIsQueued, QueuedOn
  <2>1. needed[a] = Cardinality(QueuedOn(a)) /\ (phase[a] = "waiting" <=> QueuedOn(a) # {})
    BY DEF NeedInv, CountedInv
  <2>2. needed[a] > 0 <=> QueuedOn(a) # {}
    <3>1. QueuedOn(a) \in SUBSET Key
      BY DEF QueuedOn, IInv, TypeOK
    <3>2. IsFiniteSet(QueuedOn(a))
      BY <3>1, ConstantsAssumption, FS_Subset
    <3>3. /\ Cardinality(QueuedOn(a)) \in Nat
          /\ Cardinality(QueuedOn(a)) = 0 <=> QueuedOn(a) = {}
      BY <3>2, FS_CardinalityType, FS_EmptySet
    <3> QED
      BY <2>1, <3>3
  <2>3. ASSUME phase[a] \in {"waiting", "ready"}, NEW k \in KeysOf[a]
        PROVE  /\ k \in Known
               /\ Holds(a, k) <=> ~WaitsFor(a, k)
               /\ Cardinality({i \in DOMAIN locks[k].owners :
                                  locks[k].owners[i].action = a}) <= 1
    <3>1. k \in Known /\ (Holds(a, k) \/ WaitsFor(a, k))
      BY <2>3 DEF NeedInv, AskedInv
    <3>2. OneEach(locks[k])
      BY <3>1 DEF NeedInv, OnceInv
    <3>3. ~(Holds(a, k) /\ WaitsFor(a, k))
      BY <3>2 DEF OneEach, Holds, WaitsFor
    <3>4. PICK S : S = {i \in DOMAIN locks[k].owners : locks[k].owners[i].action = a}
      OBVIOUS
    <3>5. \A i, j \in S : i = j
      BY <3>2, <3>4 DEF OneEach
    <3>6. Cardinality(S) <= 1
      BY <3>5, AtMostOne
    <3> QED
      BY <3>1, <3>3, <3>4, <3>6
  <2> QED
    BY <2>1, <2>2, <2>3
<1> QED
  BY <1>1, NeedInvariance, PTL

\* Who becomes owner of a known key passes no request it conflicts with.
PassesNobody(k, a) ==
    ~Holds(a, k) /\ Holds(a, k)' =>
        \A i \in QueuedBefore(k, a), b \in Action :
            locks[k].waiters[i].action = b =>
                Compatible(Req(b).dlm, Req(a).dlm) \/ Holds(b, k)'

\* acquire() grants a key only to a request compatible with all that wait.
LEMMA AcquirePassesNobody ==
    ASSUME IInv, NeedInv, NEW c \in Action, AcquireAll(c), NEW k \in Known, NEW a \in Action
    PROVE  PassesNobody(k, a)
<1> SUFFICES ASSUME ~Holds(a, k), Holds(a, k)', NEW b \in Action,
                    NEW i \in DOMAIN locks[k].waiters, locks[k].waiters[i].action = b
             PROVE  Compatible(Req(b).dlm, Req(a).dlm)
  BY DEF PassesNobody, QueuedBefore
<1>1. k \in Known' /\ phase[c] = "new"
  BY DEF AcquireAll, Known
<1>2. ~Owns(locks[k], a) /\ Owns(locks'[k], a)
  BY DEF Holds, Owns
<1>3. a = c /\ k \in KeysOf[c] /\ k \notin Refused(c)
  BY <1>1, <1>2, AcquireAllAdds
<1>4. ~MustWait(locks[k], Req(c))
  BY <1>3 DEF Refused
<1>5. OwnedBy(locks[k], Req(c).tid) = {}
  BY <1>1, <1>3, ReqType, NewActionOwnsNothing
<1>6. locks[k].waiters[i] = Req(b)
  BY DEF IInv, EntriesOK, Entries, Entry
<1> QED
  BY <1>3, <1>4, <1>5, <1>6 DEF MustWait

\* release() promotes the waiters in their order.
LEMMA ReleasePassesNobody ==
    ASSUME IInv, NeedInv, NEW c \in Action, ReleaseAll(c), NEW k \in Known, NEW a \in Action
    PROVE  PassesNobody(k, a)
<1> SUFFICES ASSUME ~Holds(a, k), Holds(a, k)', NEW i \in QueuedBefore(k, a),
                    NEW b \in Action, locks[k].waiters[i].action = b
             PROVE  Holds(b, k)'
  BY DEF PassesNobody
<1>1. /\ locks'[k] = IF k \in KeysOf[c] THEN Release(locks[k], TidOf[c]) ELSE locks[k]
      /\ phase[c] = "ready"
  BY DEF ReleaseAll, Known
<1>2. PICK ll, t, after : ll = locks[k] /\ t = TidOf[c] /\ after = locks'[k]
  OBVIOUS
<1>3. ~Owns(ll, a) /\ Owns(after, a)
  BY <1>2 DEF Holds, Owns
<1>4. k \in KeysOf[c] /\ after = Release(ll, t)
  BY <1>1, <1>2, <1>3
<1>5. LockOK(ll) /\ OwnedBy(ll, t) # {}
  BY <1>1, <1>2, <1>4, ReadyOwnsItsKeys DEF IInv, LocksOK
<1>6. PICK freed \in Lock(Action, Tid), j \in OwnedBy(ll, t), n \in Nat :
         /\ freed.waiters = ll.waiters
         /\ Len(freed.owners) = Len(ll.owners) - 1
         /\ \A m \in DOMAIN freed.owners :
               freed.owners[m] = ll.owners[IF m < j THEN m ELSE m + 1]
         /\ Moved(freed, Release(ll, t), n)
  BY <1>5, ReleaseMoves
<1>7. ~Owns(freed, a)
  <2>1. /\ Len(ll.owners) \in Nat /\ DOMAIN ll.owners = 1 .. Len(ll.owners)
        /\ DOMAIN freed.owners = 1 .. Len(freed.owners) /\ j \in DOMAIN ll.owners
    BY <1>5, <1>6, ListsOf DEF LockOK, OwnedBy
  <2>2. \A m \in DOMAIN freed.owners : (IF m < j THEN m ELSE m + 1) \in DOMAIN ll.owners
    BY <1>6, <2>1
  <2> QED
    BY <1>3, <1>6, <2>2 DEF Owns
<1>8. PICK p \in DOMAIN freed.waiters :
         /\ freed.waiters[p].action = a
         /\ \A m \in DOMAIN freed.waiters : m < p => Owns(after, freed.waiters[m].action)
  BY <1>3, <1>4, <1>6, <1>7, MovedInOrder
<1>9. i \in DOMAIN ll.waiters /\ i < p
  BY <1>2, <1>6, <1>8 DEF QueuedBefore
<1>10. Owns(after, b)
  BY <1>2, <1>6, <1>8, <1>9
<1> QED
  BY <1>2, <1>10 DEF Owns, Holds

\* First come, first served, for any keys and actions: no step of
\* acquire_all() or release_all() makes an action owner of a key past a
\* request it conflicts with that was queued there before.
THEOREM FirstComeFirstServed == Spec => NoOvertaking
<1>1. IInv /\ NeedInv /\ [Next]_vars =>
         [\A k \in Known, a \in Action : PassesNobody(k, a)]_vars
  <2> SUFFICES ASSUME IInv, NeedInv, Next, NEW k \in Known, NEW a \in Action
               PROVE  PassesNobody(k, a) \/ UNCHANGED vars
    OBVIOUS
  <2>1. ASSUME NEW c \in Action, AcquireAll(c) PROVE PassesNobody(k, a)
    BY <2>1, AcquirePassesNobody
  <2>2. ASSUME NEW c \in Action, ReleaseAll(c) PROVE PassesNobody(k, a)
    BY <2>2, ReleasePassesNobody
  <2> QED
    BY <2>1, <2>2 DEF Next, Finished
<1>2. [][\A k \in Known, a \in Action : PassesNobody(k, a)]_vars => NoOvertaking
  BY DEF NoOvertaking, PassesNobody
<1> QED
  BY <1>1, <1>2, NeedInvariance, PTL DEF Spec

=============================================================================

------------------------ MODULE StageContainerProofs ------------------------
(***************************************************************************)
(* The reservation of workers, the packet lists and the streams, for any   *)
(* queries, packets, pages and limit.                                      *)
(***************************************************************************)
EXTENDS StageContainer, FiniteSetTheorems, SequenceTheorems, TLAPS


(***************************************************************************)
(* What the pool's own methods keep: it never grows past the limit, has    *)
(* reached it before anybody waits, and outside of waiter_wake() the first *)
(* that waits does not fit.                                                *)
(***************************************************************************)
PoolInv ==
    /\ capacity \in Nat /\ reserved \in Int
    /\ waiters \in Seq(Client)
    /\ waking \in BOOLEAN
    /\ capacity <= MaxThreads
    /\ NobodyWaitsBelowLimit

(***************************************************************************)
(* A request waits only if it does not fit into a pool of _max_threads.    *)
(***************************************************************************)
LEMMA ReserveKeepsPoolInv ==
    ASSUME PoolInv, ContainerAssumption, NeedAssumption, NEW q \in Client, Reserve(q)
    PROVE  PoolInv'
<1>1. Need[q] \in Nat /\ MaxThreads \in Nat
  BY DEF ContainerAssumption, NeedAssumption
<1>2. Grown(q) \in Nat /\ capacity <= Grown(q) /\ Grown(q) <= MaxThreads
  BY <1>1 DEF PoolInv, Grown, Unreserved
<1>3. Need[q] > Grown(q) - reserved => Grown(q) = MaxThreads
  BY <1>1 DEF PoolInv, Grown, Unreserved
<1>4. waking = FALSE /\ waking' = FALSE /\ capacity' = Grown(q)
  BY DEF Reserve, LockFree, PoolReserve, PoolInv
<1>5. CASE waiters = <<>> /\ Need[q] <= Grown(q) - reserved
  <2>1. reserved' = reserved + Need[q] /\ waiters' = <<>>
    BY <1>5 DEF Reserve, PoolReserve
  <2> QED
    <3>1. waiters' \in Seq(Client)
      BY <2>1
    <3>2. reserved' \in Int
      BY <2>1, <1>1 DEF PoolInv
    <3>3. NobodyWaitsBelowLimit'
      BY <2>1 DEF NobodyWaitsBelowLimit
    <3> QED
      BY <3>1, <3>2, <3>3, <1>2, <1>4 DEF PoolInv
<1>6. CASE ~(waiters = <<>> /\ Need[q] <= Grown(q) - reserved)
  <2>1. waiters' = Append(waiters, q) /\ reserved' = reserved
    BY <1>6 DEF Reserve, PoolReserve
  <2>2. waiters' \in Seq(Client)
    BY <2>1 DEF PoolInv
  <2>3. CASE waiters = <<>>
    <3>1. Head(waiters') = q
      BY <2>1, <2>3
    <3>2. Need[q] > Grown(q) - reserved
      BY <1>6, <2>3, <1>1, <1>2 DEF PoolInv
    <3> QED
      BY <3>1, <3>2, <2>1, <2>2, <1>1, <1>2, <1>3, <1>4 DEF PoolInv, NobodyWaitsBelowLimit, Unreserved
  <2>4. CASE waiters # <<>>
    <3>1. Head(waiters') = Head(waiters)
      BY <2>1, <2>4 DEF PoolInv
    <3>2. capacity = MaxThreads /\ Need[Head(waiters)] > capacity - reserved
      BY <2>4, <1>4 DEF PoolInv, NobodyWaitsBelowLimit, Unreserved
    <3>3. capacity' = capacity
      BY <3>2, <1>1, <1>2, <1>4 DEF PoolInv
    <3> QED
      BY <3>1, <3>2, <3>3, <2>1, <2>2, <1>2, <1>4 DEF PoolInv, NobodyWaitsBelowLimit, Unreserved
  <2> QED
    BY <2>3, <2>4
<1> QED
  BY <1>5, <1>6

(***************************************************************************)
(* waiter_wake() ends only when the first that waits does not fit.         *)
(***************************************************************************)
LEMMA WakeKeepsPoolInv ==
    ASSUME PoolInv, NeedAssumption, ContainerAssumption, Wake
    PROVE  PoolInv'
<1>1. CASE WakeOne
  <2>1. waiters # <<>> /\ Head(waiters) \in Client /\ Tail(waiters) \in Seq(Client)
    BY <1>1 DEF WakeOne, HeadFits, PoolInv
  <2>2. Need[Head(waiters)] \in Nat
    BY <2>1 DEF NeedAssumption
  <2>3. reserved' \in Int
    BY <1>1, <2>1, <2>2 DEF WakeOne, PoolInv
  <2>4. capacity' = MaxThreads /\ waking' = TRUE
    BY <1>1, <2>1 DEF WakeOne, PoolInv, NobodyWaitsBelowLimit
  <2>5. NobodyWaitsBelowLimit'
    BY <2>4 DEF NobodyWaitsBelowLimit
  <2>6. waiters' \in Seq(Client) /\ capacity' = capacity /\ waking' \in BOOLEAN
    BY <1>1, <2>1, <2>4 DEF WakeOne
  <2> QED
    BY <2>3, <2>5, <2>6 DEF PoolInv
<1>2. CASE WakeDone
  <2>1. waiters # <<>> => Head(waiters) \in Client
    BY DEF PoolInv
  <2>2. waiters # <<>> => Need[Head(waiters)] \in Nat
    BY <2>1 DEF NeedAssumption
  <2> QED
    <3>1. waiters # <<>> => Need[Head(waiters)] > Unreserved
      BY <1>2, <2>2 DEF WakeDone, HeadFits, PoolInv, Unreserved
    <3>2. capacity' = capacity /\ reserved' = reserved /\ waiters' = waiters /\ waking' = FALSE
      BY <1>2 DEF WakeDone
    <3>3. NobodyWaitsBelowLimit'
      BY <3>1, <3>2 DEF PoolInv, NobodyWaitsBelowLimit, Unreserved
    <3> QED
      BY <3>2, <3>3 DEF PoolInv
<1> QED
  BY <1>1, <1>2 DEF Wake

(***************************************************************************)
(* Whoever gives a reservation back wakes those who wait.                  *)
(***************************************************************************)
LEMMA UnreserveKeepsPoolInv ==
    ASSUME PoolInv, PoolUnreserve(1)
    PROVE  PoolInv'
BY DEF PoolInv, PoolUnreserve, NobodyWaitsBelowLimit

\* The steps of stages and consumers, which do not touch the reservations.
LEMMA IdleKeepsPoolInv ==
    ASSUME PoolInv, UNCHANGED <<capacity, reserved, waiters, waking>>
    PROVE  PoolInv'
BY DEF PoolInv, NobodyWaitsBelowLimit, Unreserved

\* Every step of the container, by the lemmas above.
LEMMA StepKeepsPoolInv ==
    ASSUME PoolInv, ContainerAssumption, NeedAssumption, [Next]_vars
    PROVE  PoolInv'
<1>1. CASE \E q \in Client : Reserve(q)
  BY <1>1, ReserveKeepsPoolInv
<1>2. ASSUME NEW p \in Packet, Dispatch(p)
      PROVE  PoolInv'
  <2>1. CASE Release(p)
    BY <2>1, UnreserveKeepsPoolInv DEF Release
  <2>2. CASE EnqueueAlone(p) \/ MergeQueued(p) \/ Merge(p) \/ MergeRaces(p)
    BY <2>2, IdleKeepsPoolInv DEF EnqueueAlone, MergeQueued, Merge, MergeRaces, pool
  <2> QED
    BY <1>2, <2>1, <2>2 DEF Dispatch
<1>3. ASSUME NEW p \in Packet, Work(p) \/ Throw(p) \/ Quit(p)
      PROVE  PoolInv'
  <2>1. CASE Cleanup(p)
    BY <2>1, UnreserveKeepsPoolInv DEF Cleanup
  <2>2. CASE OutputPage(p) \/ Deliver(p) \/ Erase(p) \/ PageDone(p) \/ EndOfInput(p)
    BY <2>2, IdleKeepsPoolInv DEF OutputPage, Deliver, Erase, PageDone, EndOfInput, pool
  <2>3. CASE StopAccepting(p) \/ Abort(p) \/ Throw(p) \/ Quit(p)
    BY <2>3, IdleKeepsPoolInv DEF StopAccepting, Abort, Throw, Quit, pool
  <2> QED
    BY <1>3, <2>1, <2>2, <2>3 DEF Work
<1>4. CASE Dequeue
  BY <1>4, IdleKeepsPoolInv DEF Dequeue
<1>5. CASE Wake
  BY <1>5, WakeKeepsPoolInv
<1>6. CASE UNCHANGED vars
  BY <1>6, IdleKeepsPoolInv DEF vars, pool
<1>7. (\E q \in Client : Reserve(q))
      \/ (\E p \in Packet : Dispatch(p) \/ Work(p) \/ Throw(p) \/ Quit(p))
      \/ Dequeue \/ Wake \/ UNCHANGED vars
  BY Zenon DEF Next
<1> QED
  BY <1>1, <1>2, <1>3, <1>4, <1>5, <1>6, <1>7, Zenon

\* An empty pool, in which nobody waits.
LEMMA InitHasPoolInv ==
    ASSUME ContainerAssumption, Init
    PROVE  PoolInv
<1>1. capacity = 0 /\ reserved = 0 /\ waiters = <<>> /\ waking = FALSE
  BY DEF Init, PoolInit
<1>2. MaxThreads \in Nat
  BY DEF ContainerAssumption
<1>3. NobodyWaitsBelowLimit
  BY <1>1 DEF NobodyWaitsBelowLimit
<1>4. waiters \in Seq(Client)
  BY <1>1
<1>5. waking \in BOOLEAN
  BY <1>1
<1>6. capacity \in Nat /\ reserved \in Int /\ capacity <= MaxThreads
  BY <1>1, <1>2
<1> QED
  BY <1>3, <1>4, <1>5, <1>6 DEF PoolInv

(***************************************************************************)
(* Nobody waits in a pool that could still grow, and nobody is left        *)
(* waiting for workers that are there, for any queries, packets and limit: *)
(* the reservation deadlock that _reserve() is written against cannot      *)
(* happen.                                                                 *)
(***************************************************************************)
THEOREM NoReservationDeadlock == Spec => []NobodyWaitsBelowLimit
<1>1. Init => PoolInv
  BY ContainerAssumption, InitHasPoolInv
<1>2. PoolInv /\ [Next]_vars => PoolInv'
  BY ContainerAssumption, NeedAssumption, StepKeepsPoolInv
<1>3. PoolInv => NobodyWaitsBelowLimit
  BY DEF PoolInv
<1> QED
  BY <1>1, <1>2, <1>3, PTL DEF Spec
-----------------------------------------------------------------------------
(***************************************************************************)
(* The invariant of the container.  First the types.                       *)
(***************************************************************************)
Types ==
    /\ nonIdle \in Int
    /\ asked \subseteq Client
    /\ status \in [Packet -> {"new", "release", "sent"}]
    /\ queue \in Seq(PacketList)
    /\ running \in Seq(Packet)
    /\ stage \in [Packet -> Adaptor]
    /\ onMerge \in [Packet -> Nat]
    /\ needed \in [Packet -> 1 .. Pages + 1]
    /\ stream \in [Packet -> {"open", "eof", "terminated", "aborted", "lost"}]
    /\ got \in [Packet -> Seq(1 .. Pages)]
    /\ cut \subseteq Packet
    /\ crashed \in BOOLEAN

(***************************************************************************)
(* A packet is in one list at most, of the queue or of a stage, and once.  *)
(***************************************************************************)
Has(list, p) == \E i \in DOMAIN list : list[i] = p
Once(list)   == \A i, j \in DOMAIN list : list[i] = list[j] => i = j

OnQueue(p)  == \E i \in DOMAIN queue : Has(queue[i], p)
Rides(p, s) == Has(stage[s].list, p)
Busy(s)     == stage[s].pc # "none"

QueueInv ==
    /\ \A i \in DOMAIN queue : queue[i] # <<>> /\ Once(queue[i])
    /\ \A i, j \in DOMAIN queue : \A p \in Packet : Has(queue[i], p) /\ Has(queue[j], p) => i = j

ListInv ==
    /\ \A s \in Packet : Once(stage[s].list)
    /\ \A s, t, p \in Packet : Rides(p, s) /\ Rides(p, t) => s = t
    /\ \A s, p \in Packet : Rides(p, s) => ~OnQueue(p)

(***************************************************************************)
(* A stage runs under the name of its primary, which is in no other list   *)
(* and is not run again.                                                   *)
(***************************************************************************)
RunInv ==
    /\ Once(running)
    /\ \A s \in Packet : Busy(s) <=> Has(running, s)
    /\ \A s \in Packet : ~Busy(s) => stage[s] = NoAdaptor
    /\ \A s \in Packet : Busy(s) => ~OnQueue(s)
    /\ \A s, t \in Packet : Busy(s) /\ Rides(s, t) => t = s /\ onMerge[s] = Initial

(***************************************************************************)
(* What a packet received: the pages `from' .. `to' in this run, and in    *)
(* its second run all that it did not miss in the first.                   *)
(***************************************************************************)
Earlier(p)  == IF needed[p] = Initial THEN {} ELSE needed[p] .. Pages
Earliers(p) == IF needed[p] = Initial THEN 0 ELSE Pages - needed[p] + 1

Received(p, from, to) ==
    /\ ToSet(got[p]) = Earlier(p) \cup (from .. to)
    /\ Len(got[p]) = Earliers(p) + (to - from + 1)

Fresh(p) == /\ ~OnQueue(p) /\ ~Busy(p) /\ \A s \in Packet : ~Rides(p, s)
            /\ onMerge[p] = Uninitialized /\ needed[p] = Initial
            /\ got[p] = <<>> /\ stream[p] = "open"

NewInv == \A p \in Packet : status[p] = "new" => Fresh(p)

QueuedOK(p) == /\ onMerge[p] = Uninitialized
               /\ stream[p] \in {"open", "terminated"}
               /\ stream[p] = "open" /\ p \notin cut => Received(p, 1, 0)

QueuedInv == \A p \in Packet : OnQueue(p) => QueuedOK(p)

(***************************************************************************)
(* A packet in place i of the list of a running stage.  It has yet to get  *)
(* the current page, or got it, or is about to be erased.                  *)
(***************************************************************************)
Place(a)      == Len(a.list) - a.todo + 1
Erasing(a, i) == a.pc = "erase" /\ i = Place(a)
Yet(a, i)     == i >= Place(a) /\ ~Erasing(a, i)

RiderOK(p, a, i) ==
    /\ onMerge[p] \in 1 .. a.next
    /\ onMerge[p] # Initial => a.late /\ needed[p] = Initial
    /\ needed[p] # Initial => \/ Erasing(a, i)
                              \/ a.next < needed[p]
                              \/ Yet(a, i) /\ a.next = needed[p]
    /\ Erasing(a, i) => stream[p] # "open" /\ (needed[p] = Initial => Hurt(p))
    /\ ~Erasing(a, i) => stream[p] \in {"open", "terminated"}
    /\ stream[p] = "open" /\ p \notin cut =>
           Received(p, onMerge[p], IF Yet(a, i) THEN a.next - 2 ELSE a.next - 1)

(***************************************************************************)
(* The adaptor of a running stage.  The pages after the first were asked   *)
(* for, so that somebody is in the list; the list may still be cut short   *)
(* only before the last page; a late merger leaves only when it is hurt.   *)
(***************************************************************************)
Shape(a) ==
    /\ a.next \in 1 .. Pages + 1
    /\ a.todo \in 0 .. Len(a.list)
    /\ a.pc \notin {"deliver", "erase"} => a.todo = 0
    /\ a.pc \in {"deliver", "erase"} => a.next >= 2
    /\ a.pc = "erase" => a.todo > 0
    /\ a.pc \in {"process", "error", "abort"} => a.list # <<>>
    /\ a.pc \in {"deliver", "erase"} /\ a.remaining => a.todo < Len(a.list)
    /\ a.pc \in {"cleanup", "abort"} => ~a.accepting

SomeoneHurt == \E p \in Packet : Hurt(p)

CutOK(a)    == a.pc = "cleanup" => a.next = Pages + 1 \/ \A i \in DOMAIN a.list : a.list[i] \in cut
LateOK(a)   == a.late => SomeoneHurt \/ \E i \in DOMAIN a.list : onMerge[a.list[i]] # Initial
RidersOK(a) == \A i \in DOMAIN a.list : RiderOK(a.list[i], a, i)

AdaptorOK(a) == Shape(a) /\ CutOK(a) /\ LateOK(a) /\ RidersOK(a)

StageInv == \A s \in Packet : Busy(s) => AdaptorOK(stage[s])

(***************************************************************************)
(* The books: each worker reserved has somebody who will give it back; a   *)
(* worker whose list was aborted never does.                               *)
(***************************************************************************)
Unsent    == {p \in AdmittedPackets : status[p] \in {"new", "release"}}
LateOnes  == {s \in ToSet(running) : stage[s].late}
Accounted == Cardinality(Unsent) + Len(queue) + nonIdle + Cardinality(LateOnes)

AskInv ==
    /\ Once(waiters) /\ Waiting \subseteq asked
    /\ \A p \in Packet : status[p] # "new" => \A q \in Client : p \in PacketsOf[q] => Admitted(q)

Books ==
    /\ IsFiniteSet(Unsent) /\ IsFiniteSet(LateOnes)
    /\ Len(running) <= nonIdle
    /\ Accounted <= reserved /\ reserved <= capacity
    /\ ~SomeoneHurt => Accounted = reserved /\ Len(running) = nonIdle

ListPart == QueueInv /\ ListInv /\ RunInv /\ NewInv /\ QueuedInv /\ StageInv

ContainerInv == PoolInv /\ Types /\ ListPart /\ AskInv /\ Books /\ WholeUnlessCut


-----------------------------------------------------------------------------
(***************************************************************************)
(* Lists.                                                                  *)
(***************************************************************************)
\* A non-empty set of naturals has a least element.
LEMMA LeastNatural ==
    ASSUME NEW S \in SUBSET Nat, S # {}
    PROVE  \E n \in S : \A m \in S : n <= m
<1> DEFINE Upto == {0 .. n : n \in S}
<1>1. Upto \subseteq FiniteSubsetsOf(Nat) /\ Upto # {}
  <2>1. ASSUME NEW n \in S PROVE 0 .. n \in FiniteSubsetsOf(Nat)
    <3>1. n \in Int /\ 0 \in Int /\ 0 .. n \in SUBSET Nat
      OBVIOUS
    <3>2. IsFiniteSet(0 .. n)
      BY <3>1, FS_Interval
    <3> QED
      BY <3>1, <3>2 DEF FiniteSubsetsOf
  <2> QED
    BY <2>1
<1>2. \E X \in Upto : \A Y \in Upto : ~(<<Y, X>> \in StrictSubsetOrdering(Nat))
  BY <1>1, WFMin, FS_StrictSubsetOrderingWellFounded
<1>3. PICK n \in S : \A m \in S : ~(<<0 .. m, 0 .. n>> \in StrictSubsetOrdering(Nat))
  BY <1>2
<1>4. ASSUME NEW m \in S, ~(n <= m) PROVE FALSE
  <2>1. 0 .. m \subseteq 0 .. n /\ n \in 0 .. n /\ n \notin 0 .. m
    BY <1>4
  <2>2. 0 .. m \in SUBSET Nat /\ 0 .. n \in SUBSET Nat
    BY <1>4
  <2> QED
    BY <1>3, <2>1, <2>2 DEF StrictSubsetOrdering
<1> QED
  BY <1>4

\* What holds at 0 and is handed on holds at every place of an interval.
LEMMA Along ==
    ASSUME NEW N \in Nat, NEW P, 0 \in P, \A i \in 0 .. N : i < N /\ i \in P => i + 1 \in P
    PROVE  \A i \in 0 .. N : i \in P
<1> SUFFICES ASSUME (0 .. N) \ P # {} PROVE FALSE
  OBVIOUS
<1>1. (0 .. N) \ P \in SUBSET Nat
  OBVIOUS
<1>2. PICK n \in (0 .. N) \ P : \A m \in (0 .. N) \ P : n <= m
  BY <1>1, LeastNatural
<1>3. n # 0
  BY <1>2
<1>4. n - 1 \in 0 .. N /\ n - 1 < N /\ ~(n <= n - 1) /\ n - 1 + 1 = n
  BY <1>2, <1>3
<1>5. n - 1 \in P
  BY <1>2, <1>4
<1> QED
  BY <1>2, <1>4, <1>5

\* A packet appended to a list.
Extended(S, s, x, t) ==
    /\ t \in Seq(S) /\ Len(t) = Len(s) + 1 /\ DOMAIN t = 1 .. Len(s) + 1 /\ t # <<>>
    /\ t[Len(s) + 1] = x /\ \A i \in 1 .. Len(s) : t[i] = s[i]
    /\ \A p : Has(t, p) <=> Has(s, p) \/ p = x
    /\ Once(s) /\ ~Has(s, x) => Once(t)

\* That is what the operator of sequences does.
LEMMA Appended ==
    ASSUME NEW S, NEW s \in Seq(S), NEW x \in S, NEW t, t = Append(s, x)
    PROVE  Extended(S, s, x, t)
<1>1. PICK n : n = Len(s) /\ n \in Nat /\ DOMAIN s = 1 .. n
  BY LenProperties
<1>2. t \in Seq(S) /\ Len(t) = n + 1 /\ t[n + 1] = x /\ \A i \in 1 .. n : t[i] = s[i]
  BY <1>1, AppendProperties
<1>3. DOMAIN t = 1 .. n + 1 /\ t # <<>>
  BY <1>1, <1>2, LenProperties, EmptySeq
<1>4. \A i \in 1 .. n + 1 : i \in 1 .. n \/ i = n + 1
  BY <1>1
<1>5. n + 1 \in 1 .. n + 1 /\ 1 .. n \subseteq 1 .. n + 1
  BY <1>1
<1>6. \A p : Has(t, p) <=> Has(s, p) \/ p = x
  BY <1>1, <1>2, <1>3, <1>4, <1>5 DEF Has
<1>7. Once(s) /\ ~Has(s, x) => Once(t)
  BY <1>1, <1>2, <1>3, <1>4, <1>5 DEF Once, Has
<1> QED
  BY <1>1, <1>2, <1>3, <1>6, <1>7 DEF Extended

\* A packet pushed to the front of a list.
Led(S, s, x, t) ==
    /\ t \in Seq(S) /\ Len(t) = Len(s) + 1 /\ DOMAIN t = 1 .. Len(s) + 1 /\ t # <<>>
    /\ t[1] = x /\ \A i \in 1 .. Len(s) : t[i + 1] = s[i]
    /\ \A p : Has(t, p) <=> Has(s, p) \/ p = x
    /\ Once(s) /\ ~Has(s, x) => Once(t)

\* That is what the operator of sequences does.
LEMMA Prepended ==
    ASSUME NEW S, NEW s \in Seq(S), NEW x \in S, NEW t, t = <<x>> \o s
    PROVE  Led(S, s, x, t)
<1>1. PICK n : n = Len(s) /\ n \in Nat /\ DOMAIN s = 1 .. n
  BY LenProperties
<1>2. PICK h : h = <<x>>
  OBVIOUS
<1>3. h \in Seq(S) /\ Len(h) = 1 /\ h[1] = x
  BY <1>2
<1>4. /\ t \in Seq(S) /\ Len(t) = 1 + n
      /\ \A i \in 1 .. 1 + n : t[i] = IF i <= 1 THEN h[i] ELSE s[i - 1]
  BY <1>1, <1>2, <1>3, ConcatProperties
<1>5. DOMAIN t = 1 .. n + 1 /\ t # <<>>
  BY <1>1, <1>4, LenProperties, EmptySeq
<1>6. t[1] = x
  BY <1>1, <1>3, <1>4
<1>7. \A i \in 1 .. n : i + 1 \in 1 .. n + 1 /\ i + 1 # 1 /\ t[i + 1] = s[i]
  <2> SUFFICES ASSUME NEW i \in 1 .. n PROVE i + 1 \in 1 .. n + 1 /\ i + 1 # 1 /\ t[i + 1] = s[i]
    OBVIOUS
  <2>1. i + 1 \in 1 .. 1 + n /\ ~(i + 1 <= 1) /\ i + 1 - 1 = i
    BY <1>1
  <2> QED
    BY <1>1, <1>4, <2>1
<1>8. \A j \in 1 .. n + 1 : j # 1 => j - 1 \in 1 .. n /\ t[j] = s[j - 1]
  <2> SUFFICES ASSUME NEW j \in 1 .. n + 1, j # 1 PROVE j - 1 \in 1 .. n /\ t[j] = s[j - 1]
    OBVIOUS
  <2>1. j - 1 \in 1 .. n /\ j - 1 + 1 = j
    BY <1>1
  <2> QED
    BY <1>7, <2>1
<1>9. \A p : Has(t, p) <=> Has(s, p) \/ p = x
  <2> SUFFICES ASSUME NEW p PROVE Has(t, p) <=> Has(s, p) \/ p = x
    OBVIOUS
  <2>1. ASSUME NEW j \in 1 .. n + 1, t[j] = p PROVE Has(s, p) \/ p = x
    BY <1>1, <1>6, <1>8, <2>1 DEF Has
  <2>2. ASSUME NEW i \in 1 .. n, s[i] = p PROVE Has(t, p)
    BY <1>5, <1>7, <2>2 DEF Has
  <2>3. p = x => Has(t, p)
    <3>1. 1 \in DOMAIN t
      BY <1>1, <1>5
    <3> QED
      BY <1>6, <3>1 DEF Has
  <2> QED
    BY <1>1, <1>5, <2>1, <2>2, <2>3 DEF Has
<1>10. ASSUME Once(s), ~Has(s, x), NEW i \in 1 .. n + 1, NEW j \in 1 .. n + 1, t[i] = t[j]
       PROVE  i = j
  <2>1. CASE i = 1 \/ j = 1
    <3>1. \A k \in 1 .. n + 1 : k # 1 => t[k] # x
      BY <1>1, <1>6, <1>8, <1>10 DEF Has
    <3> QED
      BY <1>10, <2>1, <3>1, <1>6
  <2>2. CASE i # 1 /\ j # 1
    <3>1. i - 1 \in 1 .. n /\ j - 1 \in 1 .. n /\ s[i - 1] = s[j - 1]
      BY <1>8, <1>10, <2>2
    <3>2. i - 1 = j - 1
      BY <1>1, <1>10, <3>1 DEF Once
    <3> QED
      BY <1>1, <3>2
  <2> QED
    BY <2>1, <2>2
<1>11. Once(s) /\ ~Has(s, x) => Once(t)
  BY <1>5, <1>10 DEF Once
<1> QED
  BY <1>1, <1>4, <1>5, <1>6, <1>7, <1>9, <1>11 DEF Led

\* A list without its first element.
Shifted(S, s, t) ==
    /\ t \in Seq(S) /\ Len(s) \in Nat /\ Len(s) > 0 /\ Len(t) = Len(s) - 1
    /\ DOMAIN s = 1 .. Len(s) /\ DOMAIN t = 1 .. Len(s) - 1
    /\ Head(s) = s[1] /\ Head(s) \in S
    /\ \A i \in 1 .. Len(s) - 1 : i + 1 \in 1 .. Len(s) /\ t[i] = s[i + 1]
    /\ \A i \in 1 .. Len(s) : i # 1 => i - 1 \in 1 .. Len(s) - 1 /\ t[i - 1] = s[i]
    /\ \A p : Has(s, p) <=> p = Head(s) \/ Has(t, p)
    /\ Once(s) => Once(t) /\ ~Has(t, Head(s))

\* That is what the operator of sequences does.
LEMMA Rest ==
    ASSUME NEW S, NEW s \in Seq(S), s # <<>>, NEW t, t = Tail(s)
    PROVE  Shifted(S, s, t)
<1>1. PICK n : n = Len(s)
  OBVIOUS
<1>2. /\ n \in Nat /\ n > 0 /\ DOMAIN s = 1 .. n /\ Head(s) = s[1] /\ s[1] \in S
      /\ t \in Seq(S) /\ Len(t) = n - 1 /\ DOMAIN t = 1 .. n - 1
      /\ \A i \in 1 .. n - 1 : t[i] = s[i + 1]
  BY <1>1, LenProperties, EmptySeq, HeadTailProperties, ElementOfSeq
<1>3. \A i \in 1 .. n - 1 : i + 1 \in 1 .. n /\ i + 1 # 1 /\ t[i] = s[i + 1]
  BY <1>2
<1>4. \A i \in 1 .. n : i # 1 => i - 1 \in 1 .. n - 1 /\ t[i - 1] = s[i]
  <2> SUFFICES ASSUME NEW i \in 1 .. n, i # 1 PROVE i - 1 \in 1 .. n - 1 /\ t[i - 1] = s[i]
    OBVIOUS
  <2>1. i - 1 \in 1 .. n - 1 /\ i - 1 + 1 = i
    BY <1>2
  <2> QED
    BY <1>3, <2>1
<1>5. 1 \in 1 .. n
  BY <1>2
<1>6. \A p : Has(s, p) <=> p = s[1] \/ Has(t, p)
  <2> SUFFICES ASSUME NEW p PROVE Has(s, p) <=> p = s[1] \/ Has(t, p)
    OBVIOUS
  <2>1. ASSUME NEW i \in 1 .. n, s[i] = p, p # s[1] PROVE Has(t, p)
    BY <1>2, <1>4, <2>1 DEF Has
  <2>2. ASSUME NEW i \in 1 .. n - 1, t[i] = p PROVE Has(s, p)
    BY <1>2, <1>3, <2>2 DEF Has
  <2> QED
    BY <1>2, <1>5, <2>1, <2>2 DEF Has
<1>7. ASSUME Once(s) PROVE Once(t) /\ ~Has(t, s[1])
  <2>1. ASSUME NEW i \in 1 .. n - 1, NEW j \in 1 .. n - 1, t[i] = t[j] PROVE i = j
    <3>1. i + 1 = j + 1
      BY <1>2, <1>3, <1>7, <2>1 DEF Once
    <3> QED
      BY <1>2, <3>1
  <2>2. ASSUME NEW i \in 1 .. n - 1, t[i] = s[1] PROVE FALSE
    BY <1>2, <1>3, <1>5, <1>7, <2>2 DEF Once
  <2> QED
    BY <1>2, <2>1, <2>2 DEF Once, Has
<1> QED
  BY <1>1, <1>2, <1>3, <1>4, <1>6, <1>7 DEF Shifted

\* A list from which the element in place n is erased.
Without(S, s, n, t) ==
    /\ t \in Seq(S) /\ Len(t) = Len(s) - 1
    /\ DOMAIN s = 1 .. Len(s) /\ DOMAIN t = 1 .. Len(s) - 1
    /\ \A i \in 1 .. Len(s) - 1 :
          /\ i < n => i \in 1 .. Len(s) /\ t[i] = s[i]
          /\ i >= n => i + 1 \in 1 .. Len(s) /\ t[i] = s[i + 1]
    /\ \A p : Has(t, p) => Has(s, p)
    /\ Once(s) => Once(t) /\ \A p : Has(t, p) <=> Has(s, p) /\ p # s[n]

\* That is what the operator of sequences does.
LEMMA Erased ==
    ASSUME NEW S, NEW s \in Seq(S), NEW n \in 1 .. Len(s), NEW t, t = RemoveAt(s, n)
    PROVE  Without(S, s, n, t)
<1>1. PICK N, f, g : N = Len(s) /\ f = SubSeq(s, 1, n - 1) /\ g = SubSeq(s, n + 1, N)
  OBVIOUS
<1>2. N \in Nat /\ DOMAIN s = 1 .. N /\ n \in 1 .. N /\ \A i \in 1 .. N : s[i] \in S
  BY <1>1, LenProperties, ElementOfSeq
<1>3. f \in Seq(S) /\ Len(f) = n - 1 /\ \A i \in 1 .. n - 1 : f[i] = s[i]
  <2>1. n - 1 \in Nat /\ \A i \in 1 .. n - 1 : i \in 1 .. N
    BY <1>2
  <2>2. 1 \in Nat /\ \A i \in 1 .. n - 1 : s[i] \in S
    BY <1>2, <2>1
  <2> QED
    BY <1>1, <2>1, <2>2, SubSeqProperties
<1>4. g \in Seq(S) /\ Len(g) = N - n /\ \A i \in 1 .. N - n : g[i] = s[i + n]
  <2>1. \A i \in n + 1 .. N : i \in 1 .. N
    BY <1>2
  <2>2. \A i \in n + 1 .. N : s[i] \in S
    BY <1>2, <2>1
  <2>3. n + 1 \in Nat /\ N \in Nat
    BY <1>2
  <2>4. /\ g \in Seq(S)
        /\ Len(g) = IF n + 1 <= N THEN N - (n + 1) + 1 ELSE 0
        /\ \A i \in 1 .. N - (n + 1) + 1 : g[i] = s[n + 1 + i - 1]
    BY <1>1, <2>2, <2>3, SubSeqProperties
  <2>5. /\ N - (n + 1) + 1 = N - n
        /\ (IF n + 1 <= N THEN N - (n + 1) + 1 ELSE 0) = N - n
        /\ \A i \in 1 .. N - n : n + 1 + i - 1 = i + n
    BY <1>2
  <2> QED
    BY <2>4, <2>5
<1>5. t = f \o g
  BY <1>1 DEF RemoveAt
<1>6. /\ t \in Seq(S) /\ Len(t) = N - 1
      /\ \A i \in 1 .. N - 1 : t[i] = IF i <= n - 1 THEN f[i] ELSE g[i - (n - 1)]
  <2>1. /\ t \in Seq(S) /\ Len(t) = (n - 1) + (N - n)
        /\ \A i \in 1 .. (n - 1) + (N - n) : t[i] = IF i <= n - 1 THEN f[i] ELSE g[i - (n - 1)]
    BY <1>3, <1>4, <1>5, ConcatProperties
  <2>2. (n - 1) + (N - n) = N - 1
    BY <1>2
  <2> QED
    BY <2>1, <2>2
<1>7. DOMAIN t = 1 .. N - 1
  BY <1>2, <1>6, LenProperties
<1>8. ASSUME NEW i \in 1 .. N - 1
      PROVE  /\ i < n => i \in 1 .. N /\ t[i] = s[i]
             /\ i >= n => i + 1 \in 1 .. N /\ t[i] = s[i + 1]
  <2>1. CASE i < n
    <3>1. i <= n - 1 /\ i \in 1 .. n - 1 /\ i \in 1 .. N
      BY <1>2, <2>1
    <3> QED
      BY <1>2, <1>3, <1>6, <2>1, <3>1
  <2>2. CASE ~(i < n)
    <3>1. ~(i <= n - 1) /\ i - (n - 1) \in 1 .. N - n /\ i - (n - 1) + n = i + 1 /\ i + 1 \in 1 .. N
      BY <1>2, <2>2
    <3> QED
      BY <1>2, <1>4, <1>6, <2>2, <3>1
  <2> QED
    BY <2>1, <2>2
<1>9. ASSUME NEW p, Has(t, p) PROVE Has(s, p)
  BY <1>2, <1>7, <1>8, <1>9 DEF Has
<1>10. ASSUME NEW j \in 1 .. N, j # n
       PROVE  \E i \in 1 .. N - 1 : t[i] = s[j]
  <2>1. CASE j < n
    <3>1. j \in 1 .. N - 1
      BY <1>2, <2>1
    <3> QED
      BY <1>8, <2>1, <3>1
  <2>2. CASE ~(j < n)
    <3>1. j - 1 \in 1 .. N - 1 /\ j - 1 >= n /\ j - 1 + 1 = j
      BY <1>2, <1>10, <2>2
    <3> QED
      BY <1>8, <3>1
  <2> QED
    BY <2>1, <2>2
<1>11. ASSUME Once(s), NEW i \in 1 .. N - 1, NEW j \in 1 .. N - 1, t[i] = t[j] PROVE i = j
  <2>1. CASE i < n /\ j < n
    BY <1>2, <1>8, <1>11, <2>1 DEF Once
  <2>2. CASE i >= n /\ j >= n
    <3>1. i + 1 \in 1 .. N /\ j + 1 \in 1 .. N /\ s[i + 1] = s[j + 1]
      BY <1>8, <1>11, <2>2
    <3>2. i + 1 = j + 1
      BY <1>2, <1>11, <3>1 DEF Once
    <3> QED
      BY <1>2, <3>2
  <2>3. CASE i < n /\ j >= n
    <3>1. i = j + 1
      BY <1>2, <1>8, <1>11, <2>3 DEF Once
    <3> QED
      BY <1>2, <2>3, <3>1
  <2>4. CASE i >= n /\ j < n
    <3>1. i + 1 = j
      BY <1>2, <1>8, <1>11, <2>4 DEF Once
    <3> QED
      BY <1>2, <2>4, <3>1
  <2> QED
    BY <1>2, <2>1, <2>2, <2>3, <2>4
<1>12. ASSUME Once(s), NEW i \in 1 .. N - 1 PROVE t[i] # s[n]
  BY <1>2, <1>8, <1>12 DEF Once
<1>13. ASSUME Once(s) PROVE Once(t) /\ \A p : Has(t, p) <=> Has(s, p) /\ p # s[n]
  <2>1. Once(t)
    BY <1>7, <1>11, <1>13 DEF Once
  <2>2. ASSUME NEW p, Has(s, p), p # s[n] PROVE Has(t, p)
    BY <1>2, <1>7, <1>10, <2>2 DEF Has
  <2>3. ~Has(t, s[n])
    BY <1>7, <1>12, <1>13 DEF Has
  <2> QED
    BY <1>9, <2>1, <2>2, <2>3
<1> QED
  BY <1>1, <1>2, <1>6, <1>7, <1>8, <1>9, <1>13 DEF Without

\* What the iterator that erases has collected at each place.
Collects(f, list, S) ==
    f = [n \in 0 .. Len(list) |->
            IF n = 0 THEN <<>>
            ELSE IF list[n] \in S THEN Append(f[n - 1], list[n]) ELSE f[n - 1]]

\* The iterator goes to the end of the list.
LEMMA Collected ==
    ASSUME NEW list, NEW N \in Nat, Len(list) = N, NEW S
    PROVE  \E f : Collects(f, list, S) /\ Only(list, S) = f[N]
<1> DEFINE Turn(f, n) == IF n = 0 THEN <<>>
                         ELSE IF list[n] \in S THEN Append(f[n - 1], list[n]) ELSE f[n - 1]
           Upto(m) == \E f : f = [n \in 0 .. m |-> Turn(f, n)]
           Fine == {m \in 0 .. N : Upto(m)}
<1>1. 0 \in Fine
  <2>1. PICK f : f = [n \in 0 .. 0 |-> <<>>]
    OBVIOUS
  <2>2. f = [n \in 0 .. 0 |-> Turn(f, n)]
    BY <2>1
  <2>3. 0 \in 0 .. N
    OBVIOUS
  <2> QED
    BY <2>2, <2>3
<1>2. ASSUME NEW m \in 0 .. N, m < N, m \in Fine PROVE m + 1 \in Fine
  <2>1. PICK f : f = [n \in 0 .. m |-> Turn(f, n)]
    BY <1>2
  <2>2. PICK g : g = [n \in 0 .. m + 1 |-> IF n <= m THEN f[n] ELSE Turn(f, m + 1)]
    OBVIOUS
  <2>3. ASSUME NEW n \in 0 .. m + 1 PROVE g[n] = Turn(g, n)
    <3>1. CASE n <= m
      <4>1. n \in 0 .. m /\ (n # 0 => n - 1 \in 0 .. m + 1 /\ n - 1 <= m)
        BY <1>2, <3>1
      <4>2. f[n] = Turn(f, n)
        BY <2>1, <4>1
      <4>3. g[n] = f[n] /\ (n # 0 => g[n - 1] = f[n - 1])
        BY <2>2, <3>1, <4>1
      <4> QED
        BY <4>2, <4>3
    <3>2. CASE ~(n <= m)
      <4>1. n = m + 1 /\ n # 0 /\ n - 1 = m /\ m \in 0 .. m + 1 /\ m <= m /\ m + 1 - 1 = m
        BY <1>2, <3>2
      <4>2. g[n] = Turn(f, m + 1) /\ g[m] = f[m]
        BY <2>2, <3>2, <4>1
      <4> QED
        BY <4>1, <4>2
    <3> QED
      BY <3>1, <3>2
  <2>4. g = [n \in 0 .. m + 1 |-> Turn(g, n)]
    <3>1. g = [n \in 0 .. m + 1 |-> g[n]]
      BY <2>2
    <3> HIDE DEF Turn
    <3> QED
      BY <2>3, <3>1
  <2>5. m + 1 \in 0 .. N
    BY <1>2
  <2> QED
    BY <2>4, <2>5
<1>3. N \in Fine
  <2>1. \A m \in 0 .. N : m \in Fine
    <3> HIDE DEF Fine
    <3>1. \A m \in 0 .. N : m < N /\ m \in Fine => m + 1 \in Fine
      BY <1>2
    <3> QED
      BY <1>1, <3>1, Along, Zenon
  <2>2. N \in 0 .. N
    OBVIOUS
  <2> QED
    BY <2>1, <2>2, Zenon
<1>4. PICK f : f = CHOOSE g : g = [n \in 0 .. Len(list) |-> Turn(g, n)]
  OBVIOUS
<1>5. \E g : g = [n \in 0 .. Len(list) |-> Turn(g, n)]
  <2>1. Upto(N)
    <3> HIDE DEF Upto
    <3> QED
      BY <1>3
  <2> HIDE DEF Turn
  <2> QED
    BY <2>1
<1>6. f = [n \in 0 .. Len(list) |-> Turn(f, n)]
  BY <1>4, <1>5
<1>7. Only(list, S) = f[Len(list)]
  BY <1>4 DEF Only
<1> QED
  BY <1>6, <1>7 DEF Collects

\* Of a list, those in S are left, once each.
Filtered(P, list, S, t) ==
    /\ t \in Seq(P)
    /\ \A p : Has(t, p) <=> Has(list, p) /\ p \in S
    /\ Once(list) => Once(t)

\* That is what the operator of sequences does.
LEMMA Kept ==
    ASSUME NEW P, NEW list \in Seq(P), NEW S, NEW t, t = Only(list, S)
    PROVE  Filtered(P, list, S, t)
<1>1. PICK N : N = Len(list) /\ N \in Nat /\ DOMAIN list = 1 .. N /\ \A i \in 1 .. N : list[i] \in P
  BY LenProperties, ElementOfSeq
<1>2. PICK f : Collects(f, list, S) /\ t = f[N]
  <2>1. N \in Nat /\ Len(list) = N
    BY <1>1
  <2> QED
    BY <2>1, Collected
<1>3. f[0] = <<>>
  <2>1. 0 \in 0 .. N
    BY <1>1
  <2> QED
    BY <1>1, <1>2, <2>1 DEF Collects
<1>4. ASSUME NEW n \in 0 .. N, n < N
      PROVE  /\ n + 1 \in 1 .. N
             /\ f[n + 1] = IF list[n + 1] \in S THEN Append(f[n], list[n + 1]) ELSE f[n]
  <2>1. PICK m : m = n + 1
    OBVIOUS
  <2>2. m \in 0 .. N /\ m # 0 /\ m - 1 = n /\ m \in 1 .. N
    BY <1>1, <1>4, <2>1
  <2>3. f[m] = IF list[m] \in S THEN Append(f[m - 1], list[m]) ELSE f[m - 1]
    BY <1>1, <1>2, <2>2 DEF Collects
  <2> QED
    BY <2>1, <2>2, <2>3
<1> DEFINE Left(n) == /\ f[n] \in Seq(P)
                      /\ \A p : Has(f[n], p) <=> p \in S /\ \E i \in 1 .. n : list[i] = p
                      /\ Once(list) => Once(f[n])
           Good == {n \in 0 .. N : Left(n)}
<1>5. 0 \in Good
  <2>1. <<>> \in Seq(P) /\ (\A p : ~Has(<<>>, p)) /\ Once(<<>>)
    BY DEF Has, Once
  <2>2. ~ \E i \in 1 .. 0 : TRUE
    OBVIOUS
  <2>3. 0 \in 0 .. N
    BY <1>1
  <2> QED
    BY <1>3, <2>1, <2>2, <2>3
<1>6. ASSUME NEW n \in 0 .. N, n < N, n \in Good PROVE n + 1 \in Good
  <2>1. PICK x, s, g : x = list[n + 1] /\ s = f[n] /\ g = f[n + 1]
    OBVIOUS
  <2>2. n + 1 \in 1 .. N /\ x \in P /\ n + 1 \in 0 .. N /\ g = IF x \in S THEN Append(s, x) ELSE s
    BY <1>1, <1>4, <1>6, <2>1
  <2>3. s \in Seq(P) /\ (Once(list) => Once(s))
    BY <1>6, <2>1
  <2>4. \A p : Has(s, p) <=> p \in S /\ \E i \in 1 .. n : list[i] = p
    BY <1>6, <2>1
  <2>5. \A i \in 1 .. n + 1 : i \in 1 .. n \/ i = n + 1
    BY <1>6
  <2>6. 1 .. n \subseteq 1 .. n + 1 /\ n + 1 \in 1 .. n + 1 /\ \A i \in 1 .. n : i # n + 1 /\ i \in 1 .. N
    BY <1>1, <1>6
  <2>7. \A p : (\E i \in 1 .. n + 1 : list[i] = p) <=> (\E i \in 1 .. n : list[i] = p) \/ p = x
    BY <2>1, <2>5, <2>6
  <2>8. CASE x \in S
    <3>1. g = Append(s, x)
      BY <2>2, <2>8
    <3>5. Extended(P, s, x, g)
      BY <2>2, <2>3, <3>1, Appended
    <3>2. /\ g \in Seq(P)
          /\ \A p : Has(g, p) <=> Has(s, p) \/ p = x
          /\ Once(s) /\ ~Has(s, x) => Once(g)
      BY <3>5 DEF Extended
    <3>3. Once(list) => ~Has(s, x)
      BY <1>1, <2>1, <2>2, <2>4, <2>6 DEF Once
    <3>4. \A p : Has(g, p) <=> p \in S /\ \E i \in 1 .. n + 1 : list[i] = p
      BY <2>4, <2>7, <2>8, <3>2
    <3> QED
      BY <2>1, <2>2, <2>3, <3>2, <3>3, <3>4
  <2>9. CASE x \notin S
    <3>1. g = s
      BY <2>2, <2>9
    <3>2. \A p : Has(g, p) <=> p \in S /\ \E i \in 1 .. n + 1 : list[i] = p
      BY <2>4, <2>7, <2>9, <3>1
    <3> QED
      BY <2>1, <2>2, <2>3, <3>1, <3>2
  <2> QED
    BY <2>8, <2>9
<1>7. N \in Good
  <2>1. \A n \in 0 .. N : n \in Good
    <3> HIDE DEF Good
    <3> QED
      BY <1>1, <1>5, <1>6, Along
  <2>2. N \in 0 .. N
    BY <1>1
  <2> QED
    BY <2>1, <2>2, Zenon
<1>8. t \in Seq(P) /\ (Once(list) => Once(t))
      /\ \A p : Has(t, p) <=> p \in S /\ \E i \in 1 .. N : list[i] = p
  BY <1>2, <1>7
<1> QED
  BY <1>1, <1>8 DEF Has, Filtered

\* The elements of a list, and how many there are.
Counted(P, s) ==
    /\ \A p : p \in ToSet(s) <=> Has(s, p)
    /\ ToSet(s) \subseteq P
    /\ Len(s) \in Nat /\ (s = <<>> <=> Len(s) = 0) /\ (s = <<>> <=> \A p : ~Has(s, p))
    /\ Once(s) => IsFiniteSet(ToSet(s)) /\ Cardinality(ToSet(s)) = Len(s)

\* That is what the operator of sequences does.
LEMMA Elements ==
    ASSUME NEW P, NEW s \in Seq(P)
    PROVE  Counted(P, s)
<1>1. PICK N, T : N = Len(s) /\ T = ToSet(s)
  OBVIOUS
<1>2. N \in Nat /\ DOMAIN s = 1 .. N /\ \A i \in 1 .. N : s[i] \in P
  BY <1>1, LenProperties, ElementOfSeq
<1>3. (s = <<>> <=> N = 0) /\ (N # 0 => 1 \in 1 .. N) /\ (N = 0 => 1 .. N = {})
  BY <1>1, <1>2, EmptySeq
<1>4. T = {s[i] : i \in 1 .. N}
  BY <1>1, <1>2 DEF ToSet
<1>5. \A p : p \in T <=> Has(s, p)
  BY <1>2, <1>4 DEF Has
<1>6. s = <<>> <=> \A p : ~Has(s, p)
  BY <1>2, <1>3 DEF Has
<1>7. ASSUME Once(s) PROVE IsFiniteSet(T) /\ Cardinality(T) = N
  <2>1. PICK f : f = [i \in 1 .. N |-> s[i]]
    OBVIOUS
  <2>2. f \in [1 .. N -> T]
    BY <1>4, <2>1
  <2>3. \A i, j \in 1 .. N : f[i] = f[j] => i = j
    BY <1>2, <1>7, <2>1 DEF Once
  <2>4. \A p \in T : \E i \in 1 .. N : f[i] = p
    BY <1>4, <2>1
  <2>5. f \in Bijection(1 .. N, T)
    BY <2>2, <2>3, <2>4 DEF Bijection, Injection, Surjection, IsInjective
  <2>6. ExistsBijection(1 .. N, T)
    BY <2>5 DEF ExistsBijection
  <2>7. IsFiniteSet(1 .. N) /\ Cardinality(1 .. N) = N
    <3>1. 1 \in Int /\ N \in Int
      BY <1>2
    <3>2. IsFiniteSet(1 .. N) /\ Cardinality(1 .. N) = IF 1 > N THEN 0 ELSE N - 1 + 1
      BY <3>1, FS_Interval
    <3> QED
      BY <1>2, <3>2
  <2> QED
    BY <2>6, <2>7, FS_Bijection
<1> QED
  BY <1>1, <1>2, <1>3, <1>4, <1>5, <1>6, <1>7 DEF Counted

-----------------------------------------------------------------------------
(***************************************************************************)
(* What a step leaves as it is.                                            *)
(***************************************************************************)
\* The fields of an adaptor.
LEMMA AdaptorFacts ==
    ASSUME NEW a \in Adaptor
    PROVE  /\ a.pc \in {"process", "deliver", "erase", "stopping", "error", "cleanup", "abort", "none"}
           /\ a.list \in Seq(Packet) /\ a.next \in Nat /\ a.accepting \in BOOLEAN
           /\ a.late \in BOOLEAN /\ a.todo \in Nat /\ a.remaining \in BOOLEAN
           /\ Len(a.list) \in Nat /\ DOMAIN a.list = 1 .. Len(a.list)
           /\ \A i \in DOMAIN a.list : a.list[i] \in Packet
<1>1. /\ a.pc \in {"process", "deliver", "erase", "stopping", "error", "cleanup", "abort", "none"}
      /\ a.list \in Seq(Packet) /\ a.next \in Nat /\ a.accepting \in BOOLEAN
      /\ a.late \in BOOLEAN /\ a.todo \in Nat /\ a.remaining \in BOOLEAN
  BY DEF Adaptor, PacketList
<1>2. PICK l : l = a.list
  OBVIOUS
<1>3. Len(l) \in Nat /\ DOMAIN l = 1 .. Len(l) /\ \A i \in DOMAIN l : l[i] \in Packet
  BY <1>1, <1>2, LenProperties, ElementOfSeq
<1> QED
  BY <1>1, <1>2, <1>3

\* The lists of the queue.
LEMMA QueueFacts ==
    ASSUME Types
    PROVE  /\ queue \in Seq(PacketList) /\ Len(queue) \in Nat /\ DOMAIN queue = 1 .. Len(queue)
           /\ \A i \in DOMAIN queue : queue[i] \in Seq(Packet)
           /\ \A p : OnQueue(p) => p \in Packet
<1>1. queue \in Seq(PacketList) /\ Len(queue) \in Nat /\ DOMAIN queue = 1 .. Len(queue)
  BY LenProperties DEF Types
<1>2. \A i \in DOMAIN queue : queue[i] \in Seq(Packet)
  BY <1>1, ElementOfSeq DEF PacketList
<1>3. ASSUME NEW p, OnQueue(p) PROVE p \in Packet
  <2>1. PICK i \in DOMAIN queue : Has(queue[i], p)
    BY <1>3 DEF OnQueue
  <2>2. PICK l : l = queue[i] /\ l \in Seq(Packet)
    BY <1>2
  <2> QED
    BY <2>1, <2>2, LenProperties, ElementOfSeq DEF Has
<1> QED
  BY <1>1, <1>2, <1>3

\* Who is in a list of a stage is a packet.
LEMMA RiderFacts ==
    ASSUME Types, NEW s \in Packet
    PROVE  /\ stage[s] \in Adaptor
           /\ \A p : Rides(p, s) => p \in Packet
           /\ \A i \in DOMAIN stage[s].list : stage[s].list[i] \in Packet /\ Rides(stage[s].list[i], s)
<1>1. PICK a : a = stage[s] /\ a \in Adaptor
  BY DEF Types
<1>2. \A i \in DOMAIN a.list : a.list[i] \in Packet
  BY <1>1, AdaptorFacts
<1> QED
  BY <1>1, <1>2 DEF Rides, Has

(***************************************************************************)
(* A packet is as before, but that its consumer may have left.             *)
(***************************************************************************)
Same(p) == /\ onMerge'[p] = onMerge[p] /\ needed'[p] = needed[p] /\ got'[p] = got[p]
           /\ stream'[p] = stream[p] \/ (stream[p] = "open" /\ stream'[p] = "terminated")
           /\ p \in cut => p \in cut'

\* Pages that were received stay received.
LEMMA ReceivedSame ==
    ASSUME NEW p, Same(p), NEW from, NEW to, Received(p, from, to)
    PROVE  Received(p, from, to)'
BY DEF Same, Received, Earlier, Earliers

\* A place in a list of which nothing changed.
LEMMA RiderSame ==
    ASSUME NEW p, Same(p), NEW a, NEW i, RiderOK(p, a, i)
    PROVE  RiderOK(p, a, i)'
<1>1. PICK n : n = IF Yet(a, i) THEN a.next - 2 ELSE a.next - 1
  OBVIOUS
<1>2. /\ onMerge'[p] = onMerge[p] /\ needed'[p] = needed[p]
      /\ Erasing(a, i) => stream'[p] # "open" /\ (needed'[p] = Initial => Hurt(p)')
      /\ ~Erasing(a, i) => stream'[p] \in {"open", "terminated"}
      /\ stream'[p] = "open" /\ p \notin cut' => Received(p, onMerge[p], n)
  BY <1>1 DEF RiderOK, Same, Hurt
<1>3. stream'[p] = "open" /\ p \notin cut' => Received(p, onMerge[p], n)'
  BY <1>2, ReceivedSame DEF Same, Received, Earlier, Earliers
<1>4. RiderOK(p, a, i)' <=>
        /\ onMerge'[p] \in 1 .. a.next
        /\ onMerge'[p] # Initial => a.late /\ needed'[p] = Initial
        /\ needed'[p] # Initial => \/ Erasing(a, i)
                                   \/ a.next < needed'[p]
                                   \/ Yet(a, i) /\ a.next = needed'[p]
        /\ Erasing(a, i) => stream'[p] # "open" /\ (needed'[p] = Initial => Hurt(p)')
        /\ ~Erasing(a, i) => stream'[p] \in {"open", "terminated"}
        /\ stream'[p] = "open" /\ p \notin cut' => Received(p, onMerge[p], n)'
  BY <1>1, <1>2 DEF RiderOK, Yet, Erasing, Place, Received, Earlier, Earliers, Hurt
<1> QED
  BY <1>2, <1>3, <1>4 DEF RiderOK

\* An adaptor of whose list nothing changed.
LEMMA AdaptorSame ==
    ASSUME NEW a, AdaptorOK(a), SomeoneHurt => SomeoneHurt',
           \A i \in DOMAIN a.list : Same(a.list[i])
    PROVE  AdaptorOK(a)'
<1>1. Shape(a)'
  BY DEF AdaptorOK, Shape
<1>2. CutOK(a)'
  BY DEF AdaptorOK, CutOK, Same
<1>3. LateOK(a)'
  BY DEF AdaptorOK, LateOK, Same
<1>4. RidersOK(a)'
  <2>1. ASSUME NEW i \in DOMAIN a.list PROVE RiderOK(a.list[i], a, i)'
    BY <2>1, RiderSame DEF AdaptorOK, RidersOK
  <2> QED
    BY <2>1 DEF RidersOK
<1> QED
  BY <1>1, <1>2, <1>3, <1>4 DEF AdaptorOK

\* A queued packet of which nothing changed.
LEMMA QueuedSame ==
    ASSUME NEW p, Same(p), QueuedOK(p)
    PROVE  QueuedOK(p)'
<1>1. stream[p] = "open" /\ p \notin cut => Received(p, 1, 0)
  BY DEF QueuedOK
<1>2. stream'[p] = "open" /\ p \notin cut' => Received(p, 1, 0)'
  BY <1>1, ReceivedSame DEF Same
<1> QED
  BY <1>2 DEF QueuedOK, Same

(***************************************************************************)
(* A step that moves no list and changes no packet but for a consumer that *)
(* leaves.                                                                 *)
(***************************************************************************)
LEMMA ListsStay ==
    ASSUME Types, ListPart, UNCHANGED <<queue, running, stage>>,
           \A p \in Packet : Same(p),
           \A p \in Packet : status'[p] = "new" => status[p] = "new" /\ stream'[p] = stream[p],
           SomeoneHurt => SomeoneHurt'
    PROVE  ListPart' /\ LateOnes' = LateOnes /\ stage' \in [Packet -> Adaptor]
<1>1. QueueInv' /\ ListInv'
  BY DEF ListPart, QueueInv, ListInv, OnQueue, Rides, Has, Once
<1>2. \A p, s : (OnQueue(p)' <=> OnQueue(p)) /\ (Rides(p, s)' <=> Rides(p, s)) /\ (Busy(s)' <=> Busy(s))
  BY DEF OnQueue, Rides, Busy, Has
<1>3. RunInv'
  <2>1. ASSUME NEW s \in Packet, NEW t \in Packet, Busy(s), Rides(s, t)
        PROVE  t = s /\ onMerge'[s] = Initial
    BY <2>1 DEF ListPart, RunInv, Same
  <2>2. /\ Once(running') /\ \A s \in Packet : Busy(s) <=> Has(running', s)
        /\ \A s \in Packet : ~Busy(s) => stage'[s] = NoAdaptor
        /\ \A s \in Packet : Busy(s) => ~OnQueue(s)
    BY DEF ListPart, RunInv
  <2> QED
    BY <1>2, <2>1, <2>2 DEF RunInv, Once, Has
<1>4. NewInv'
  <2>1. ASSUME NEW p \in Packet, status'[p] = "new" PROVE Fresh(p)'
    <3>1. Fresh(p) /\ Same(p) /\ stream'[p] = stream[p]
      BY <2>1 DEF ListPart, NewInv
    <3> QED
      BY <1>2, <3>1 DEF Fresh, Same
  <2> QED
    BY <2>1 DEF NewInv
<1>5. QueuedInv'
  BY <1>2, QueuedSame DEF ListPart, QueuedInv
<1>6. StageInv'
  <2>1. ASSUME NEW s \in Packet, Busy(s)' PROVE AdaptorOK(stage[s])'
    <3>1. PICK a : a = stage[s]
      OBVIOUS
    <3>2. AdaptorOK(a) /\ stage'[s] = a
      BY <1>2, <2>1, <3>1 DEF ListPart, StageInv
    <3>3. \A i \in DOMAIN a.list : Same(a.list[i])
      BY <3>1, RiderFacts
    <3>4. AdaptorOK(a)'
      BY <3>2, <3>3, AdaptorSame
    <3> QED
      BY <3>2, <3>4
  <2> QED
    BY <2>1 DEF StageInv
<1>7. LateOnes' = LateOnes
  BY DEF LateOnes
<1>8. stage' \in [Packet -> Adaptor]
  BY DEF Types
<1> QED
  BY <1>1, <1>3, <1>4, <1>5, <1>6, <1>7, <1>8 DEF ListPart

(***************************************************************************)
(* A step of a running stage: its list may lose packets, and only packets  *)
(* of its list change.                                                     *)
(***************************************************************************)
LEMMA StageMoves ==
    ASSUME Types, ListPart, NEW s \in Packet, Busy(s), NEW a \in Adaptor,
           stage' = [stage EXCEPT ![s] = a],
           a.pc # "none", Once(a.list), \A p : Has(a.list, p) => Rides(p, s),
           a.late = stage[s].late,
           UNCHANGED <<queue, running, onMerge, needed, status>>,
           \A p \in Packet : ~Rides(p, s) => Same(p) /\ stream'[p] = stream[p],
           AdaptorOK(a)', SomeoneHurt => SomeoneHurt'
    PROVE  ListPart' /\ LateOnes' = LateOnes /\ stage' \in [Packet -> Adaptor]
<1>1. stage'[s] = a /\ \A t \in Packet : t # s => stage'[t] = stage[t]
  BY DEF Types
<1>2. \A p \in Packet : OnQueue(p)' <=> OnQueue(p)
  BY DEF OnQueue
<1>3. \A t \in Packet : Busy(t)' <=> Busy(t)
  BY <1>1 DEF Busy
<1>4. \A p, t \in Packet : Rides(p, t)' => Rides(p, t)
  <2>1. ASSUME NEW p \in Packet, NEW t \in Packet, Rides(p, t)' PROVE Rides(p, t)
    <3>1. CASE t = s
      BY <1>1, <2>1, <3>1 DEF Rides
    <3>2. CASE t # s
      BY <1>1, <2>1, <3>2 DEF Rides
    <3> QED
      BY <3>1, <3>2
  <2> QED
    BY <2>1
<1>5. QueueInv'
  BY DEF ListPart, QueueInv
<1>6. ListInv'
  <2>1. \A t \in Packet : Once(stage[t].list)'
    <3>1. ASSUME NEW t \in Packet PROVE Once(stage'[t].list)
      <4>1. CASE t = s
        BY <1>1, <4>1
      <4>2. CASE t # s
        BY <1>1, <4>2 DEF ListPart, ListInv
      <4> QED
        BY <4>1, <4>2
    <3> QED
      BY <3>1 DEF Once
  <2>2. \A t, u, p \in Packet : Rides(p, t)' /\ Rides(p, u)' => t = u
    BY <1>4 DEF ListPart, ListInv
  <2>3. \A t, p \in Packet : Rides(p, t)' => ~OnQueue(p)'
    BY <1>2, <1>4 DEF ListPart, ListInv
  <2> QED
    BY <2>1, <2>2, <2>3 DEF ListInv
<1>7. RunInv'
  <2>1. Once(running)' /\ \A t \in Packet : Busy(t)' <=> Has(running, t)'
    BY <1>3 DEF ListPart, RunInv, Once, Has
  <2>2. \A t \in Packet : ~Busy(t)' => stage'[t] = NoAdaptor
    BY <1>1, <1>3 DEF ListPart, RunInv
  <2>3. \A t \in Packet : Busy(t)' => ~OnQueue(t)'
    BY <1>2, <1>3 DEF ListPart, RunInv
  <2>4. \A t, u \in Packet : Busy(t)' /\ Rides(t, u)' => u = t /\ onMerge'[t] = Initial
    BY <1>3, <1>4 DEF ListPart, RunInv
  <2> QED
    BY <2>1, <2>2, <2>3, <2>4 DEF RunInv
<1>8. NewInv'
  <2>1. ASSUME NEW p \in Packet, status'[p] = "new" PROVE Fresh(p)'
    <3>1. Fresh(p)
      BY <2>1 DEF ListPart, NewInv
    <3>2. ~Rides(p, s)
      BY <3>1 DEF Fresh
    <3>3. Same(p) /\ stream'[p] = stream[p]
      BY <3>2
    <3> QED
      BY <1>2, <1>3, <1>4, <3>1, <3>3 DEF Fresh, Same
  <2> QED
    BY <2>1 DEF NewInv
<1>9. QueuedInv'
  <2>1. ASSUME NEW p \in Packet, OnQueue(p)' PROVE QueuedOK(p)'
    <3>1. OnQueue(p) /\ ~Rides(p, s)
      BY <1>2, <2>1 DEF ListPart, ListInv
    <3>2. QueuedOK(p) /\ Same(p)
      BY <3>1 DEF ListPart, QueuedInv
    <3> QED
      BY <3>2, QueuedSame
  <2> QED
    BY <2>1 DEF QueuedInv
<1>10. StageInv'
  <2>1. ASSUME NEW t \in Packet, Busy(t)', t # s PROVE AdaptorOK(stage[t])'
    <3>1. PICK b : b = stage[t]
      OBVIOUS
    <3>2. AdaptorOK(b) /\ stage'[t] = b
      BY <1>1, <1>3, <2>1, <3>1 DEF ListPart, StageInv
    <3>3. \A i \in DOMAIN b.list : Same(b.list[i])
      <4>1. ASSUME NEW i \in DOMAIN b.list PROVE Same(b.list[i])
        <5>1. b.list[i] \in Packet /\ Rides(b.list[i], t)
          BY <3>1, RiderFacts
        <5>2. ~Rides(b.list[i], s)
          BY <2>1, <5>1 DEF ListPart, ListInv
        <5> QED
          BY <5>1, <5>2
      <4> QED
        BY <4>1
    <3>4. AdaptorOK(b)'
      BY <3>2, <3>3, AdaptorSame
    <3> QED
      BY <3>2, <3>4
  <2>2. AdaptorOK(stage[s])'
    BY <1>1
  <2> QED
    BY <2>1, <2>2 DEF StageInv
<1>11. LateOnes' = LateOnes
  <2>1. \A t \in Packet : stage'[t].late = stage[t].late
    BY <1>1
  <2>2. ToSet(running) \subseteq Packet
    BY Elements DEF Types, Counted
  <2> QED
    BY <2>1, <2>2 DEF LateOnes
<1>12. stage' \in [Packet -> Adaptor]
  BY DEF Types
<1> QED
  BY <1>5, <1>6, <1>7, <1>8, <1>9, <1>10, <1>11, <1>12 DEF ListPart

-----------------------------------------------------------------------------
(***************************************************************************)
(* The steps of a running stage that change nothing but its adaptor.       *)
(***************************************************************************)
\* What is known of a stage that runs.
LEMMA BusyFacts ==
    ASSUME Types, ListPart, NEW s \in Packet, stage[s].pc # "none"
    PROVE  /\ Busy(s) /\ stage[s] \in Adaptor /\ AdaptorOK(stage[s])
           /\ Once(stage[s].list) /\ Has(running, s)
           /\ s \in ToSet(running)
<1>1. Busy(s) /\ stage[s] \in Adaptor
  BY DEF Busy, Types
<1>2. AdaptorOK(stage[s]) /\ Once(stage[s].list) /\ Has(running, s)
  BY <1>1 DEF ListPart, StageInv, ListInv, RunInv
<1>3. s \in ToSet(running)
  BY <1>2, Elements DEF Types, Counted
<1> QED
  BY <1>1, <1>2, <1>3

\* The adaptor changes in a way that keeps what is known of it.
LEMMA AdaptorMoves ==
    ASSUME Types, ListPart, NEW s \in Packet, Busy(s), NEW a \in Adaptor,
           stage' = [stage EXCEPT ![s] = a],
           a.pc # "none", Once(a.list), \A p : Has(a.list, p) => Has(stage[s].list, p),
           a.late = stage[s].late, AdaptorOK(a),
           UNCHANGED <<queue, running, onMerge, needed, status, stream, got, cut>>
    PROVE  ListPart' /\ LateOnes' = LateOnes /\ stage' \in [Packet -> Adaptor]
<1>1. \A p : Same(p)
  BY DEF Same
<1>2. SomeoneHurt => SomeoneHurt'
  BY DEF SomeoneHurt, Hurt
<1>3. AdaptorOK(a)'
  BY <1>1, <1>2, AdaptorSame
<1>4. \A p : Has(a.list, p) => Rides(p, s)
  BY DEF Rides
<1>5. \A p \in Packet : ~Rides(p, s) => Same(p) /\ stream'[p] = stream[p]
  BY <1>1
<1> QED
  BY <1>2, <1>3, <1>4, <1>5, StageMoves

\* A page is counted: everybody in the list has yet to get it.
LEMMA OutputPageKeepsLists ==
    ASSUME Types, ListPart, NEW s \in Packet, OutputPage(s)
    PROVE  ListPart' /\ LateOnes' = LateOnes /\ stage' \in [Packet -> Adaptor]
<1>1. PICK b : b = stage[s]
  OBVIOUS
<1>2. b.pc = "process" /\ b.next <= Pages
  BY <1>1 DEF OutputPage, At
<1>3. b \in Adaptor /\ AdaptorOK(b) /\ Once(b.list) /\ Busy(s)
  BY <1>1, <1>2, BusyFacts
<1>4. PICK a : a = [b EXCEPT !.pc = "deliver", !.next = @ + 1, !.todo = Len(b.list), !.remaining = FALSE]
  OBVIOUS
<1>5. /\ a.pc = "deliver" /\ a.next = b.next + 1 /\ a.todo = Len(b.list) /\ a.remaining = FALSE
      /\ a.list = b.list /\ a.late = b.late /\ a.accepting = b.accepting
  BY <1>3, <1>4 DEF Adaptor
<1>6. a \in Adaptor
  <2>1. b.next + 1 \in Nat /\ Len(b.list) \in Nat
    BY <1>3, AdaptorFacts
  <2> QED
    BY <1>3, <1>4, <2>1 DEF Adaptor
<1>7. stage' = [stage EXCEPT ![s] = a]
  BY <1>1, <1>4 DEF OutputPage
<1>8. Shape(b) /\ b.next \in Nat /\ Len(b.list) \in Nat /\ DOMAIN b.list = 1 .. Len(b.list)
  BY <1>3, AdaptorFacts DEF AdaptorOK
<1>9. Pages \in Nat
  BY ContainerAssumption DEF ContainerAssumption
<1>10. Shape(a)
  BY <1>2, <1>5, <1>8, <1>9 DEF Shape
<1>11. CutOK(a) /\ LateOK(a)
  BY <1>3, <1>5 DEF AdaptorOK, CutOK, LateOK
<1>12. ASSUME NEW i \in DOMAIN a.list, NEW p, RiderOK(p, b, i), needed[p] \in Nat PROVE RiderOK(p, a, i)
  <2>1. b.todo = 0 /\ i \in 1 .. Len(b.list)
    BY <1>2, <1>5, <1>8, <1>12 DEF Shape
  <2>2. ~Yet(b, i) /\ Yet(a, i) /\ ~Erasing(a, i) /\ ~Erasing(b, i)
    BY <1>2, <1>5, <1>8, <2>1 DEF Yet, Erasing, Place
  <2>3. a.next - 2 = b.next - 1 /\ 1 .. b.next \subseteq 1 .. a.next
    BY <1>5, <1>8
  <2> QED
    <3>1. PICK x, m : x = b.next /\ m = needed[p] /\ x \in Nat /\ m \in Nat /\ a.next = x + 1
      BY <1>5, <1>8, <1>12
    <3>2. /\ m # Initial => x < m
          /\ m # Initial => a.late = b.late
      BY <1>5, <1>12, <2>2, <3>1 DEF RiderOK
    <3>3. m # Initial => a.next < m \/ a.next = m
      BY <3>1, <3>2
    <3>4. onMerge[p] \in 1 .. a.next /\ (onMerge[p] # Initial => a.late /\ needed[p] = Initial)
      BY <1>5, <1>12, <2>3 DEF RiderOK
    <3>5. stream[p] \in {"open", "terminated"}
      BY <1>12, <2>2 DEF RiderOK
    <3>6. stream[p] = "open" /\ p \notin cut => Received(p, onMerge[p], a.next - 2)
      BY <1>12, <2>2, <2>3 DEF RiderOK
    <3> QED
      BY <2>2, <3>1, <3>3, <3>4, <3>5, <3>6 DEF RiderOK
<1>13. RidersOK(a)
  <2>1. ASSUME NEW i \in DOMAIN a.list PROVE RiderOK(a.list[i], a, i)
    <3>1. RiderOK(b.list[i], b, i)
      BY <1>3, <1>5 DEF AdaptorOK, RidersOK
    <3>2. needed[b.list[i]] \in Nat
      <4>1. b.list[i] \in Packet
        BY <1>3, <1>5, AdaptorFacts
      <4> QED
        BY <1>9, <4>1 DEF Types
    <3> QED
      BY <1>5, <1>12, <3>1, <3>2
  <2> QED
    BY <2>1 DEF RidersOK
<1>14. AdaptorOK(a)
  BY <1>10, <1>11, <1>13 DEF AdaptorOK
<1>15. /\ UNCHANGED <<queue, running, onMerge, needed, status, stream, got, cut>>
       /\ \A p : Has(a.list, p) => Has(stage[s].list, p)
       /\ a.late = stage[s].late /\ a.pc # "none" /\ Once(a.list)
  BY <1>1, <1>3, <1>5 DEF OutputPage, progress, output
<1> QED
  BY <1>3, <1>6, <1>7, <1>14, <1>15, AdaptorMoves

\* The pass over the list ends, and the page was given to everybody.
LEMMA PageDoneKeepsLists ==
    ASSUME Types, ListPart, NEW s \in Packet, PageDone(s) \/ EndOfInput(s) \/ Throw(s)
    PROVE  ListPart' /\ LateOnes' = LateOnes /\ stage' \in [Packet -> Adaptor]
<1>1. PICK b : b = stage[s]
  OBVIOUS
<1>2. PICK to : to = IF PageDone(s) THEN IF b.remaining THEN "process" ELSE "stopping"
                     ELSE IF EndOfInput(s) THEN "stopping" ELSE "error"
  OBVIOUS
<1>3. PICK a : a = [b EXCEPT !.pc = to]
  OBVIOUS
<1>4. /\ b.pc \in {"process", "deliver"} /\ (b.pc = "deliver" => b.todo = 0)
      /\ stage' = [stage EXCEPT ![s] = a]
      /\ to \in {"process", "stopping", "error"}
      /\ to # "stopping" => b.pc = "process" \/ b.remaining
  BY <1>1, <1>2, <1>3, Zenon DEF PageDone, EndOfInput, Throw, At
<1>5. b \in Adaptor /\ AdaptorOK(b) /\ Once(b.list) /\ Busy(s)
  BY <1>1, <1>4, BusyFacts
<1>6. /\ a.pc = to /\ a.next = b.next /\ a.todo = b.todo /\ a.remaining = b.remaining
      /\ a.list = b.list /\ a.late = b.late /\ a.accepting = b.accepting
  BY <1>3, <1>5 DEF Adaptor
<1>7. a \in Adaptor
  BY <1>3, <1>4, <1>5 DEF Adaptor
<1>8. /\ Shape(b) /\ b.next \in Nat /\ Len(b.list) \in Nat /\ DOMAIN b.list = 1 .. Len(b.list)
      /\ b.list \in Seq(Packet)
  BY <1>5, AdaptorFacts DEF AdaptorOK
<1>9. Shape(a)
  <2>1. b.todo = 0
    BY <1>4, <1>8 DEF Shape
  <2>2. to # "stopping" => b.list # <<>>
    <3>1. b.pc = "deliver" /\ b.remaining => Len(b.list) # 0
      BY <1>8, <2>1 DEF Shape
    <3>2. Len(<<>>) = 0
      OBVIOUS
    <3> QED
      BY <1>4, <1>8, <3>1, <3>2 DEF Shape
  <2> QED
    BY <1>4, <1>6, <1>8, <2>1, <2>2 DEF Shape
<1>10. CutOK(a) /\ LateOK(a)
  BY <1>4, <1>5, <1>6 DEF AdaptorOK, CutOK, LateOK
<1>11. ASSUME NEW i, NEW p, RiderOK(p, b, i) PROVE RiderOK(p, a, i)
  <2>1. ~Erasing(a, i) /\ ~Erasing(b, i) /\ (Yet(a, i) <=> Yet(b, i))
    BY <1>4, <1>6 DEF Yet, Erasing, Place
  <2> QED
    BY <1>6, <1>11, <2>1 DEF RiderOK
<1>12. RidersOK(a)
  BY <1>5, <1>6, <1>11 DEF AdaptorOK, RidersOK
<1>13. AdaptorOK(a)
  BY <1>9, <1>10, <1>12 DEF AdaptorOK
<1>14. /\ UNCHANGED <<queue, running, onMerge, needed, status, stream, got, cut>>
       /\ \A p : Has(a.list, p) => Has(stage[s].list, p)
       /\ a.late = stage[s].late /\ a.pc # "none" /\ Once(a.list)
  BY <1>1, <1>4, <1>5, <1>6 DEF PageDone, EndOfInput, Throw, progress, output
<1> QED
  BY <1>4, <1>5, <1>7, <1>13, <1>14, AdaptorMoves

\* The packet that is finished leaves the list.  A late merger is finished
\* only when its consumer is gone: it has never received a page that it needed.
LEMMA EraseKeepsLists ==
    ASSUME Types, ListPart, NEW s \in Packet, Erase(s)
    PROVE  ListPart' /\ LateOnes' = LateOnes /\ stage' \in [Packet -> Adaptor]
<1>1. PICK b, n, l, k : b = stage[s] /\ n = Current(s) /\ l = RemoveAt(b.list, n) /\ k = b.todo - 1
  OBVIOUS
<1>2. PICK a : a = [b EXCEPT !.pc = "deliver", !.todo = k, !.list = l]
  OBVIOUS
<1>3. b.pc = "erase" /\ stage' = [stage EXCEPT ![s] = a]
  BY <1>1, <1>2, Zenon DEF Erase, At
<1>4. b \in Adaptor /\ AdaptorOK(b) /\ Once(b.list) /\ Busy(s)
  BY <1>1, <1>3, BusyFacts
<1>5. /\ Shape(b) /\ b.next \in Nat /\ Len(b.list) \in Nat /\ DOMAIN b.list = 1 .. Len(b.list)
      /\ b.list \in Seq(Packet) /\ b.todo \in Nat
  BY <1>4, AdaptorFacts DEF AdaptorOK
<1>6. n = Place(b) /\ n \in 1 .. Len(b.list) /\ b.todo > 0 /\ k \in Nat /\ k < Len(b.list)
  <2>1. PICK N, m : N = Len(b.list) /\ m = b.todo
    OBVIOUS
  <2>2. N \in Nat /\ m \in Nat /\ m > 0 /\ m <= N
    BY <1>3, <1>5, <2>1 DEF Shape
  <2>3. n = N - m + 1 /\ n = Place(b) /\ k = m - 1
    BY <1>1, <2>1 DEF Current, Place
  <2>4. n \in 1 .. N /\ k \in Nat /\ k < N
    BY <2>2, <2>3
  <2> QED
    BY <2>1, <2>2, <2>3, <2>4
<1>7. Without(Packet, b.list, n, l)
  BY <1>1, <1>5, <1>6, Erased
<1>8. /\ a.pc = "deliver" /\ a.next = b.next /\ a.todo = k /\ a.remaining = b.remaining
      /\ a.list = l /\ a.late = b.late /\ a.accepting = b.accepting
  BY <1>2, <1>4 DEF Adaptor
<1>9. l \in Seq(Packet) /\ Len(l) = Len(b.list) - 1 /\ DOMAIN l = 1 .. Len(b.list) - 1 /\ Once(l)
  BY <1>4, <1>7 DEF Without
<1>10. a \in Adaptor
  BY <1>2, <1>4, <1>6, <1>9 DEF Adaptor, PacketList
<1>11. Shape(a)
  BY <1>1, <1>3, <1>5, <1>6, <1>8, <1>9 DEF Shape
<1>12. Place(a) = n
  <2>1. PICK N, m : N = Len(b.list) /\ m = b.todo
    OBVIOUS
  <2>2. N \in Nat /\ m \in Nat /\ Len(a.list) = N - 1 /\ a.todo = m - 1 /\ n = N - m + 1
    BY <1>1, <1>5, <1>6, <1>8, <1>9, <2>1 DEF Place
  <2>3. (N - 1) - (m - 1) + 1 = N - m + 1
    BY <2>2
  <2> QED
    BY <2>2, <2>3 DEF Place
<1>13. ASSUME NEW i \in DOMAIN l
       PROVE  RiderOK(l[i], a, i)
  <2>1. ASSUME NEW j \in DOMAIN b.list, l[i] = b.list[j],
               (i < n /\ j = i) \/ (i >= n /\ j = i + 1)
        PROVE  RiderOK(l[i], a, i)
    <3>1. RiderOK(l[i], b, j)
      BY <1>4, <2>1 DEF AdaptorOK, RidersOK
    <3>2. ~Erasing(a, i) /\ ~Erasing(b, j) /\ (Yet(a, i) <=> Yet(b, j))
      BY <1>3, <1>5, <1>6, <1>8, <1>9, <1>12, <2>1 DEF Yet, Erasing
    <3> QED
      BY <1>8, <3>1, <3>2 DEF RiderOK
  <2>2. i \in 1 .. Len(b.list) - 1
    BY <1>9
  <2>3. CASE i < n
    <3>1. i \in DOMAIN b.list /\ l[i] = b.list[i]
      BY <1>7, <2>2, <2>3 DEF Without
    <3>2. PICK j : j = i
      OBVIOUS
    <3>3. j \in DOMAIN b.list /\ l[i] = b.list[j] /\ ((i < n /\ j = i) \/ (i >= n /\ j = i + 1))
      BY <2>3, <3>1, <3>2
    <3> QED
      BY <2>1, <3>3, Zenon
  <2>4. CASE ~(i < n)
    <3>1. i >= n
      BY <1>6, <2>2, <2>4
    <3>2. i + 1 \in DOMAIN b.list /\ l[i] = b.list[i + 1]
      BY <1>7, <2>2, <3>1 DEF Without
    <3> QED
      BY <2>1, <3>1, <3>2
  <2> QED
    BY <2>3, <2>4
<1>14. RidersOK(a)
  BY <1>8, <1>13 DEF RidersOK
<1>15. CutOK(a)
  BY <1>8 DEF CutOK
<1>16. LateOK(a)
  <2>1. ASSUME b.late, ~SomeoneHurt PROVE \E i \in DOMAIN l : onMerge[l[i]] # Initial
    <3>1. PICK j \in DOMAIN b.list : onMerge[b.list[j]] # Initial
      BY <1>4, <2>1 DEF AdaptorOK, LateOK
    <3>2. RiderOK(b.list[j], b, j) /\ b.list[j] \in Packet
      BY <1>4, AdaptorFacts DEF AdaptorOK, RidersOK
    <3>3. j # n
      <4>1. ~Hurt(b.list[j])
        BY <2>1, <3>2 DEF SomeoneHurt
      <4>2. ~Erasing(b, j)
        BY <3>1, <3>2, <4>1 DEF RiderOK
      <4> QED
        BY <1>3, <1>6, <4>2 DEF Erasing
    <3>4. Has(l, b.list[j])
      <4>1. Has(b.list, b.list[j])
        BY <3>1 DEF Has
      <4>2. b.list[j] # b.list[n]
        BY <1>4, <1>5, <1>6, <3>3 DEF Once
      <4> QED
        BY <1>4, <1>7, <4>1, <4>2 DEF Without
    <3> QED
      BY <3>1, <3>4 DEF Has
  <2> QED
    BY <1>8, <2>1 DEF LateOK
<1>17. AdaptorOK(a)
  BY <1>11, <1>14, <1>15, <1>16 DEF AdaptorOK
<1>18. \A p : Has(l, p) => Has(b.list, p)
  BY <1>7 DEF Without
<1>19. /\ UNCHANGED <<queue, running, onMerge, needed, status, stream, got, cut>>
       /\ \A p : Has(a.list, p) => Has(stage[s].list, p)
       /\ a.late = stage[s].late /\ a.pc # "none" /\ Once(a.list)
  BY <1>1, <1>8, <1>9, <1>18 DEF Erase, progress, output
<1> QED
  BY <1>3, <1>4, <1>10, <1>17, <1>19, AdaptorMoves

\* A stage that stops takes no more mergers, and whoever it leaves without the
\* last pages is noted.
LEMMA StopKeepsLists ==
    ASSUME Types, ListPart, NEW s \in Packet, StopAccepting(s)
    PROVE  ListPart' /\ LateOnes' = LateOnes /\ stage' \in [Packet -> Adaptor]
<1>1. PICK b : b = stage[s]
  OBVIOUS
<1>2. PICK to : to = IF b.pc = "error" THEN "abort" ELSE "cleanup"
  OBVIOUS
<1>3. PICK a : a = [b EXCEPT !.accepting = FALSE, !.pc = to]
  OBVIOUS
<1>4. /\ (b.pc = "stopping" /\ to = "cleanup") \/ (b.pc = "error" /\ to = "abort")
      /\ stage' = [stage EXCEPT ![s] = a]
      /\ cut' = IF b.pc = "stopping" /\ b.next <= Pages THEN cut \cup ToSet(b.list) ELSE cut
  BY <1>1, <1>2, <1>3 DEF StopAccepting, At
<1>5. b \in Adaptor /\ AdaptorOK(b) /\ Once(b.list) /\ Busy(s)
  BY <1>1, <1>4, BusyFacts
<1>6. /\ a.pc = to /\ a.next = b.next /\ a.todo = b.todo /\ a.remaining = b.remaining
      /\ a.list = b.list /\ a.late = b.late /\ a.accepting = FALSE
  BY <1>3, <1>5 DEF Adaptor
<1>7. a \in Adaptor
  BY <1>3, <1>4, <1>5 DEF Adaptor
<1>8. Shape(b) /\ b.next \in Nat /\ b.list \in Seq(Packet)
  BY <1>5, AdaptorFacts DEF AdaptorOK
<1>9. Shape(a)
  BY <1>4, <1>6, <1>8 DEF Shape
<1>10. UNCHANGED <<queue, running, onMerge, needed, status, stream, got>> /\ cut \subseteq cut'
  BY <1>4 DEF StopAccepting, progress, output
<1>11. (\A p : Same(p)) /\ (SomeoneHurt => SomeoneHurt')
  BY <1>10 DEF Same, SomeoneHurt, Hurt
<1>12. CutOK(a)'
  <2>1. CASE b.pc = "stopping" /\ b.next <= Pages
    <3>1. \A i \in DOMAIN b.list : b.list[i] \in cut'
      <4>1. \A i \in DOMAIN b.list : Has(b.list, b.list[i])
        BY DEF Has
      <4>2. \A p : Has(b.list, p) => p \in ToSet(b.list)
        BY <1>8, Elements DEF Counted
      <4> QED
        BY <1>4, <2>1, <4>1, <4>2
    <3> QED
      BY <1>6, <3>1 DEF CutOK
  <2>2. CASE b.pc = "stopping" /\ ~(b.next <= Pages)
    <3>1. b.next = Pages + 1
      BY <1>8, <2>2, ContainerAssumption DEF Shape, ContainerAssumption
    <3> QED
      BY <1>6, <3>1 DEF CutOK
  <2>3. CASE b.pc = "error"
    BY <1>4, <1>6, <2>3 DEF CutOK
  <2> QED
    BY <1>4, <2>1, <2>2, <2>3
<1>13. LateOK(a)'
  BY <1>5, <1>6, <1>10, <1>11 DEF AdaptorOK, LateOK
<1>14. RidersOK(a)'
  <2>1. ASSUME NEW i, NEW p, RiderOK(p, b, i) PROVE RiderOK(p, a, i)
    <3>1. ~Erasing(a, i) /\ ~Erasing(b, i) /\ (Yet(a, i) <=> Yet(b, i))
      BY <1>4, <1>6 DEF Yet, Erasing, Place
    <3> QED
      BY <1>6, <2>1, <3>1 DEF RiderOK
  <2>2. \A i \in DOMAIN a.list : RiderOK(a.list[i], a, i)
    BY <1>5, <1>6, <2>1 DEF AdaptorOK, RidersOK
  <2>3. \A i \in DOMAIN a.list : RiderOK(a.list[i], a, i)'
    BY <1>11, <2>2, RiderSame
  <2> QED
    BY <2>3 DEF RidersOK
<1>15. AdaptorOK(a)'
  BY <1>9, <1>12, <1>13, <1>14 DEF AdaptorOK, Shape
<1>16. /\ \A p : Has(a.list, p) => Rides(p, s)
       /\ a.late = stage[s].late /\ a.pc # "none" /\ Once(a.list)
  BY <1>1, <1>4, <1>5, <1>6 DEF Rides
<1>17. \A p \in Packet : ~Rides(p, s) => Same(p) /\ stream'[p] = stream[p]
  BY <1>10, <1>11
<1> QED
  BY <1>4, <1>5, <1>7, <1>10, <1>11, <1>15, <1>16, <1>17, StageMoves

\* A packet receives the page after those it has.
LEMMA ReceivedMore ==
    ASSUME Types, NEW p \in Packet, NEW from \in Nat, NEW to \in Int, from <= to + 1,
           NEW x, x = to + 1,
           Received(p, from, to), got'[p] = Append(got[p], x), needed'[p] = needed[p],
           x \in 1 .. Pages
    PROVE  Received(p, from, x)'
<1>1. PICK g, h : g = got[p] /\ h = got'[p]
  OBVIOUS
<1>2. g \in Seq(1 .. Pages)
  BY <1>1 DEF Types
<1>3. Extended(1 .. Pages, g, x, h)
  BY <1>1, <1>2, Appended
<1>4. h \in Seq(1 .. Pages) /\ Len(h) = Len(g) + 1 /\ \A y : Has(h, y) <=> Has(g, y) \/ y = x
  BY <1>3 DEF Extended
<1>5. (\A y : y \in ToSet(g) <=> Has(g, y)) /\ (\A y : y \in ToSet(h) <=> Has(h, y))
  BY <1>2, <1>4, Elements DEF Counted
<1>6. from .. x = (from .. to) \cup {x}
  OBVIOUS
<1>7. ToSet(h) = Earlier(p) \cup (from .. x)
  BY <1>1, <1>4, <1>5, <1>6 DEF Received
<1>8. Earliers(p) \in Int
  BY ContainerAssumption DEF Earliers, Types, ContainerAssumption
<1>9. Len(h) = Earliers(p) + (x - from + 1)
  <2>1. Len(g) = Earliers(p) + (to - from + 1)
    BY <1>1 DEF Received
  <2>2. PICK e, n : e = Earliers(p) /\ n = Len(g) /\ e \in Int /\ n = e + (to - from + 1)
    BY <1>8, <2>1
  <2>3. n + 1 = e + (x - from + 1)
    BY <2>2
  <2> QED
    BY <1>4, <2>2, <2>3
<1>10. Earlier(p)' = Earlier(p) /\ Earliers(p)' = Earliers(p)
  BY DEF Earlier, Earliers
<1> QED
  BY <1>1, <1>7, <1>9, <1>10 DEF Received

\* The packet whose turn it is, in a pass over the list.
Turn(s, b, n, p) ==
    /\ b \in Adaptor /\ AdaptorOK(b) /\ Once(b.list) /\ Busy(s) /\ Shape(b)
    /\ b.next \in Nat /\ b.next >= 2 /\ b.next <= Pages + 1 /\ b.todo \in Nat
    /\ Len(b.list) \in Nat /\ DOMAIN b.list = 1 .. Len(b.list)
    /\ n \in DOMAIN b.list /\ n = Len(b.list) - b.todo + 1
    /\ p \in Packet /\ Rides(p, s) /\ p = CurrentPacket(s)
    /\ RiderOK(p, b, n) /\ Yet(b, n) /\ ~Erasing(b, n)
    /\ \A i \in DOMAIN b.list : i # n => b.list[i] # p

\* That holds while output_page() goes through the list.
LEMMA TurnFacts ==
    ASSUME Types, ListPart, NEW s \in Packet, stage[s].pc = "deliver", stage[s].todo > 0,
           NEW b, b = stage[s], NEW n, n = Place(b), NEW p, p = b.list[n]
    PROVE  Turn(s, b, n, p)
<1>1. /\ b \in Adaptor /\ AdaptorOK(b) /\ Once(b.list) /\ Busy(s)
  BY BusyFacts
<1>2. /\ Shape(b) /\ b.next \in Nat /\ b.todo \in Nat
      /\ Len(b.list) \in Nat /\ DOMAIN b.list = 1 .. Len(b.list)
      /\ \A i \in DOMAIN b.list : b.list[i] \in Packet
  BY <1>1, AdaptorFacts DEF AdaptorOK
<1>3. n \in DOMAIN b.list /\ n = Len(b.list) - b.todo + 1
  BY <1>2 DEF Shape, Place
<1>4. b.next >= 2 /\ b.next <= Pages + 1
  BY <1>2, ContainerAssumption DEF Shape, ContainerAssumption
<1>5. p \in Packet /\ Rides(p, s) /\ p = CurrentPacket(s)
  BY <1>2, <1>3 DEF Rides, Has, CurrentPacket, Current
<1>6. RiderOK(p, b, n)
  BY <1>1, <1>3 DEF AdaptorOK, RidersOK
<1>7. ~Erasing(b, n) /\ Yet(b, n)
  BY <1>2, <1>3 DEF Erasing, Yet
<1>8. \A i \in DOMAIN b.list : i # n => b.list[i] # p
  BY <1>1, <1>3 DEF Once
<1> QED
  BY <1>1, <1>2, <1>3, <1>4, <1>5, <1>6, <1>7, <1>8 DEF Turn

\* A packet that is finished is about to be erased.
LEMMA FinishKeepsLists ==
    ASSUME Types, ListPart, NEW s \in Packet, stage[s].pc = "deliver", stage[s].todo > 0,
           Finish(s), stream[CurrentPacket(s)] = "terminated" \/ Finishes(s),
           \A q \in Packet : q # CurrentPacket(s) => got'[q] = got[q],
           UNCHANGED <<queue, running, onMerge, needed, status, cut>>
    PROVE  ListPart' /\ LateOnes' = LateOnes /\ stage' \in [Packet -> Adaptor]
<1>1. PICK b : b = stage[s]
  OBVIOUS
<1>2. PICK n : n = Place(b)
  OBVIOUS
<1>3. PICK p : p = b.list[n]
  OBVIOUS
<1>4. PICK a : a = [b EXCEPT !.pc = "erase"]
  OBVIOUS
<1>5. /\ b \in Adaptor /\ AdaptorOK(b) /\ Once(b.list) /\ Busy(s) /\ Shape(b)
      /\ b.next \in Nat /\ b.next >= 2 /\ b.next <= Pages + 1 /\ b.todo \in Nat
      /\ Len(b.list) \in Nat /\ DOMAIN b.list = 1 .. Len(b.list)
      /\ n \in DOMAIN b.list /\ n = Len(b.list) - b.todo + 1
      /\ p \in Packet /\ Rides(p, s) /\ p = CurrentPacket(s)
      /\ RiderOK(p, b, n) /\ Yet(b, n) /\ ~Erasing(b, n)
      /\ \A i \in DOMAIN b.list : i # n => b.list[i] # p
  <2>1. Turn(s, b, n, p)
    BY <1>1, <1>2, <1>3, TurnFacts
  <2> QED
    BY <2>1 DEF Turn
<1>6. stage' = [stage EXCEPT ![s] = a] /\ stream' = [stream EXCEPT ![p] = Finished(stream[p])]
  BY <1>1, <1>4, <1>5 DEF Finish
<1>7. /\ a.pc = "erase" /\ a.next = b.next /\ a.todo = b.todo /\ a.remaining = b.remaining
      /\ a.list = b.list /\ a.late = b.late /\ a.accepting = b.accepting /\ a \in Adaptor
  BY <1>4, <1>5 DEF Adaptor
<1>8. /\ stream'[p] # "open" /\ (needed[p] = Initial => Hurt(p)')
      /\ stream[p] = "terminated" => stream'[p] = "terminated"
  <2>1. stream'[p] = Finished(stream[p])
    BY <1>5, <1>6 DEF Types
  <2>2. stream[p] = "terminated" \/ needed[p] # Initial
    <3>1. Finishes(s) => b.next = needed[p]
      BY <1>1, <1>5 DEF Finishes
    <3> QED
      BY <1>5, <3>1 DEF Initial
  <2>3. stream[p] \in {"open", "terminated"}
    BY <1>5 DEF RiderOK
  <2>4. stream'[p] # "open" /\ (stream[p] = "terminated" => stream'[p] = "terminated")
    BY <2>1, <2>3 DEF Finished
  <2> QED
    BY <2>2, <2>4 DEF Hurt
<1>9. \A q \in Packet : q # p => Same(q) /\ stream'[q] = stream[q]
  BY <1>5, <1>6 DEF Same, Types
<1>10. SomeoneHurt => SomeoneHurt'
  <2>1. \A q \in Packet : Hurt(q) => Hurt(q)'
    <3>1. ASSUME NEW q \in Packet, Hurt(q) PROVE Hurt(q)'
      <4>1. CASE q = p
        <5>1. stream[p] = "terminated"
          BY <1>5, <3>1, <4>1 DEF Hurt, RiderOK
        <5> QED
          BY <1>8, <4>1, <5>1 DEF Hurt
      <4>2. CASE q # p
        BY <1>9, <3>1, <4>2 DEF Hurt
      <4> QED
        BY <4>1, <4>2
    <3> QED
      BY <3>1
  <2> QED
    BY <2>1 DEF SomeoneHurt
<1>11. Place(a) = n /\ Erasing(a, n)
  BY <1>2, <1>7 DEF Place, Erasing
<1>12. ASSUME NEW i \in DOMAIN a.list PROVE RiderOK(a.list[i], a, i)'
  <2>1. CASE i = n
    <3>1. b.list[i] = p /\ a.list[i] = p
      BY <1>3, <1>7, <2>1
    <3>2. onMerge[p] \in 1 .. a.next /\ (onMerge[p] # Initial => a.late /\ needed[p] = Initial)
      BY <1>5, <1>7 DEF RiderOK
    <3> QED
      BY <1>8, <1>11, <2>1, <3>1, <3>2 DEF RiderOK, Erasing, Place
  <2>2. CASE i # n
    <3>1. PICK q : q = b.list[i] /\ q \in Packet /\ q # p
      <4>1. i \in DOMAIN b.list
        BY <1>7
      <4>2. b.list[i] # p
        BY <1>5, <2>2, <4>1
      <4>3. b.list[i] \in Packet
        BY <1>5, <4>1, AdaptorFacts, Zenon
      <4> QED
        BY <4>2, <4>3
    <3>2. RiderOK(q, b, i) /\ Same(q)
      BY <1>5, <1>7, <1>9, <3>1 DEF AdaptorOK, RidersOK
    <3>3. ~Erasing(a, i) /\ ~Erasing(b, i) /\ (Yet(a, i) <=> Yet(b, i))
      <4>1. b.pc = "deliver"
        BY <1>1
      <4> QED
        BY <1>2, <1>7, <1>11, <2>2, <4>1 DEF Yet, Erasing
    <3>4. RiderOK(q, a, i)
      BY <1>7, <3>2, <3>3 DEF RiderOK
    <3>5. RiderOK(q, a, i)'
      BY <3>2, <3>4, RiderSame
    <3> QED
      BY <1>7, <3>1, <3>5
  <2> QED
    BY <2>1, <2>2
<1>13. Shape(a)
  BY <1>1, <1>5, <1>7 DEF Shape
<1>14. LateOK(a)'
  BY <1>5, <1>7, <1>10 DEF AdaptorOK, LateOK
<1>15. AdaptorOK(a)'
  BY <1>7, <1>12, <1>13, <1>14 DEF AdaptorOK, CutOK, RidersOK, Shape
<1>16. /\ \A q : Has(a.list, q) => Rides(q, s)
       /\ a.late = stage[s].late /\ a.pc # "none" /\ Once(a.list)
  BY <1>1, <1>5, <1>7 DEF Rides
<1>17. \A q \in Packet : ~Rides(q, s) => Same(q) /\ stream'[q] = stream[q]
  BY <1>5, <1>9
<1> QED
  BY <1>5, <1>6, <1>7, <1>10, <1>15, <1>16, <1>17, StageMoves

\* A packet gets the page and waits for the next one.
LEMMA KeepKeepsLists ==
    ASSUME Types, ListPart, NEW s \in Packet, stage[s].pc = "deliver", stage[s].todo > 0,
           KeepPacket(s), ~Finishes(s),
           got' = [got EXCEPT ![CurrentPacket(s)] =
                       IF stream[CurrentPacket(s)] = "open" THEN Append(@, stage[s].next - 1) ELSE @],
           UNCHANGED <<queue, running, onMerge, needed, status, cut>>
    PROVE  ListPart' /\ LateOnes' = LateOnes /\ stage' \in [Packet -> Adaptor]
<1>1. PICK b : b = stage[s]
  OBVIOUS
<1>2. PICK n : n = Place(b)
  OBVIOUS
<1>3. PICK p : p = b.list[n]
  OBVIOUS
<1>4. PICK k : k = b.todo - 1
  OBVIOUS
<1>5. PICK a : a = [b EXCEPT !.todo = k, !.remaining = TRUE]
  OBVIOUS
<1>6. /\ b \in Adaptor /\ AdaptorOK(b) /\ Once(b.list) /\ Busy(s) /\ Shape(b)
      /\ b.next \in Nat /\ b.next >= 2 /\ b.next <= Pages + 1 /\ b.todo \in Nat
      /\ Len(b.list) \in Nat /\ DOMAIN b.list = 1 .. Len(b.list)
      /\ n \in DOMAIN b.list /\ n = Len(b.list) - b.todo + 1
      /\ p \in Packet /\ Rides(p, s) /\ p = CurrentPacket(s)
      /\ RiderOK(p, b, n) /\ Yet(b, n) /\ ~Erasing(b, n)
      /\ \A i \in DOMAIN b.list : i # n => b.list[i] # p
  <2>1. Turn(s, b, n, p)
    BY <1>1, <1>2, <1>3, TurnFacts
  <2> QED
    BY <2>1 DEF Turn
<1>7. stage' = [stage EXCEPT ![s] = a]
  BY <1>1, <1>4, <1>5 DEF KeepPacket
<1>8. k \in Nat /\ b.todo = k + 1
  BY <1>1, <1>4, <1>6
<1>9. /\ a.pc = "deliver" /\ a.next = b.next /\ a.todo = k /\ a.remaining = TRUE
      /\ a.list = b.list /\ a.late = b.late /\ a.accepting = b.accepting /\ a \in Adaptor
  BY <1>1, <1>5, <1>6, <1>8 DEF Adaptor
<1>10. stream' = stream
  BY DEF KeepPacket
<1>11. got'[p] = (IF stream[p] = "open" THEN Append(got[p], b.next - 1) ELSE got[p])
       /\ \A q \in Packet : q # p => got'[q] = got[q]
  BY <1>1, <1>6 DEF Types
<1>12. SomeoneHurt => SomeoneHurt'
  BY <1>10 DEF SomeoneHurt, Hurt
<1>13. \A q \in Packet : q # p => Same(q) /\ stream'[q] = stream[q]
  BY <1>10, <1>11 DEF Same
<1>14. Place(a) = n + 1 /\ ~Erasing(a, n) /\ ~Yet(a, n)
  BY <1>6, <1>8, <1>9 DEF Place, Erasing, Yet
<1>15. needed[p] # b.next /\ needed[p] \in Nat
  <2>1. b.next # needed[p]
    BY <1>1, <1>6 DEF Finishes
  <2>2. needed[p] \in Nat
    BY <1>6, ContainerAssumption DEF Types, ContainerAssumption
  <2> QED
    BY <2>1, <2>2
<1>16. RiderOK(p, a, n)'
  <2>1. stream[p] = "open" /\ p \notin cut => Received(p, onMerge[p], a.next - 1)'
    <3>1. SUFFICES ASSUME stream[p] = "open", p \notin cut
                   PROVE  Received(p, onMerge[p], a.next - 1)'
      OBVIOUS
    <3>2. PICK m, x : m = onMerge[p] /\ x = b.next - 1
      OBVIOUS
    <3>3. m \in Nat /\ m >= 1 /\ m <= b.next /\ x \in Int /\ x - 1 \in Int /\ x = x - 1 + 1
      BY <1>6, <3>2 DEF RiderOK
    <3>4. Received(p, m, x - 1)
      <4>1. Received(p, onMerge[p], b.next - 2) /\ b.next - 2 = x - 1
        BY <1>6, <3>1, <3>2 DEF RiderOK
      <4> QED
        BY <3>2, <4>1
    <3>5. m <= x
      <4>1. CASE m # Initial
        <5>1. Len(got[p]) = 0 + ((x - 1) - m + 1)
          BY <1>6, <3>2, <3>4, <4>1 DEF RiderOK, Received, Earliers
        <5>2. Len(got[p]) \in Nat
          <6>1. got[p] \in Seq(1 .. Pages)
            BY <1>6 DEF Types
          <6> QED
            BY <6>1, LenProperties
        <5> QED
          BY <3>3, <5>1, <5>2
      <4>2. CASE m = Initial
        BY <1>6, <3>2, <4>2 DEF Initial
      <4> QED
        BY <4>1, <4>2
    <3>6. x \in 1 .. Pages
      BY <1>6, <3>2, ContainerAssumption DEF ContainerAssumption
    <3>7. got'[p] = Append(got[p], x) /\ needed'[p] = needed[p]
      BY <1>11, <3>1, <3>2
    <3>8. m <= x - 1 + 1
      BY <3>3, <3>5
    <3>9. Received(p, m, x)'
      BY <1>6, <3>3, <3>4, <3>6, <3>7, <3>8, ReceivedMore
    <3> QED
      BY <1>9, <3>2, <3>9 DEF Received, Earlier, Earliers
  <2>2. /\ onMerge[p] \in 1 .. a.next
        /\ onMerge[p] # Initial => a.late /\ needed[p] = Initial
        /\ needed[p] # Initial => a.next < needed[p]
        /\ stream[p] \in {"open", "terminated"}
    BY <1>6, <1>9, <1>15 DEF RiderOK
  <2> QED
    BY <1>10, <1>14, <2>1, <2>2 DEF RiderOK, Yet, Erasing, Place
<1>17. ASSUME NEW i \in DOMAIN a.list PROVE RiderOK(a.list[i], a, i)'
  <2>1. CASE i = n
    BY <1>3, <1>9, <1>16, <2>1
  <2>2. CASE i # n
    <3>1. PICK q : q = b.list[i] /\ q \in Packet /\ q # p
      <4>1. i \in DOMAIN b.list
        BY <1>9
      <4>2. b.list[i] # p
        BY <1>6, <2>2, <4>1
      <4>3. b.list[i] \in Packet
        BY <1>6, <4>1, AdaptorFacts, Zenon
      <4> QED
        BY <4>2, <4>3
    <3>2. RiderOK(q, b, i) /\ Same(q)
      BY <1>6, <1>9, <1>13, <3>1 DEF AdaptorOK, RidersOK
    <3>3. ~Erasing(a, i) /\ ~Erasing(b, i) /\ (Yet(a, i) <=> Yet(b, i))
      <4>1. b.pc = "deliver" /\ i \in 1 .. Len(b.list)
        BY <1>1, <1>6, <1>9
      <4>2. i >= n <=> i >= n + 1
        BY <1>6, <2>2, <4>1
      <4> QED
        BY <1>2, <1>9, <1>14, <4>1, <4>2 DEF Yet, Erasing
    <3>4. RiderOK(q, a, i)
      BY <1>9, <3>2, <3>3 DEF RiderOK
    <3>5. RiderOK(q, a, i)'
      BY <3>2, <3>4, RiderSame
    <3> QED
      BY <1>9, <3>1, <3>5
  <2> QED
    BY <2>1, <2>2
<1>18. Shape(a)
  BY <1>1, <1>6, <1>8, <1>9 DEF Shape
<1>19. LateOK(a)'
  BY <1>6, <1>9, <1>12 DEF AdaptorOK, LateOK
<1>20. AdaptorOK(a)'
  BY <1>9, <1>17, <1>18, <1>19 DEF AdaptorOK, CutOK, RidersOK, Shape
<1>21. /\ \A q : Has(a.list, q) => Rides(q, s)
       /\ a.late = stage[s].late /\ a.pc # "none" /\ Once(a.list)
  BY <1>1, <1>6, <1>9 DEF Rides
<1>22. \A q \in Packet : ~Rides(q, s) => Same(q) /\ stream'[q] = stream[q]
  BY <1>6, <1>13
<1> QED
  BY <1>6, <1>7, <1>9, <1>12, <1>20, <1>21, <1>22, StageMoves

\* The three outcomes of a turn.
LEMMA DeliverKeepsLists ==
    ASSUME Types, ListPart, NEW s \in Packet, Deliver(s)
    PROVE  ListPart' /\ LateOnes' = LateOnes /\ stage' \in [Packet -> Adaptor]
<1>1. PICK p : p = CurrentPacket(s)
  OBVIOUS
<1>2. /\ stage[s].pc = "deliver" /\ stage[s].todo > 0
      /\ UNCHANGED <<queue, running, onMerge, needed, status, cut>>
  BY DEF Deliver, At, progress
<1>3. Rides(p, s) /\ p \in Packet
  <2>1. PICK b : b = stage[s]
    OBVIOUS
  <2>2. PICK n : n = Place(b)
    OBVIOUS
  <2>3. Turn(s, b, n, b.list[n])
    BY <1>2, <2>1, <2>2, TurnFacts
  <2> QED
    BY <1>1, <2>3 DEF Turn
<1>4. CASE stream[p] = "terminated" /\ Finish(s) /\ UNCHANGED got
  BY <1>1, <1>2, <1>4, FinishKeepsLists
<1>5. ASSUME got' = [got EXCEPT ![p] = IF stream[p] = "open"
                                       THEN Append(@, stage[s].next - 1) ELSE @]
      PROVE \A q \in Packet : q # p => got'[q] = got[q]
  BY <1>5 DEF Types
<1>6. CASE /\ got' = [got EXCEPT ![p] = IF stream[p] = "open"
                                        THEN Append(@, stage[s].next - 1) ELSE @]
           /\ Finishes(s) /\ Finish(s)
  BY <1>1, <1>2, <1>5, <1>6, FinishKeepsLists
<1>7. CASE /\ got' = [got EXCEPT ![p] = IF stream[p] = "open"
                                        THEN Append(@, stage[s].next - 1) ELSE @]
           /\ ~Finishes(s) /\ KeepPacket(s)
  BY <1>1, <1>2, <1>7, KeepKeepsLists
<1> QED
  BY <1>1, <1>4, <1>6, <1>7 DEF Deliver

\* The streams that ended before, and their pages, are as they were.
LEMMA WholeSame ==
    ASSUME WholeUnlessCut,
           \A p \in Packet : stream'[p] = "eof" /\ p \notin cut' =>
               \/ stream[p] = "eof" /\ p \notin cut /\ got'[p] = got[p]
               \/ EveryPageOnce(p)'
    PROVE  WholeUnlessCut'
BY DEF WholeUnlessCut, EveryPageOnce

\* All pages were received, in two runs or in one.
LEMMA ReceivedAll ==
    ASSUME NEW p, NEW from \in Nat, NEW to \in Int, Received(p, from, to), from = 1,
           IF needed[p] = Initial THEN to = Pages ELSE needed[p] \in 1 .. Pages + 1 /\ to = needed[p] - 1
    PROVE  EveryPageOnce(p)
<1>1. Pages \in Nat
  BY ContainerAssumption DEF ContainerAssumption
<1>2. CASE needed[p] = Initial
  BY <1>1, <1>2 DEF Received, Earlier, Earliers, EveryPageOnce
<1>3. CASE needed[p] # Initial
  <2>1. PICK n : n = needed[p] /\ n \in 1 .. Pages + 1 /\ to = n - 1
    BY <1>3
  <2>2. (n .. Pages) \cup (1 .. n - 1) = 1 .. Pages /\ (Pages - n + 1) + (n - 1 - 1 + 1) = Pages
    BY <1>1, <2>1
  <2> QED
    BY <1>1, <1>3, <2>1, <2>2 DEF Received, Earlier, Earliers, EveryPageOnce
<1> QED
  BY <1>2, <1>3

\* A packet in its second run that is finished has all pages.
LEMMA DeliverKeepsWhole ==
    ASSUME Types, ListPart, WholeUnlessCut, NEW s \in Packet, Deliver(s)
    PROVE  WholeUnlessCut'
<1>1. PICK b : b = stage[s]
  OBVIOUS
<1>2. PICK n : n = Place(b)
  OBVIOUS
<1>3. PICK p : p = b.list[n]
  OBVIOUS
<1>4. /\ stage[s].pc = "deliver" /\ stage[s].todo > 0
      /\ UNCHANGED <<queue, running, onMerge, needed, status, cut>>
  BY DEF Deliver, At, progress
<1>5. /\ b \in Adaptor /\ Shape(b)
      /\ b.next \in Nat /\ b.next >= 2 /\ b.next <= Pages + 1
      /\ p \in Packet /\ p = CurrentPacket(s)
      /\ RiderOK(p, b, n) /\ Yet(b, n) /\ ~Erasing(b, n)
  <2>1. Turn(s, b, n, p)
    BY <1>1, <1>2, <1>3, <1>4, TurnFacts
  <2> QED
    BY <2>1 DEF Turn
<1>6. stream[p] \in {"open", "terminated"}
  BY <1>5 DEF RiderOK
<1>7. ASSUME NEW q \in Packet, q # p PROVE stream'[q] = stream[q] /\ got'[q] = got[q]
  <2>1. stream'[q] = stream[q]
    BY <1>5, <1>7 DEF Deliver, Finish, KeepPacket, Types
  <2>2. got'[q] = got[q]
    BY <1>5, <1>7 DEF Deliver, Types
  <2> QED
    BY <2>1, <2>2
<1>8. ASSUME stream'[p] = "eof", p \notin cut PROVE EveryPageOnce(p)'
  <2>1. PICK x : x = b.next - 1
    OBVIOUS
  <2>2. /\ stream[p] = "open" /\ needed[p] = b.next
        /\ got'[p] = Append(got[p], x)
    <3>1. KeepPacket(s) => stream' = stream
      BY DEF KeepPacket
    <3>2. Finish(s) => stream'[p] = Finished(stream[p])
      BY <1>5 DEF Finish, Types
    <3>3. stream[p] = "open" /\ ~KeepPacket(s)
      BY <1>5, <1>6, <1>8, <3>1, <3>2 DEF Deliver, Finished
    <3>4. /\ got' = [got EXCEPT ![p] = IF stream[p] = "open" THEN Append(@, stage[s].next - 1) ELSE @]
          /\ Finishes(s)
      BY <1>5, <3>3 DEF Deliver
    <3> QED
      BY <1>1, <1>5, <2>1, <3>3, <3>4 DEF Finishes, Types
  <2>3. /\ x \in Int /\ x - 1 \in Int /\ x = x - 1 + 1 /\ x \in 1 .. Pages /\ x = needed[p] - 1
        /\ 1 \in Nat /\ 1 <= x - 1 + 1
    BY <1>5, <2>1, <2>2, ContainerAssumption DEF ContainerAssumption
  <2>4. needed[p] # Initial
    BY <1>5, <2>2 DEF Initial
  <2>5. Received(p, 1, x - 1)
    <3>1. onMerge[p] = 1
      BY <1>5, <2>4 DEF RiderOK, Initial
    <3>2. b.next - 2 = x - 1
      BY <1>5, <2>1
    <3> QED
      BY <1>5, <1>8, <2>2, <3>1, <3>2 DEF RiderOK
  <2>6. needed'[p] = needed[p] /\ needed[p] \in 1 .. Pages + 1
    BY <1>4, <1>5 DEF Types
  <2>7. Received(p, 1, x)'
    BY <1>5, <2>2, <2>3, <2>5, <2>6, ReceivedMore
  <2>8. ToSet(got'[p]) = 1 .. Pages /\ Len(got'[p]) = Pages
    <3>1. PICK m : m = needed[p] /\ m \in 1 .. Pages + 1 /\ x = m - 1
      BY <2>3, <2>6
    <3>2. ToSet(got'[p]) = (m .. Pages) \cup (1 .. x) /\ Len(got'[p]) = (Pages - m + 1) + (x - 1 + 1)
      BY <2>4, <2>6, <2>7, <3>1 DEF Received, Earlier, Earliers
    <3>3. (m .. Pages) \cup (1 .. m - 1) = 1 .. Pages /\ (Pages - m + 1) + (m - 1 - 1 + 1) = Pages
      BY <3>1, ContainerAssumption DEF ContainerAssumption
    <3> QED
      BY <3>1, <3>2, <3>3
  <2> QED
    BY <2>8 DEF EveryPageOnce
<1>9. ASSUME NEW q \in Packet, stream'[q] = "eof", q \notin cut'
      PROVE  \/ stream[q] = "eof" /\ q \notin cut /\ got'[q] = got[q]
             \/ EveryPageOnce(q)'
  <2>1. CASE q = p
    BY <1>4, <1>8, <1>9, <2>1
  <2>2. CASE q # p
    BY <1>4, <1>7, <1>9, <2>2
  <2> QED
    BY <2>1, <2>2
<1> QED
  BY <1>9, WholeSame

-----------------------------------------------------------------------------
(***************************************************************************)
(* The queue.                                                              *)
(***************************************************************************)
\* A list goes to the end of the queue.
LEMMA QueueGrows ==
    ASSUME Types, QueueInv, NEW l \in Seq(Packet), l # <<>>, Once(l),
           \A q : Has(l, q) => ~OnQueue(q), queue' = Append(queue, l)
    PROVE  QueueInv' /\ \A q : OnQueue(q)' <=> OnQueue(q) \/ Has(l, q)
<1>1. PICK N, r : N = Len(queue) /\ r = queue'
  OBVIOUS
<1>2. queue \in Seq(PacketList) /\ N \in Nat /\ DOMAIN queue = 1 .. N
  BY <1>1, QueueFacts
<1>3. Extended(PacketList, queue, l, r)
  BY <1>1, <1>2, Appended DEF PacketList
<1>4. DOMAIN r = 1 .. N + 1 /\ r[N + 1] = l /\ \A i \in 1 .. N : r[i] = queue[i]
  BY <1>1, <1>3 DEF Extended
<1>5. \A i \in 1 .. N + 1 : i \in 1 .. N \/ i = N + 1
  BY <1>2
<1>6. N + 1 \in 1 .. N + 1 /\ 1 .. N \subseteq 1 .. N + 1
  BY <1>2
<1>7. \A i \in 1 .. N : \A q : Has(queue[i], q) => ~Has(l, q)
  BY <1>2 DEF OnQueue
<1>8. \A i \in DOMAIN r : r[i] # <<>> /\ Once(r[i])
  BY <1>2, <1>4, <1>5 DEF QueueInv
<1>9. ASSUME NEW i \in DOMAIN r, NEW j \in DOMAIN r, NEW p \in Packet, Has(r[i], p), Has(r[j], p)
      PROVE  i = j
  <2>1. CASE i \in 1 .. N /\ j \in 1 .. N
    BY <1>2, <1>4, <1>9, <2>1 DEF QueueInv
  <2>2. CASE i = N + 1 /\ j \in 1 .. N
    BY <1>4, <1>7, <1>9, <2>2
  <2>3. CASE j = N + 1 /\ i \in 1 .. N
    BY <1>4, <1>7, <1>9, <2>3
  <2> QED
    BY <1>4, <1>5, <1>9, <2>1, <2>2, <2>3
<1>10. QueueInv'
  BY <1>1, <1>8, <1>9 DEF QueueInv, Once, Has
<1>11. \A q : (\E i \in DOMAIN r : Has(r[i], q)) <=> OnQueue(q) \/ Has(l, q)
  BY <1>2, <1>4, <1>5, <1>6 DEF OnQueue
<1> QED
  BY <1>1, <1>10, <1>11 DEF OnQueue, Has

\* The first list is taken off the queue.
LEMMA QueueShrinks ==
    ASSUME Types, QueueInv, queue # <<>>, queue' = Tail(queue), NEW l, l = Head(queue)
    PROVE  /\ QueueInv' /\ \A q \in Packet : OnQueue(q)' <=> OnQueue(q) /\ ~Has(l, q)
           /\ l \in Seq(Packet) /\ l # <<>> /\ Once(l) /\ \A q : Has(l, q) => q \in Packet /\ OnQueue(q)
<1>1. PICK N, r : N = Len(queue) /\ r = queue'
  OBVIOUS
<1>2. queue \in Seq(PacketList) /\ N \in Nat /\ DOMAIN queue = 1 .. N
  BY <1>1, QueueFacts
<1>3. Shifted(PacketList, queue, r)
  BY <1>1, <1>2, Rest
<1>4. /\ DOMAIN r = 1 .. N - 1 /\ l = queue[1] /\ N > 0
      /\ \A i \in 1 .. N - 1 : i + 1 \in 1 .. N /\ r[i] = queue[i + 1]
      /\ \A i \in 1 .. N : i # 1 => i - 1 \in 1 .. N - 1 /\ r[i - 1] = queue[i]
  BY <1>1, <1>3 DEF Shifted
<1>5. 1 \in 1 .. N /\ \A i \in 1 .. N - 1 : i + 1 # 1
  BY <1>2, <1>4
<1>6. l \in Seq(Packet) /\ l # <<>> /\ Once(l) /\ \A q : Has(l, q) => OnQueue(q)
  BY <1>2, <1>4, <1>5, QueueFacts DEF QueueInv, OnQueue
<1>7. \A q : Has(l, q) => q \in Packet
  BY <1>6, QueueFacts
<1>8. \A i \in DOMAIN r : i \in Int /\ i + 1 \in DOMAIN queue /\ r[i] = queue[i + 1]
  BY <1>2, <1>4
<1>9. \A i, j \in DOMAIN queue : \A p \in Packet : Has(queue[i], p) /\ Has(queue[j], p) => i = j
  BY DEF QueueInv
<1>10. \A i \in DOMAIN r : r[i] # <<>> /\ Once(r[i])
  <2> SUFFICES ASSUME NEW i \in DOMAIN r PROVE r[i] # <<>> /\ Once(r[i])
    OBVIOUS
  <2>1. PICK k : k \in DOMAIN queue /\ r[i] = queue[k]
    BY <1>8
  <2> QED
    BY <2>1 DEF QueueInv
<1>11. ASSUME NEW i \in DOMAIN r, NEW j \in DOMAIN r, NEW p \in Packet, Has(r[i], p), Has(r[j], p)
      PROVE  i = j
  <2>1. PICK k, m : k = i + 1 /\ m = j + 1
    OBVIOUS
  <2>2. k \in DOMAIN queue /\ m \in DOMAIN queue /\ Has(queue[k], p) /\ Has(queue[m], p)
    BY <1>11, <1>8, <2>1
  <2>3. k = m
    BY <1>9, <2>2
  <2> QED
    BY <1>8, <2>1, <2>3
<1>12. QueueInv'
  BY <1>1, <1>10, <1>11 DEF QueueInv, Once, Has
<1>13. ASSUME NEW q \in Packet PROVE (\E i \in DOMAIN r : Has(r[i], q)) <=> OnQueue(q) /\ ~Has(l, q)
  <2>1. ASSUME NEW i \in DOMAIN r, Has(r[i], q) PROVE OnQueue(q) /\ ~Has(l, q)
    <3>1. i + 1 \in DOMAIN queue /\ Has(queue[i + 1], q) /\ i + 1 # 1
      BY <1>2, <1>4, <1>5, <2>1
    <3> QED
      BY <1>2, <1>4, <1>5, <3>1 DEF OnQueue, QueueInv
  <2>2. ASSUME NEW i \in DOMAIN queue, Has(queue[i], q), ~Has(l, q) PROVE \E j \in DOMAIN r : Has(r[j], q)
    BY <1>2, <1>4, <2>2
  <2> QED
    BY <2>1, <2>2 DEF OnQueue
<1> QED
  BY <1>1, <1>6, <1>7, <1>12, <1>13 DEF OnQueue, Has

\* A packet that was just dispatched has received nothing.
LEMMA FreshReceived ==
    ASSUME NEW p, Fresh(p), NEW from \in Nat, NEW to \in Int, from = to + 1
    PROVE  Received(p, from, to)
<1>1. ToSet(got[p]) = {} /\ Len(got[p]) = 0
  BY DEF Fresh, ToSet
<1>2. from .. to = {} /\ to - from + 1 = 0
  OBVIOUS
<1>3. Earlier(p) = {} /\ Earliers(p) = 0
  BY DEF Earlier, Earliers, Fresh
<1> QED
  BY <1>1, <1>2, <1>3 DEF Received

\* A packet is put on the queue, in a list of its own or of others.
LEMMA JoinsQueue ==
    ASSUME Types, ListPart, NEW p \in Packet, status[p] = "new",
           status' = [status EXCEPT ![p] = status'[p]], status'[p] # "new",
           UNCHANGED <<running, stage, onMerge, needed, stream, got, cut>>,
           QueueInv', \A q \in Packet : OnQueue(q)' <=> OnQueue(q) \/ q = p
    PROVE  ListPart' /\ LateOnes' = LateOnes /\ stage' \in [Packet -> Adaptor]
<1>1. Fresh(p)
  BY DEF ListPart, NewInv
<1>2. (\A q : Same(q)) /\ (SomeoneHurt => SomeoneHurt')
  BY DEF Same, SomeoneHurt, Hurt
<1>3. \A q, s : (Rides(q, s)' <=> Rides(q, s)) /\ (Busy(s)' <=> Busy(s))
  BY DEF Rides, Has, Busy
<1>4. ListInv'
  <2>1. \A s, q \in Packet : Rides(q, s)' => ~OnQueue(q)'
    BY <1>1, <1>3 DEF ListPart, ListInv, Fresh
  <2>2. /\ \A s \in Packet : Once(stage[s].list)'
        /\ \A s, t, q \in Packet : Rides(q, s)' /\ Rides(q, t)' => s = t
    BY <1>3 DEF ListPart, ListInv, Once
  <2> QED
    BY <2>1, <2>2 DEF ListInv
<1>5. RunInv'
  <2>1. \A s \in Packet : Busy(s)' => ~OnQueue(s)'
    BY <1>1, <1>3 DEF ListPart, RunInv, Fresh
  <2>2. /\ Once(running') /\ \A s \in Packet : Busy(s)' <=> Has(running', s)
        /\ \A s \in Packet : ~Busy(s)' => stage'[s] = NoAdaptor
        /\ \A s, t \in Packet : Busy(s)' /\ Rides(s, t)' => t = s /\ onMerge'[s] = Initial
    BY <1>3 DEF ListPart, RunInv
  <2> QED
    BY <2>1, <2>2 DEF RunInv, Once, Has
<1>6. NewInv'
  <2>1. ASSUME NEW q \in Packet, status'[q] = "new" PROVE Fresh(q)'
    <3>1. q # p /\ status[q] = "new"
      BY <2>1 DEF Types
    <3>2. Fresh(q)
      BY <3>1 DEF ListPart, NewInv
    <3> QED
      BY <1>3, <3>1, <3>2 DEF Fresh
  <2> QED
    BY <2>1 DEF NewInv
<1>7. QueuedInv'
  <2>1. QueuedOK(p)
    <3>1. Received(p, 1, 0)
      BY <1>1, FreshReceived
    <3> QED
      BY <1>1, <3>1 DEF QueuedOK, Fresh
  <2>2. ASSUME NEW q \in Packet, OnQueue(q)' PROVE QueuedOK(q)'
    <3>1. QueuedOK(q)
      BY <2>1, <2>2 DEF ListPart, QueuedInv
    <3> QED
      BY <1>2, <3>1, QueuedSame
  <2> QED
    BY <2>2 DEF QueuedInv
<1>8. StageInv'
  <2>1. ASSUME NEW s \in Packet, Busy(s) PROVE AdaptorOK(stage[s])'
    <3>1. PICK a : a = stage[s]
      OBVIOUS
    <3>2. AdaptorOK(a) /\ stage'[s] = a
      BY <2>1, <3>1 DEF ListPart, StageInv
    <3>3. AdaptorOK(a)'
      BY <1>2, <3>2, AdaptorSame
    <3> QED
      BY <3>2, <3>3
  <2> QED
    BY <1>3, <2>1 DEF StageInv
<1>9. LateOnes' = LateOnes
  BY DEF LateOnes
<1>10. stage' \in [Packet -> Adaptor]
  BY DEF Types
<1> QED
  BY <1>4, <1>5, <1>6, <1>7, <1>8, <1>9, <1>10 DEF ListPart

\* A packet alone in its list.
LEMMA Alone ==
    ASSUME NEW p \in Packet, NEW l, l = <<p>>
    PROVE  l \in Seq(Packet) /\ l # <<>> /\ Once(l) /\ \A q : Has(l, q) <=> q = p
<1>1. <<>> \in Seq(Packet) /\ Len(<<>>) = 0 /\ Once(<<>>) /\ \A q : ~Has(<<>>, q)
  BY DEF Once, Has
<1>2. l = Append(<<>>, p)
  OBVIOUS
<1>3. Extended(Packet, <<>>, p, l)
  BY <1>1, <1>2, Appended
<1> QED
  BY <1>1, <1>3 DEF Extended

\* enqueue() of a packet that is not merged.
LEMMA EnqueueKeepsLists ==
    ASSUME Types, ListPart, NEW p \in Packet, EnqueueAlone(p)
    PROVE  ListPart' /\ LateOnes' = LateOnes /\ stage' \in [Packet -> Adaptor]
<1>1. PICK l : l = <<p>>
  OBVIOUS
<1>2. l \in Seq(Packet) /\ l # <<>> /\ Once(l) /\ \A q : Has(l, q) <=> q = p
  BY <1>1, Alone
<1>3. /\ status[p] = "new" /\ queue' = Append(queue, l) /\ status' = [status EXCEPT ![p] = "sent"]
      /\ UNCHANGED <<running, stage, onMerge, needed, stream, got, cut>>
  BY <1>1 DEF EnqueueAlone, Dispatching, progress, output
<1>4. ~OnQueue(p)
  BY <1>3 DEF ListPart, NewInv, Fresh
<1>5. QueueInv' /\ \A q : OnQueue(q)' <=> OnQueue(q) \/ Has(l, q)
  <2>1. QueueInv /\ \A q : Has(l, q) => ~OnQueue(q)
    BY <1>2, <1>4 DEF ListPart
  <2> QED
    BY <1>2, <1>3, <2>1, QueueGrows
<1>6. status'[p] = "sent"
  BY <1>3 DEF Types
<1>7. status' = [status EXCEPT ![p] = status'[p]] /\ status'[p] # "new"
  BY <1>3, <1>6
<1>8. \A q \in Packet : OnQueue(q)' <=> OnQueue(q) \/ q = p
  BY <1>2, <1>5
<1> QED
  BY <1>3, <1>5, <1>7, <1>8, JoinsQueue

\* enqueue() of a packet that joins a list of the queue.
LEMMA MergeQueuedKeepsLists ==
    ASSUME Types, ListPart, NEW p \in Packet, MergeQueued(p)
    PROVE  ListPart' /\ LateOnes' = LateOnes /\ stage' \in [Packet -> Adaptor]
<1>1. PICK i \in DOMAIN queue : queue' = [queue EXCEPT ![i] = Append(@, p)]
  BY DEF MergeQueued
<1>2. /\ status[p] = "new" /\ status' = [status EXCEPT ![p] = "release"]
      /\ UNCHANGED <<running, stage, onMerge, needed, stream, got, cut>>
  BY DEF MergeQueued, Dispatching, progress, output
<1>3. PICK l, m : l = queue[i] /\ m = Append(l, p)
  OBVIOUS
<1>4. l \in Seq(Packet)
  BY <1>3, QueueFacts
<1>5. Extended(Packet, l, p, m)
  BY <1>3, <1>4, Appended
<1>6. ~OnQueue(p)
  BY <1>2 DEF ListPart, NewInv, Fresh
<1>7. m # <<>> /\ Once(m) /\ \A q : Has(m, q) <=> Has(l, q) \/ q = p
  <2>1. Once(l) /\ ~Has(l, p)
    BY <1>3, <1>6 DEF ListPart, QueueInv, OnQueue
  <2> QED
    BY <1>5, <2>1 DEF Extended
<1>8. PICK r : r = queue'
  OBVIOUS
<1>9. DOMAIN r = DOMAIN queue /\ r[i] = m /\ \A j \in DOMAIN queue : j # i => r[j] = queue[j]
  BY <1>1, <1>3, <1>8, QueueFacts
<1>10. \A j \in DOMAIN queue : \A q : Has(r[j], q) <=> Has(queue[j], q) \/ (j = i /\ q = p)
  BY <1>3, <1>7, <1>9
<1>11. QueueInv'
  <2>1. \A j \in DOMAIN r : r[j] # <<>> /\ Once(r[j])
    BY <1>7, <1>9 DEF ListPart, QueueInv
  <2>2. ASSUME NEW j \in DOMAIN r, NEW k \in DOMAIN r, NEW q \in Packet, Has(r[j], q), Has(r[k], q)
        PROVE  j = k
    <3>1. CASE q = p
      BY <1>6, <1>9, <1>10, <2>2, <3>1 DEF OnQueue
    <3>2. CASE q # p
      BY <1>9, <1>10, <2>2, <3>2 DEF ListPart, QueueInv
    <3> QED
      BY <3>1, <3>2
  <2> QED
    BY <1>8, <2>1, <2>2 DEF QueueInv, Once, Has
<1>12. \A q \in Packet : OnQueue(q)' <=> OnQueue(q) \/ q = p
  <2>1. \A q : (\E j \in DOMAIN r : Has(r[j], q)) <=> OnQueue(q) \/ q = p
    BY <1>9, <1>10 DEF OnQueue
  <2> QED
    BY <1>8, <2>1 DEF OnQueue, Has
<1>13. status'[p] = "release"
  BY <1>2 DEF Types
<1>14. status' = [status EXCEPT ![p] = status'[p]] /\ status'[p] # "new"
  BY <1>2, <1>13
<1> QED
  BY <1>2, <1>11, <1>12, <1>14, JoinsQueue

-----------------------------------------------------------------------------
(***************************************************************************)
(* Merging with a running stage.                                           *)
(***************************************************************************)
\* A packet that was just dispatched may join a running stage.
LEMMA HostChanges ==
    ASSUME Types, ListPart, NEW p \in Packet, status[p] = "new",
           status' = [status EXCEPT ![p] = status'[p]], status'[p] # "new",
           NEW s \in Packet, Busy(s), NEW a \in Adaptor, stage' = [stage EXCEPT ![s] = a],
           a.pc # "none", Once(a.list), \A q : Has(a.list, q) => Rides(q, s) \/ q = p,
           UNCHANGED <<queue, running>>,
           \A q \in Packet : q # p => Same(q) /\ stream'[q] = stream[q],
           AdaptorOK(a)', SomeoneHurt => SomeoneHurt'
    PROVE  ListPart' /\ stage' \in [Packet -> Adaptor]
<1>1. stage'[s] = a /\ \A t \in Packet : t # s => stage'[t] = stage[t]
  BY DEF Types
<1>2. \A q \in Packet : OnQueue(q)' <=> OnQueue(q)
  BY DEF OnQueue
<1>3. \A t \in Packet : Busy(t)' <=> Busy(t)
  BY <1>1 DEF Busy
<1>4. ASSUME NEW q \in Packet, NEW t \in Packet, Rides(q, t)'
      PROVE  Rides(q, t) \/ (q = p /\ t = s)
  <2>1. CASE t = s
    BY <1>1, <1>4, <2>1 DEF Rides
  <2>2. CASE t # s
    BY <1>1, <1>4, <2>2 DEF Rides
  <2> QED
    BY <2>1, <2>2
<1>5. Fresh(p)
  BY DEF ListPart, NewInv
<1>6. ~OnQueue(p) /\ ~Busy(p) /\ \A t \in Packet : ~Rides(p, t)
  BY <1>5 DEF Fresh
<1>7. QueueInv'
  BY DEF ListPart, QueueInv
<1>8. ListInv'
  <2>1. \A t \in Packet : Once(stage[t].list)'
    <3>1. ASSUME NEW t \in Packet PROVE Once(stage'[t].list)
      <4>1. CASE t = s
        BY <1>1, <4>1
      <4>2. CASE t # s
        BY <1>1, <4>2 DEF ListPart, ListInv
      <4> QED
        BY <4>1, <4>2
    <3> QED
      BY <3>1 DEF Once
  <2>2. \A t, u, q \in Packet : Rides(q, t)' /\ Rides(q, u)' => t = u
    BY <1>4, <1>6 DEF ListPart, ListInv
  <2>3. \A t, q \in Packet : Rides(q, t)' => ~OnQueue(q)'
    BY <1>2, <1>4, <1>6 DEF ListPart, ListInv
  <2> QED
    BY <2>1, <2>2, <2>3 DEF ListInv
<1>9. RunInv'
  <2>1. Once(running)' /\ \A t \in Packet : Busy(t)' <=> Has(running, t)'
    BY <1>3 DEF ListPart, RunInv, Once, Has
  <2>2. \A t \in Packet : ~Busy(t)' => stage'[t] = NoAdaptor
    BY <1>1, <1>3 DEF ListPart, RunInv
  <2>3. \A t \in Packet : Busy(t)' => ~OnQueue(t)'
    BY <1>2, <1>3 DEF ListPart, RunInv
  <2>4. ASSUME NEW t \in Packet, NEW u \in Packet, Busy(t)', Rides(t, u)'
        PROVE  u = t /\ onMerge'[t] = Initial
    <3>1. Busy(t) /\ t # p
      BY <1>3, <1>6, <2>4
    <3>2. Rides(t, u) /\ Same(t)
      BY <1>4, <2>4, <3>1
    <3> QED
      BY <3>1, <3>2 DEF ListPart, RunInv, Same
  <2> QED
    BY <2>1, <2>2, <2>3, <2>4 DEF RunInv
<1>10. NewInv'
  <2>1. ASSUME NEW q \in Packet, status'[q] = "new" PROVE Fresh(q)'
    <3>1. q # p /\ status[q] = "new"
      BY <2>1 DEF Types
    <3>2. Fresh(q) /\ Same(q) /\ stream'[q] = stream[q]
      BY <3>1 DEF ListPart, NewInv
    <3>3. \A t \in Packet : ~Rides(q, t)'
      BY <1>4, <3>1, <3>2 DEF Fresh
    <3> QED
      BY <1>2, <1>3, <3>2, <3>3 DEF Fresh, Same
  <2> QED
    BY <2>1 DEF NewInv
<1>11. QueuedInv'
  <2>1. ASSUME NEW q \in Packet, OnQueue(q)' PROVE QueuedOK(q)'
    <3>1. OnQueue(q) /\ q # p
      BY <1>2, <1>6, <2>1
    <3>2. QueuedOK(q) /\ Same(q)
      BY <3>1 DEF ListPart, QueuedInv
    <3> QED
      BY <3>2, QueuedSame
  <2> QED
    BY <2>1 DEF QueuedInv
<1>12. StageInv'
  <2>1. ASSUME NEW t \in Packet, Busy(t)', t # s PROVE AdaptorOK(stage[t])'
    <3>1. PICK b : b = stage[t]
      OBVIOUS
    <3>2. AdaptorOK(b) /\ stage'[t] = b
      BY <1>1, <1>3, <2>1, <3>1 DEF ListPart, StageInv
    <3>3. ASSUME NEW i \in DOMAIN b.list PROVE Same(b.list[i])
      <4>1. b.list[i] \in Packet /\ Rides(b.list[i], t)
        BY <3>1, RiderFacts
      <4>2. b.list[i] # p
        BY <1>6, <4>1
      <4> QED
        BY <4>1, <4>2
    <3>4. AdaptorOK(b)'
      BY <3>2, <3>3, AdaptorSame
    <3> QED
      BY <3>2, <3>4
  <2>2. AdaptorOK(stage[s])'
    BY <1>1
  <2> QED
    BY <2>1, <2>2 DEF StageInv
<1>13. stage' \in [Packet -> Adaptor]
  BY DEF Types
<1> QED
  BY <1>7, <1>8, <1>9, <1>10, <1>11, <1>12, <1>13 DEF ListPart

\* What is known of a stage that takes a merger.
Hosting(p, s, b) ==
    /\ s \in Packet /\ Busy(s) /\ b \in Adaptor /\ AdaptorOK(b) /\ Once(b.list) /\ Shape(b)
    /\ b.pc \notin {"cleanup", "abort", "none"} /\ b.list \in Seq(Packet)
    /\ b.next \in Nat /\ b.todo \in Nat /\ b.todo <= Len(b.list) /\ b.next >= 1
    /\ Len(b.list) \in Nat /\ DOMAIN b.list = 1 .. Len(b.list)
    /\ Fresh(p) /\ ~Has(b.list, p) /\ s # p
    /\ \A i \in DOMAIN b.list : b.list[i] \in Packet

\* A stage that accepts packets is one that runs.
LEMMA HostFacts ==
    ASSUME Types, ListPart, NEW p \in Packet, Dispatching(p), NEW i \in DOMAIN running, FirstHost(p, i),
           NEW s, s = running[i], NEW b, b = stage[s]
    PROVE  Hosting(p, s, b)
<1>1. s \in Packet /\ Has(running, s)
  <2>1. running \in Seq(Packet)
    BY DEF Types
  <2> QED
    BY <2>1, LenProperties, ElementOfSeq DEF Has
<1>2. Busy(s) /\ b \in Adaptor
  BY <1>1 DEF ListPart, RunInv, Types
<1>3. AdaptorOK(b) /\ Once(b.list)
  BY <1>1, <1>2 DEF ListPart, StageInv, ListInv
<1>4. Shape(b) /\ b.accepting
  BY <1>3 DEF AdaptorOK, FirstHost, Accepts
<1>5. b.pc \notin {"cleanup", "abort", "none"}
  BY <1>2, <1>4 DEF Shape, Busy
<1>6. Fresh(p)
  BY DEF ListPart, NewInv, Dispatching
<1>7. ~Has(b.list, p) /\ s # p
  BY <1>1, <1>2, <1>6 DEF Fresh, Rides
<1>8. /\ b.next \in Nat /\ b.todo \in Nat /\ Len(b.list) \in Nat /\ DOMAIN b.list = 1 .. Len(b.list)
      /\ b.list \in Seq(Packet) /\ \A j \in DOMAIN b.list : b.list[j] \in Packet
  BY <1>2, AdaptorFacts
<1>9. b.todo <= Len(b.list) /\ b.next >= 1
  BY <1>4, <1>8, ContainerAssumption DEF Shape, ContainerAssumption
<1> QED
  BY <1>1, <1>2, <1>3, <1>4, <1>5, <1>6, <1>7, <1>8, <1>9 DEF Hosting

\* The packet goes to the front, past the iterator of output_page(), and gets
\* the pages from the next one on.
LEMMA MergeKeepsLists ==
    ASSUME Types, ListPart, NEW p \in Packet, Merge(p)
    PROVE  ListPart' /\ stage' \in [Packet -> Adaptor]
<1>1. PICK i \in DOMAIN running : /\ FirstHost(p, i) /\ Merged(p, running[i])
                                  /\ JoinList(p, running[i], <<p>> \o stage[running[i]].list)
  BY DEF Merge
<1>2. PICK s : s = running[i]
  OBVIOUS
<1>3. PICK b : b = stage[s]
  OBVIOUS
<1>4. PICK l, late : l = <<p>> \o b.list /\ late = (b.late \/ Late(s))
  OBVIOUS
<1>5. PICK a : a = [b EXCEPT !.list = l, !.late = late]
  OBVIOUS
<1>6. /\ s \in Packet /\ Busy(s) /\ b \in Adaptor /\ AdaptorOK(b) /\ Once(b.list) /\ Shape(b)
      /\ b.pc \notin {"cleanup", "abort", "none"} /\ b.list \in Seq(Packet)
      /\ b.next \in Nat /\ b.todo \in Nat /\ b.todo <= Len(b.list) /\ b.next >= 1
      /\ Len(b.list) \in Nat /\ DOMAIN b.list = 1 .. Len(b.list)
      /\ Fresh(p) /\ ~Has(b.list, p) /\ s # p
      /\ \A j \in DOMAIN b.list : b.list[j] \in Packet
  <2>1. Hosting(p, s, b)
    BY <1>1, <1>2, <1>3, HostFacts DEF Merge
  <2> QED
    BY <2>1 DEF Hosting
<1>7. Led(Packet, b.list, p, l)
  BY <1>4, <1>6, Prepended
<1>8. /\ l \in Seq(Packet) /\ Len(l) = Len(b.list) + 1 /\ DOMAIN l = 1 .. Len(b.list) + 1 /\ l # <<>>
      /\ l[1] = p /\ \A j \in 1 .. Len(b.list) : l[j + 1] = b.list[j]
      /\ \A q : Has(l, q) <=> Has(b.list, q) \/ q = p
      /\ Once(l)
  BY <1>6, <1>7 DEF Led
<1>9. late \in BOOLEAN /\ (late <=> b.late \/ b.next # Initial)
  BY <1>3, <1>4, <1>6, AdaptorFacts DEF Late
<1>10. /\ a.pc = b.pc /\ a.next = b.next /\ a.todo = b.todo /\ a.remaining = b.remaining
       /\ a.list = l /\ a.late = late /\ a.accepting = b.accepting /\ a \in Adaptor
  BY <1>5, <1>6, <1>8, <1>9 DEF Adaptor, PacketList
<1>11. /\ stage' = [stage EXCEPT ![s] = a] /\ onMerge' = [onMerge EXCEPT ![p] = b.next]
       /\ status[p] = "new" /\ UNCHANGED <<queue, running, needed, stream, got, cut>>
       /\ status' = [status EXCEPT ![p] = IF Late(s) /\ ~stage[s].late THEN "sent" ELSE "release"]
  <2>1. JoinList(p, s, l) /\ Merged(p, s)
    BY <1>1, <1>2, <1>3, <1>4
  <2>2. stage' = [stage EXCEPT ![s] = a]
    BY <1>3, <1>4, <1>5, <2>1 DEF JoinList
  <2> QED
    BY <1>3, <2>1, <2>2 DEF Merged, Merge, Dispatching, output
<1>12. status' = [status EXCEPT ![p] = status'[p]] /\ status'[p] # "new"
  <2>1. PICK x : x \in {"sent", "release"} /\ status' = [status EXCEPT ![p] = x]
    BY <1>11
  <2>2. status'[p] = x
    BY <2>1 DEF Types
  <2> QED
    BY <2>1, <2>2
<1>13. onMerge'[p] = b.next /\ \A q \in Packet : q # p => Same(q) /\ stream'[q] = stream[q]
  BY <1>11 DEF Types, Same
<1>14. SomeoneHurt => SomeoneHurt'
  BY <1>11 DEF SomeoneHurt, Hurt
<1>15. Place(a) = Place(b) + 1 /\ Place(b) \in Nat /\ Place(b) >= 1
  <2>1. PICK N, m : N = Len(b.list) /\ m = b.todo
    OBVIOUS
  <2>2. N \in Nat /\ m \in 0 .. N /\ Place(a) = (N + 1) - m + 1 /\ Place(b) = N - m + 1
    BY <1>6, <1>8, <1>10, <2>1 DEF Place
  <2> QED
    BY <2>2
<1>16. ASSUME NEW j \in 1 .. Len(b.list) PROVE RiderOK(l[j + 1], a, j + 1)'
  <2>1. PICK q : q = b.list[j]
    OBVIOUS
  <2>2. q \in Packet /\ q # p /\ l[j + 1] = q
    BY <1>6, <1>8, <2>1 DEF Has
  <2>3. RiderOK(q, b, j) /\ Same(q)
    BY <1>6, <1>13, <2>1, <2>2 DEF AdaptorOK, RidersOK
  <2>4. (Erasing(a, j + 1) <=> Erasing(b, j)) /\ (Yet(a, j + 1) <=> Yet(b, j))
    BY <1>10, <1>15 DEF Erasing, Yet
  <2>5. RiderOK(q, a, j + 1)
    BY <1>9, <1>10, <2>3, <2>4 DEF RiderOK
  <2>6. PICK k : k = j + 1
    OBVIOUS
  <2>7. RiderOK(q, a, k)'
    BY <2>3, <2>5, <2>6, RiderSame
  <2> QED
    BY <2>2, <2>6, <2>7
<1>17. RiderOK(p, a, 1)'
  <2>1. ~Erasing(a, 1) /\ ~Yet(a, 1)
    BY <1>15 DEF Erasing, Yet
  <2>2. stream'[p] = "open" /\ needed'[p] = Initial /\ got'[p] = got[p]
    BY <1>6, <1>11 DEF Fresh
  <2>3. Received(p, b.next, b.next - 1)
    <3>1. b.next - 1 \in Int /\ b.next = b.next - 1 + 1
      BY <1>6
    <3> QED
      BY <1>6, <3>1, FreshReceived
  <2>4. Received(p, onMerge[p], a.next - 1)'
    <3>1. Received(p, b.next, b.next - 1)'
      BY <1>11, <2>3 DEF Received, Earlier, Earliers
    <3> QED
      BY <1>10, <1>13, <3>1 DEF Received, Earlier, Earliers
  <2>5. onMerge'[p] \in 1 .. a.next /\ (onMerge'[p] # Initial => a.late /\ needed'[p] = Initial)
    BY <1>6, <1>9, <1>10, <1>13, <2>2
  <2> QED
    BY <2>1, <2>2, <2>4, <2>5 DEF RiderOK, Erasing, Yet, Place
<1>18. RidersOK(a)'
  <2>1. ASSUME NEW k \in DOMAIN l PROVE RiderOK(l[k], a, k)'
    <3>1. CASE k = 1
      BY <1>8, <1>17, <3>1
    <3>2. CASE k # 1
      <4>1. PICK j : j = k - 1
        OBVIOUS
      <4>2. j \in 1 .. Len(b.list) /\ k = j + 1
        BY <1>6, <1>8, <3>2, <4>1
      <4> QED
        BY <1>16, <4>2
    <3> QED
      BY <3>1, <3>2
  <2> QED
    BY <1>10, <2>1 DEF RidersOK
<1>19. LateOK(a)'
  <2>1. 1 \in DOMAIN l /\ l[1] = p
    BY <1>6, <1>8
  <2>2. CASE b.next # Initial
    BY <1>10, <1>13, <2>1, <2>2 DEF LateOK
  <2>3. ASSUME b.late, ~SomeoneHurt' PROVE \E k \in DOMAIN l : onMerge'[l[k]] # Initial
    <3>1. PICK j \in DOMAIN b.list : onMerge[b.list[j]] # Initial
      BY <1>6, <1>14, <2>3 DEF AdaptorOK, LateOK
    <3>2. b.list[j] \in Packet /\ b.list[j] # p
      BY <1>6, <3>1 DEF Has
    <3>3. onMerge'[b.list[j]] = onMerge[b.list[j]]
      BY <1>13, <3>2 DEF Same
    <3>4. j + 1 \in DOMAIN l /\ l[j + 1] = b.list[j]
      BY <1>6, <1>8, <3>1
    <3> QED
      BY <3>1, <3>3, <3>4
  <2> QED
    BY <1>9, <1>10, <2>2, <2>3 DEF LateOK
<1>20. Shape(a)
  BY <1>6, <1>8, <1>10 DEF Shape
<1>21. AdaptorOK(a)'
  BY <1>6, <1>10, <1>18, <1>19, <1>20 DEF AdaptorOK, CutOK, Shape
<1>22. a.pc # "none" /\ Once(a.list) /\ \A q : Has(a.list, q) => Rides(q, s) \/ q = p
  BY <1>3, <1>6, <1>8, <1>10 DEF Rides
<1> QED
  BY <1>6, <1>10, <1>11, <1>12, <1>13, <1>14, <1>21, <1>22, HostChanges

\* The link to the packet is overwritten: it is in no list.
LEMMA MergeRacesKeepsLists ==
    ASSUME Types, ListPart, NEW p \in Packet, MergeRaces(p)
    PROVE  ListPart' /\ stage' \in [Packet -> Adaptor]
<1>1. PICK i \in DOMAIN running : /\ FirstHost(p, i) /\ Merged(p, running[i])
                                  /\ JoinList(p, running[i], stage[running[i]].list)
  BY DEF MergeRaces
<1>2. PICK s : s = running[i]
  OBVIOUS
<1>3. PICK b : b = stage[s]
  OBVIOUS
<1>4. PICK late : late = (b.late \/ Late(s))
  OBVIOUS
<1>5. PICK a : a = [b EXCEPT !.late = late]
  OBVIOUS
<1>6. /\ s \in Packet /\ Busy(s) /\ b \in Adaptor /\ AdaptorOK(b) /\ Once(b.list) /\ Shape(b)
      /\ b.pc \notin {"cleanup", "abort", "none"} /\ b.list \in Seq(Packet)
      /\ b.next \in Nat /\ b.todo \in Nat /\ b.todo <= Len(b.list) /\ b.next >= 1
      /\ Len(b.list) \in Nat /\ DOMAIN b.list = 1 .. Len(b.list)
      /\ Fresh(p) /\ ~Has(b.list, p) /\ s # p
      /\ \A j \in DOMAIN b.list : b.list[j] \in Packet
  <2>1. Hosting(p, s, b)
    BY <1>1, <1>2, <1>3, HostFacts DEF MergeRaces
  <2> QED
    BY <2>1 DEF Hosting
<1>7. late \in BOOLEAN /\ (b.late => late)
  BY <1>4, <1>6, AdaptorFacts DEF Late
<1>8. /\ a.pc = b.pc /\ a.next = b.next /\ a.todo = b.todo /\ a.remaining = b.remaining
      /\ a.list = b.list /\ a.late = late /\ a.accepting = b.accepting /\ a \in Adaptor
  BY <1>5, <1>6, <1>7 DEF Adaptor
<1>9. /\ stage' = [stage EXCEPT ![s] = a] /\ onMerge' = [onMerge EXCEPT ![p] = b.next]
      /\ status[p] = "new" /\ UNCHANGED <<queue, running, needed, got, cut>>
      /\ stream' = [stream EXCEPT ![p] = "lost"]
      /\ status' = [status EXCEPT ![p] = IF Late(s) /\ ~stage[s].late THEN "sent" ELSE "release"]
  <2>1. JoinList(p, s, b.list) /\ Merged(p, s)
    BY <1>1, <1>2, <1>3
  <2>2. [stage EXCEPT ![s].list = b.list, ![s].late = @ \/ Late(s)] = [stage EXCEPT ![s] = a]
    <3>1. [stage[s] EXCEPT !.list = b.list, !.late = @ \/ Late(s)] = a
      BY <1>3, <1>4, <1>5, <1>6 DEF Adaptor
    <3> QED
      BY <3>1
  <2> QED
    BY <1>3, <2>1, <2>2 DEF JoinList, Merged, MergeRaces, Dispatching
<1>10. status' = [status EXCEPT ![p] = status'[p]] /\ status'[p] # "new"
  <2>1. PICK x : x \in {"sent", "release"} /\ status' = [status EXCEPT ![p] = x]
    BY <1>9
  <2>2. status'[p] = x
    BY <2>1 DEF Types
  <2> QED
    BY <2>1, <2>2
<1>11. \A q \in Packet : q # p => Same(q) /\ stream'[q] = stream[q]
  BY <1>9 DEF Types, Same
<1>12. SomeoneHurt'
  <2>1. stream'[p] = "lost"
    BY <1>9 DEF Types
  <2> QED
    BY <2>1 DEF SomeoneHurt, Hurt
<1>13. ASSUME NEW j \in DOMAIN a.list PROVE RiderOK(a.list[j], a, j)'
  <2>1. PICK q : q = b.list[j]
    OBVIOUS
  <2>2. q \in Packet /\ q # p /\ a.list[j] = q
    BY <1>6, <1>8, <2>1 DEF Has
  <2>3. RiderOK(q, b, j) /\ Same(q)
    BY <1>6, <1>8, <1>11, <2>1, <2>2 DEF AdaptorOK, RidersOK
  <2>4. (Erasing(a, j) <=> Erasing(b, j)) /\ (Yet(a, j) <=> Yet(b, j))
    BY <1>8 DEF Erasing, Yet, Place
  <2>5. RiderOK(q, a, j)
    BY <1>7, <1>8, <2>3, <2>4 DEF RiderOK
  <2>6. RiderOK(q, a, j)'
    BY <2>3, <2>5, RiderSame
  <2> QED
    BY <2>2, <2>6
<1>14. Shape(a)
  BY <1>6, <1>8 DEF Shape
<1>15. AdaptorOK(a)'
  BY <1>6, <1>8, <1>12, <1>13, <1>14 DEF AdaptorOK, CutOK, LateOK, RidersOK, Shape
<1>16. a.pc # "none" /\ Once(a.list) /\ \A q : Has(a.list, q) => Rides(q, s) \/ q = p
  BY <1>3, <1>6, <1>8 DEF Rides
<1> QED
  BY <1>6, <1>8, <1>9, <1>10, <1>11, <1>12, <1>15, <1>16, HostChanges

-----------------------------------------------------------------------------
(***************************************************************************)
(* A list begins to run.                                                   *)
(***************************************************************************)
LEMMA DequeueKeepsLists ==
    ASSUME Types, ListPart, Dequeue
    PROVE  /\ ListPart' /\ LateOnes' = LateOnes /\ stage' \in [Packet -> Adaptor]
           /\ Len(running') = Len(running) + 1 /\ running' \in Seq(Packet)
           /\ queue' \in Seq(PacketList) /\ Len(queue') = Len(queue) - 1 /\ Len(queue) \in Nat
<1>1. PICK l : l = Head(queue)
  OBVIOUS
<1>2. PICK s : s = Head(l)
  OBVIOUS
<1>3. PICK a : a = NewAdaptor(l)
  OBVIOUS
<1>4. /\ queue # <<>> /\ queue' = Tail(queue) /\ running' = Append(running, s)
      /\ stage' = [stage EXCEPT ![s] = a]
      /\ onMerge' = [p \in Packet |-> IF p \in ToSet(l) THEN Initial ELSE onMerge[p]]
      /\ UNCHANGED <<status, needed, stream, got, cut>>
  BY <1>1, <1>2, <1>3 DEF Dequeue, output
<1>5. /\ QueueInv' /\ \A q \in Packet : OnQueue(q)' <=> OnQueue(q) /\ ~Has(l, q)
      /\ l \in Seq(Packet) /\ l # <<>> /\ Once(l) /\ \A q : Has(l, q) => q \in Packet /\ OnQueue(q)
  <2>1. QueueInv
    BY DEF ListPart
  <2> QED
    BY <1>1, <1>4, <2>1, QueueShrinks
<1>6. s \in Packet /\ Has(l, s) /\ Len(l) \in Nat /\ DOMAIN l = 1 .. Len(l)
  <2>1. PICK m : m = Tail(l)
    OBVIOUS
  <2>2. Shifted(Packet, l, m)
    BY <1>5, <2>1, Rest
  <2> QED
    BY <1>2, <1>5, <2>2 DEF Shifted
<1>7. /\ a.pc = "process" /\ a.list = l /\ a.next = Initial /\ a.accepting = TRUE /\ a.late = FALSE
      /\ a.todo = 0 /\ a.remaining = FALSE /\ a \in Adaptor
  BY <1>3, <1>5 DEF NewAdaptor, Adaptor, PacketList, Initial
<1>8. stage'[s] = a /\ \A t \in Packet : t # s => stage'[t] = stage[t]
  BY <1>4, <1>6 DEF Types
<1>9. ~Busy(s) /\ ~Has(running, s)
  BY <1>5, <1>6 DEF ListPart, RunInv
<1>10. Extended(Packet, running, s, running')
  <2>1. PICK r : r = running'
    OBVIOUS
  <2>2. Extended(Packet, running, s, r)
    BY <1>4, <1>6, <2>1, Appended DEF Types
  <2> QED
    BY <2>1, <2>2
<1>11. /\ Once(running)' /\ Len(running') = Len(running) + 1
       /\ \A t : Has(running, t)' <=> Has(running, t) \/ t = s
  <2>1. Once(running)
    BY DEF ListPart, RunInv
  <2> QED
    BY <1>9, <1>10, <2>1 DEF Extended, Once, Has
<1>12. \A t \in Packet : Busy(t)' <=> Busy(t) \/ t = s
  BY <1>7, <1>8 DEF Busy
<1>13. \A q, t \in Packet : Rides(q, t)' <=> IF t = s THEN Has(l, q) ELSE Rides(q, t)
  <2>1. \A q \in Packet : Rides(q, s)' <=> Has(l, q)
    BY <1>7, <1>8 DEF Rides, Has
  <2>2. ASSUME NEW q \in Packet, NEW t \in Packet, t # s PROVE Rides(q, t)' <=> Rides(q, t)
    BY <1>8, <2>2 DEF Rides, Has
  <2> QED
    BY <2>1, <2>2
<1>14. \A q : q \in ToSet(l) <=> Has(l, q)
  BY <1>5, Elements DEF Counted
<1>15. \A q \in Packet : /\ ~Has(l, q) => Same(q) /\ stream'[q] = stream[q]
                         /\ Has(l, q) => onMerge'[q] = Initial
  BY <1>4, <1>14 DEF Same
<1>16. SomeoneHurt => SomeoneHurt'
  BY <1>4 DEF SomeoneHurt, Hurt
<1>17. ListInv'
  <2>1. \A t \in Packet : Once(stage[t].list)'
    <3>1. ASSUME NEW t \in Packet PROVE Once(stage'[t].list)
      <4>1. CASE t = s
        BY <1>5, <1>7, <1>8, <4>1
      <4>2. CASE t # s
        BY <1>8, <4>2 DEF ListPart, ListInv
      <4> QED
        BY <4>1, <4>2
    <3> QED
      BY <3>1 DEF Once
  <2>2. \A t, u, q \in Packet : Rides(q, t)' /\ Rides(q, u)' => t = u
    BY <1>5, <1>13 DEF ListPart, ListInv
  <2>3. \A t, q \in Packet : Rides(q, t)' => ~OnQueue(q)'
    BY <1>5, <1>13 DEF ListPart, ListInv
  <2> QED
    BY <2>1, <2>2, <2>3 DEF ListInv
<1>18. RunInv'
  <2>1. \A t \in Packet : Busy(t)' <=> Has(running, t)'
    BY <1>11, <1>12 DEF ListPart, RunInv
  <2>2. \A t \in Packet : ~Busy(t)' => stage'[t] = NoAdaptor
    BY <1>8, <1>12 DEF ListPart, RunInv
  <2>3. \A t \in Packet : Busy(t)' => ~OnQueue(t)'
    BY <1>5, <1>6, <1>12 DEF ListPart, RunInv
  <2>4. ASSUME NEW t \in Packet, NEW u \in Packet, Busy(t)', Rides(t, u)'
        PROVE  u = t /\ onMerge'[t] = Initial
    <3>1. CASE u = s
      <4>1. Has(l, t) /\ OnQueue(t)
        BY <1>5, <1>13, <2>4, <3>1
      <4>2. t = s
        BY <1>12, <2>4, <4>1 DEF ListPart, RunInv
      <4> QED
        BY <1>15, <3>1, <4>1, <4>2
    <3>2. CASE u # s
      <4>1. Rides(t, u)
        BY <1>13, <2>4, <3>2
      <4>2. ~OnQueue(t)
        BY <4>1 DEF ListPart, ListInv
      <4>3. Busy(t) /\ ~Has(l, t)
        BY <1>5, <1>6, <1>12, <2>4, <4>2
      <4> QED
        BY <1>15, <4>1, <4>3 DEF ListPart, RunInv, Same
    <3> QED
      BY <3>1, <3>2
  <2> QED
    BY <1>11, <2>1, <2>2, <2>3, <2>4 DEF RunInv
<1>19. NewInv'
  <2>1. ASSUME NEW q \in Packet, status'[q] = "new" PROVE Fresh(q)'
    <3>1. Fresh(q)
      BY <1>4, <2>1 DEF ListPart, NewInv
    <3>2. ~Has(l, q) /\ q # s
      BY <1>5, <1>6, <3>1 DEF Fresh
    <3>3. Same(q) /\ stream'[q] = stream[q] /\ ~OnQueue(q)' /\ ~Busy(q)'
      BY <1>5, <1>12, <1>15, <3>1, <3>2 DEF Fresh
    <3>4. \A t \in Packet : ~Rides(q, t)'
      BY <1>13, <3>1, <3>2 DEF Fresh
    <3> QED
      BY <3>1, <3>3, <3>4 DEF Fresh, Same
  <2> QED
    BY <2>1 DEF NewInv
<1>20. QueuedInv'
  <2>1. ASSUME NEW q \in Packet, OnQueue(q)' PROVE QueuedOK(q)'
    <3>1. QueuedOK(q) /\ Same(q)
      BY <1>5, <1>15, <2>1 DEF ListPart, QueuedInv
    <3> QED
      BY <3>1, QueuedSame
  <2> QED
    BY <2>1 DEF QueuedInv
<1>21. ASSUME NEW i \in DOMAIN l PROVE RiderOK(l[i], a, i)'
  <2>1. PICK q : q = l[i]
    OBVIOUS
  <2>2. q \in Packet /\ Has(l, q) /\ OnQueue(q)
    BY <1>5, <2>1 DEF Has
  <2>3. QueuedOK(q)
    BY <2>2 DEF ListPart, QueuedInv
  <2>4. ~Erasing(a, i) /\ ~Yet(a, i)
    BY <1>6, <1>7 DEF Erasing, Yet, Place
  <2>5. stream'[q] = "open" /\ q \notin cut' => Received(q, 1, 0)'
    BY <1>4, <2>3 DEF QueuedOK, Received, Earlier, Earliers
  <2>6. onMerge'[q] = 1 /\ a.next - 1 = 0 /\ a.next = 1
    BY <1>7, <1>15, <2>2 DEF Initial
  <2>7. stream'[q] = "open" /\ q \notin cut' => Received(q, onMerge[q], a.next - 1)'
    BY <2>5, <2>6 DEF Received, Earlier, Earliers
  <2>8. stream'[q] \in {"open", "terminated"}
    BY <1>4, <2>3 DEF QueuedOK
  <2>9. needed'[q] # Initial => a.next < needed'[q]
    <3>1. needed'[q] \in 1 .. Pages + 1
      BY <1>4, <2>2 DEF Types
    <3> QED
      BY <2>6, <3>1, ContainerAssumption DEF Initial, ContainerAssumption
  <2>10. onMerge'[q] \in 1 .. a.next /\ onMerge'[q] = Initial
    BY <2>6 DEF Initial
  <2>11. RiderOK(q, a, i)'
    BY <2>4, <2>7, <2>8, <2>9, <2>10 DEF RiderOK, Erasing, Yet, Place
  <2> QED
    BY <2>1, <2>11
<1>22. StageInv'
  <2>1. ASSUME NEW t \in Packet, Busy(t)', t # s PROVE AdaptorOK(stage[t])'
    <3>1. PICK b : b = stage[t]
      OBVIOUS
    <3>2. AdaptorOK(b) /\ stage'[t] = b
      BY <1>8, <1>12, <2>1, <3>1 DEF ListPart, StageInv
    <3>3. ASSUME NEW i \in DOMAIN b.list PROVE Same(b.list[i])
      <4>1. b.list[i] \in Packet /\ Rides(b.list[i], t)
        BY <3>1, RiderFacts
      <4>2. ~Has(l, b.list[i])
        BY <1>5, <4>1 DEF ListPart, ListInv
      <4> QED
        BY <1>15, <4>1, <4>2
    <3>4. AdaptorOK(b)'
      BY <1>16, <3>2, <3>3, AdaptorSame
    <3> QED
      BY <3>2, <3>4
  <2>2. AdaptorOK(a)'
    <3>1. Shape(a)
      <4>1. Initial \in 1 .. Pages + 1 /\ 0 \in 0 .. Len(l)
        BY <1>6, ContainerAssumption DEF Initial, ContainerAssumption
      <4> QED
        BY <1>5, <1>7, <4>1 DEF Shape
    <3> QED
      BY <1>7, <1>21, <3>1 DEF AdaptorOK, CutOK, LateOK, RidersOK, Shape
  <2>3. AdaptorOK(stage[s])'
    BY <1>8, <2>2
  <2> QED
    BY <2>1, <2>3 DEF StageInv
<1>23. LateOnes' = LateOnes
  <2>1. (\A t : t \in ToSet(running) <=> Has(running, t)) /\ ToSet(running) \subseteq Packet
    BY Elements DEF Types, Counted
  <2>2. \A t : t \in ToSet(running)' <=> Has(running, t)'
    <3>1. running' \in Seq(Packet)
      BY <1>10 DEF Extended
    <3>2. PICK r : r = running'
      OBVIOUS
    <3>3. \A t : t \in ToSet(r) <=> Has(r, t)
      BY <3>1, <3>2, Elements DEF Counted
    <3> QED
      BY <3>2, <3>3 DEF ToSet, Has
  <2>3. \A t : t \in ToSet(running)' <=> t \in ToSet(running) \/ t = s
    BY <1>11, <2>1, <2>2
  <2>4. ~stage'[s].late /\ s \notin ToSet(running)
    BY <1>7, <1>8, <1>9, <2>1
  <2>5. \A t \in ToSet(running) : stage'[t].late = stage[t].late
    BY <1>8, <2>1, <2>4
  <2> QED
    BY <2>3, <2>4, <2>5 DEF LateOnes
<1>24. stage' \in [Packet -> Adaptor]
  BY <1>4, <1>7 DEF Types
<1>25. queue' \in Seq(PacketList) /\ Len(queue') = Len(queue) - 1 /\ Len(queue) \in Nat
  <2>1. PICK r : r = queue'
    OBVIOUS
  <2>2. Shifted(PacketList, queue, r)
    BY <1>4, <2>1, Rest DEF Types
  <2> QED
    BY <2>1, <2>2 DEF Shifted
<1>26. running' \in Seq(Packet)
  BY <1>10 DEF Extended
<1> QED
  BY <1>5, <1>11, <1>17, <1>18, <1>19, <1>20, <1>22, <1>23, <1>24, <1>25, <1>26 DEF ListPart

-----------------------------------------------------------------------------
(***************************************************************************)
(* A list ends.                                                            *)
(***************************************************************************)
\* The adaptor is gone; of its list some packets go back to the queue.
LEMMA StageEnds ==
    ASSUME Types, ListPart, NEW s \in Packet, Busy(s), NEW R,
           stage' = [stage EXCEPT ![s] = NoAdaptor], running' = Only(running, Packet \ {s}),
           QueueInv', \A q \in Packet : OnQueue(q)' <=> OnQueue(q) \/ q \in R,
           \A q \in Packet : q \in R => Rides(q, s) /\ QueuedOK(q)',
           \A q \in Packet : ~Rides(q, s) => Same(q) /\ stream'[q] = stream[q],
           UNCHANGED status, SomeoneHurt => SomeoneHurt'
    PROVE  /\ ListPart' /\ LateOnes' = LateOnes \ {s} /\ Len(running') = Len(running) - 1
           /\ IsFiniteSet(ToSet(running)) /\ s \in ToSet(running) /\ running' \in Seq(Packet)
           /\ stage' \in [Packet -> Adaptor]
<1>1. stage'[s] = NoAdaptor /\ \A t \in Packet : t # s => stage'[t] = stage[t]
  BY DEF Types
<1>2. NoAdaptor.pc = "none" /\ NoAdaptor.list = <<>> /\ ~NoAdaptor.late
  BY DEF NoAdaptor, NewAdaptor
<1>3. \A t \in Packet : Busy(t)' <=> Busy(t) /\ t # s
  BY <1>1, <1>2 DEF Busy
<1>4. \A q, t \in Packet : Rides(q, t)' <=> Rides(q, t) /\ t # s
  <2>1. \A q \in Packet : ~Rides(q, s)'
    BY <1>1, <1>2 DEF Rides, Has
  <2>2. ASSUME NEW q \in Packet, NEW t \in Packet, t # s PROVE Rides(q, t)' <=> Rides(q, t)
    BY <1>1, <2>2 DEF Rides, Has
  <2> QED
    BY <2>1, <2>2
<1>5. PICK r : r = running'
  OBVIOUS
<1>6. Filtered(Packet, running, Packet \ {s}, r)
  <2>1. running \in Seq(Packet) /\ r = Only(running, Packet \ {s})
    BY <1>5 DEF Types
  <2> QED
    BY <2>1, Kept
<1>7. /\ Once(running) /\ Once(r) /\ r \in Seq(Packet)
      /\ \A t : Has(r, t) <=> Has(running, t) /\ t \in Packet \ {s}
  BY <1>6 DEF ListPart, RunInv, Filtered
<1>8. Counted(Packet, running) /\ Counted(Packet, r)
  BY <1>7, Elements DEF Types
<1>9. /\ \A t : t \in ToSet(running) <=> Has(running, t)
      /\ \A t : t \in ToSet(r) <=> Has(r, t)
      /\ ToSet(running) \subseteq Packet
      /\ IsFiniteSet(ToSet(running)) /\ Cardinality(ToSet(running)) = Len(running)
      /\ IsFiniteSet(ToSet(r)) /\ Cardinality(ToSet(r)) = Len(r)
  BY <1>7, <1>8 DEF Counted
<1>10. s \in ToSet(running)
  BY <1>9 DEF ListPart, RunInv
<1>11. ToSet(r) = ToSet(running) \ {s}
  BY <1>7, <1>9
<1>12. Len(r) = Len(running) - 1
  BY <1>9, <1>10, <1>11, FS_RemoveElement
<1>13. LateOnes' = LateOnes \ {s}
  <2>1. \A t \in ToSet(running) \ {s} : stage'[t].late = stage[t].late
    BY <1>1, <1>9
  <2>2. LateOnes' = {t \in ToSet(r) : stage'[t].late}
    BY <1>5 DEF LateOnes
  <2> QED
    BY <1>11, <2>1, <2>2 DEF LateOnes
<1>14. ListInv'
  <2>1. \A t \in Packet : Once(stage[t].list)'
    <3>1. ASSUME NEW t \in Packet PROVE Once(stage'[t].list)
      <4>1. CASE t = s
        BY <1>1, <1>2, <4>1 DEF Once
      <4>2. CASE t # s
        BY <1>1, <4>2 DEF ListPart, ListInv
      <4> QED
        BY <4>1, <4>2
    <3> QED
      BY <3>1 DEF Once
  <2>2. \A t, u, q \in Packet : Rides(q, t)' /\ Rides(q, u)' => t = u
    BY <1>4 DEF ListPart, ListInv
  <2>3. \A t, q \in Packet : Rides(q, t)' => ~OnQueue(q)'
    BY <1>4 DEF ListPart, ListInv
  <2> QED
    BY <2>1, <2>2, <2>3 DEF ListInv
<1>15. RunInv'
  <2>1. \A t \in Packet : Busy(t)' <=> Has(r, t)
    BY <1>3, <1>7 DEF ListPart, RunInv
  <2>2. \A t \in Packet : ~Busy(t)' => stage'[t] = NoAdaptor
    BY <1>1, <1>3 DEF ListPart, RunInv
  <2>3. \A t \in Packet : Busy(t)' => ~Rides(t, s)
    BY <1>3 DEF ListPart, RunInv
  <2>4. \A t \in Packet : Busy(t)' => ~OnQueue(t)'
    BY <1>3, <2>3 DEF ListPart, RunInv
  <2>5. \A t, u \in Packet : Busy(t)' /\ Rides(t, u)' => u = t /\ onMerge'[t] = Initial
    BY <1>3, <1>4, <2>3 DEF ListPart, RunInv, Same
  <2>6. Once(running)' /\ \A t \in Packet : Busy(t)' <=> Has(running, t)'
    <3>1. running' = r /\ Once(r)
      BY <1>5, <1>7
    <3> QED
      BY <2>1, <3>1 DEF Once, Has
  <2> QED
    BY <2>2, <2>4, <2>5, <2>6 DEF RunInv
<1>16. NewInv'
  <2>1. ASSUME NEW q \in Packet, status'[q] = "new" PROVE Fresh(q)'
    <3>1. Fresh(q)
      BY <2>1 DEF ListPart, NewInv
    <3>2. Same(q) /\ stream'[q] = stream[q] /\ ~OnQueue(q)'
      BY <3>1 DEF Fresh
    <3> QED
      BY <1>3, <1>4, <3>1, <3>2 DEF Fresh, Same
  <2> QED
    BY <2>1 DEF NewInv
<1>17. QueuedInv'
  <2>1. ASSUME NEW q \in Packet, OnQueue(q)', q \notin R PROVE QueuedOK(q)'
    <3>1. OnQueue(q)
      BY <2>1
    <3>2. QueuedOK(q) /\ Same(q)
      BY <3>1 DEF ListPart, QueuedInv, ListInv
    <3> QED
      BY <3>2, QueuedSame
  <2> QED
    BY <2>1 DEF QueuedInv
<1>18. StageInv'
  <2>1. ASSUME NEW t \in Packet, Busy(t)' PROVE AdaptorOK(stage[t])'
    <3>1. PICK b : b = stage[t]
      OBVIOUS
    <3>2. AdaptorOK(b) /\ stage'[t] = b /\ t # s
      BY <1>1, <1>3, <2>1, <3>1 DEF ListPart, StageInv
    <3>3. ASSUME NEW i \in DOMAIN b.list PROVE Same(b.list[i])
      <4>1. b.list[i] \in Packet /\ Rides(b.list[i], t)
        BY <3>1, RiderFacts
      <4>2. ~Rides(b.list[i], s)
        BY <3>2, <4>1 DEF ListPart, ListInv
      <4> QED
        BY <4>1, <4>2
    <3>4. AdaptorOK(b)'
      BY <3>2, <3>3, AdaptorSame
    <3> QED
      BY <3>2, <3>4
  <2> QED
    BY <2>1 DEF StageInv
<1>19. stage' \in [Packet -> Adaptor]
  <2>1. NoAdaptor \in Adaptor
    <3>1. <<>> \in Seq(Packet)
      OBVIOUS
    <3> QED
      BY <3>1 DEF NoAdaptor, NewAdaptor, Adaptor, PacketList, Initial
  <2> QED
    BY <2>1 DEF Types
<1> QED
  BY <1>5, <1>7, <1>9, <1>10, <1>12, <1>13, <1>14, <1>15, <1>16, <1>17, <1>18, <1>19 DEF ListPart

\* The packets are deleted, and their buffers terminated.
LEMMA AbortKeepsLists ==
    ASSUME Types, ListPart, NEW s \in Packet, Abort(s)
    PROVE  /\ ListPart' /\ LateOnes' = LateOnes \ {s} /\ Len(running') = Len(running) - 1
           /\ IsFiniteSet(ToSet(running)) /\ s \in ToSet(running) /\ running' \in Seq(Packet)
           /\ stage' \in [Packet -> Adaptor] /\ SomeoneHurt'
<1>1. PICK b : b = stage[s]
  OBVIOUS
<1>2. /\ b.pc = "abort" /\ stage' = [stage EXCEPT ![s] = NoAdaptor]
      /\ running' = Only(running, Packet \ {s})
      /\ stream' = [p \in Packet |-> IF p \in ToSet(b.list) /\ stream[p] = "open"
                                     THEN "aborted" ELSE stream[p]]
      /\ UNCHANGED <<queue, onMerge, needed, status, got, cut>>
  BY <1>1 DEF Abort, At, progress
<1>3. b \in Adaptor /\ AdaptorOK(b) /\ Busy(s)
  BY <1>1, <1>2, BusyFacts
<1>4. \A p : p \in ToSet(b.list) <=> Rides(p, s)
  BY <1>1, <1>3, AdaptorFacts, Elements DEF Counted, Rides
<1>5. \A q \in Packet : ~Rides(q, s) => Same(q) /\ stream'[q] = stream[q]
  BY <1>2, <1>4 DEF Same
<1>6. SomeoneHurt'
  <2>1. Shape(b) /\ b.list # <<>>
    BY <1>2, <1>3 DEF AdaptorOK, Shape
  <2>2. Len(b.list) \in Nat /\ Len(b.list) # 0 /\ DOMAIN b.list = 1 .. Len(b.list)
    BY <1>3, <2>1, AdaptorFacts, EmptySeq
  <2>3. 1 \in DOMAIN b.list
    BY <2>2
  <2>4. PICK p : p = b.list[1]
    OBVIOUS
  <2>5. p \in Packet /\ p \in ToSet(b.list)
    BY <1>1, <1>4, <2>3, <2>4, RiderFacts
  <2>6. stream[p] \in {"open", "terminated"}
    <3>1. RiderOK(p, b, 1)
      BY <1>3, <2>3, <2>4 DEF AdaptorOK, RidersOK
    <3>2. ~Erasing(b, 1)
      BY <1>2 DEF Erasing
    <3> QED
      BY <3>1, <3>2 DEF RiderOK
  <2>7. stream'[p] \in {"aborted", "terminated"}
    BY <1>2, <2>5, <2>6
  <2> QED
    BY <2>5, <2>7 DEF SomeoneHurt, Hurt
<1>7. PICK R : R = {}
  OBVIOUS
<1>8. QueueInv' /\ \A q \in Packet : OnQueue(q)' <=> OnQueue(q) \/ q \in R
  BY <1>2, <1>7 DEF ListPart, QueueInv, OnQueue
<1>9. \A q \in Packet : q \in R => Rides(q, s) /\ QueuedOK(q)'
  BY <1>7
<1>10. UNCHANGED status /\ (SomeoneHurt => SomeoneHurt')
  BY <1>2, <1>6
<1>11. /\ ListPart' /\ LateOnes' = LateOnes \ {s} /\ Len(running') = Len(running) - 1
       /\ IsFiniteSet(ToSet(running)) /\ s \in ToSet(running) /\ running' \in Seq(Packet)
       /\ stage' \in [Packet -> Adaptor]
  BY <1>2, <1>3, <1>5, <1>8, <1>9, <1>10, StageEnds
<1> QED
  BY <1>6, <1>11

\* A list that ended, and what became of the packets that want another run.
Cleaned(s) ==
    /\ ListPart' /\ LateOnes' = LateOnes \ {s} /\ Len(running') = Len(running) - 1
    /\ IsFiniteSet(ToSet(running)) /\ s \in ToSet(running) /\ running' \in Seq(Packet)
    /\ stage' \in [Packet -> Adaptor]
    /\ SomeoneHurt => SomeoneHurt'
    /\ queue' \in Seq(PacketList)
    /\ \/ Len(queue') = Len(queue) /\ (stage[s].late => SomeoneHurt)
       \/ Len(queue') = Len(queue) + 1 /\ stage[s].late
    /\ \A p \in Packet : needed'[p] \in 1 .. Pages + 1
    /\ WholeUnlessCut'

(***************************************************************************)
(* A packet that is finished was there from the first page to the last; a  *)
(* packet that is queued again has the pages from its merging to the last. *)
(***************************************************************************)
LEMMA CleanupKeepsLists ==
    ASSUME Types, ListPart, WholeUnlessCut, NEW s \in Packet, Cleanup(s)
    PROVE  Cleaned(s)
<1>1. PICK b : b = stage[s]
  OBVIOUS
<1>2. PICK u, again : u = Unfinished(s) /\ again = ToSet(u)
  OBVIOUS
<1>3. /\ b.pc = "cleanup" /\ stage' = [stage EXCEPT ![s] = NoAdaptor]
      /\ running' = Only(running, Packet \ {s})
      /\ UNCHANGED <<status, got, cut>>
  BY <1>1 DEF Cleanup, At
<1>4. /\ needed' = [p \in Packet |-> IF p \in again THEN onMerge[p] ELSE needed[p]]
      /\ onMerge' = [p \in Packet |-> IF p \in again THEN Uninitialized ELSE onMerge[p]]
      /\ queue' = IF again = {} THEN queue ELSE Append(queue, u)
      /\ stream' = [p \in Packet |-> IF p \in ToSet(b.list) \ again
                                     THEN Finished(stream[p]) ELSE stream[p]]
  BY <1>1, <1>2 DEF Cleanup, RunAgain
<1>5. b \in Adaptor /\ AdaptorOK(b) /\ Once(b.list) /\ Busy(s)
  BY <1>1, <1>3, BusyFacts
<1>6. /\ b.list \in Seq(Packet) /\ Len(b.list) \in Nat /\ DOMAIN b.list = 1 .. Len(b.list)
      /\ b.next \in Nat /\ b.next \in 1 .. Pages + 1 /\ Shape(b) /\ b.todo = 0
  BY <1>3, <1>5, AdaptorFacts DEF AdaptorOK, Shape
<1>7. \A p : p \in ToSet(b.list) <=> Rides(p, s)
  BY <1>1, <1>6, Elements DEF Counted, Rides
<1>8. Filtered(Packet, b.list, {p \in Packet : onMerge[p] # Initial}, u)
  BY <1>1, <1>2, <1>6, Kept DEF Unfinished
<1>9. /\ u \in Seq(Packet) /\ Once(u)
      /\ \A p : Has(u, p) <=> Rides(p, s) /\ p \in Packet /\ onMerge[p] # Initial
  BY <1>1, <1>5, <1>8 DEF Filtered, Rides
<1>10. (\A p : p \in again <=> Has(u, p)) /\ (u = <<>> <=> again = {})
  <2>1. Counted(Packet, u)
    BY <1>9, Elements
  <2> QED
    BY <1>2, <2>1 DEF Counted
<1>11. ASSUME NEW p \in Packet, Rides(p, s)
       PROVE  /\ onMerge[p] \in 1 .. b.next /\ (onMerge[p] # Initial => b.late /\ needed[p] = Initial)
              /\ needed[p] # Initial => b.next < needed[p]
              /\ stream[p] \in {"open", "terminated"}
              /\ p \notin cut => b.next = Pages + 1
              /\ stream[p] = "open" /\ p \notin cut => Received(p, onMerge[p], b.next - 1)
  <2>1. PICK i \in DOMAIN b.list : b.list[i] = p
    BY <1>1, <1>11 DEF Rides, Has
  <2>2. RiderOK(p, b, i)
    BY <1>5, <2>1 DEF AdaptorOK, RidersOK
  <2>3. ~Erasing(b, i) /\ ~Yet(b, i)
    BY <1>3, <1>6 DEF Erasing, Yet, Place
  <2>4. p \notin cut => b.next = Pages + 1
    BY <1>3, <1>5, <2>1 DEF AdaptorOK, CutOK
  <2> QED
    BY <2>2, <2>3, <2>4 DEF RiderOK
<1>12. \A p \in Packet : ~Rides(p, s) => Same(p) /\ stream'[p] = stream[p]
  BY <1>3, <1>4, <1>7, <1>9, <1>10 DEF Same
<1>13. SomeoneHurt => SomeoneHurt'
  <2>1. \A p \in Packet : Hurt(p) => Hurt(p)'
    BY <1>4 DEF Hurt, Finished
  <2> QED
    BY <2>1 DEF SomeoneHurt
<1>14. ASSUME NEW p \in Packet, p \in again PROVE Rides(p, s) /\ QueuedOK(p)'
  <2>1. Rides(p, s) /\ onMerge[p] # Initial
    BY <1>9, <1>10, <1>14
  <2>2. onMerge'[p] = Uninitialized /\ needed'[p] = onMerge[p] /\ stream'[p] = stream[p] /\ got'[p] = got[p]
    BY <1>3, <1>4, <1>14
  <2>3. stream[p] \in {"open", "terminated"} /\ needed[p] = Initial
    BY <1>11, <2>1
  <2>4. ASSUME stream[p] = "open", p \notin cut PROVE Received(p, 1, 0)'
    <3>1. PICK m : m = onMerge[p] /\ m \in Nat /\ m # Initial
      BY <1>11, <2>1
    <3>2. b.next - 1 = Pages /\ Received(p, m, b.next - 1)
      <4>1. b.next = Pages + 1 /\ Received(p, onMerge[p], b.next - 1)
        BY <1>11, <2>1, <2>4
      <4>2. b.next - 1 = Pages
        BY <1>6, <4>1, ContainerAssumption DEF ContainerAssumption
      <4> QED
        BY <3>1, <4>1, <4>2
    <3>3. Received(p, m, Pages)
      BY <3>2
    <3>4. ToSet(got[p]) = m .. Pages /\ Len(got[p]) = 0 + (Pages - m + 1)
      BY <2>3, <3>3 DEF Received, Earlier, Earliers
    <3>5. Earlier(p)' = m .. Pages /\ Earliers(p)' = Pages - m + 1
      BY <2>2, <3>1 DEF Earlier, Earliers
    <3>6. 1 .. 0 = {} /\ 0 - 1 + 1 = 0 /\ Pages - m + 1 \in Int
      BY <3>1, ContainerAssumption DEF ContainerAssumption
    <3>7. ToSet(got'[p]) = Earlier(p)' \cup (1 .. 0)
      BY <2>2, <3>4, <3>5, <3>6
    <3>8. Len(got'[p]) = Earliers(p)' + (0 - 1 + 1)
      BY <2>2, <3>4, <3>5, <3>6
    <3> QED
      BY <3>7, <3>8 DEF Received, Earlier, Earliers
  <2> QED
    BY <1>3, <2>1, <2>2, <2>3, <2>4 DEF QueuedOK
<1>15. /\ QueueInv' /\ \A q \in Packet : OnQueue(q)' <=> OnQueue(q) \/ q \in again
       /\ queue' \in Seq(PacketList)
       /\ Len(queue') = IF again = {} THEN Len(queue) ELSE Len(queue) + 1
  <2>1. CASE again = {}
    <3>1. queue' = queue
      BY <1>4, <2>1
    <3> QED
      BY <2>1, <3>1 DEF ListPart, QueueInv, OnQueue, Types
  <2>2. CASE again # {}
    <3>1. queue' = Append(queue, u) /\ u # <<>>
      BY <1>4, <1>10, <2>2
    <3>2. \A q : Has(u, q) => ~OnQueue(q)
      BY <1>9 DEF ListPart, ListInv
    <3>3. QueueInv
      BY DEF ListPart
    <3>4. QueueInv' /\ \A q : OnQueue(q)' <=> OnQueue(q) \/ Has(u, q)
      BY <1>9, <3>1, <3>2, <3>3, QueueGrows
    <3>5. queue' \in Seq(PacketList) /\ Len(queue') = Len(queue) + 1
      <4>1. queue \in Seq(PacketList) /\ u \in PacketList
        BY <1>9 DEF Types, PacketList
      <4> QED
        BY <3>1, <4>1, AppendProperties
    <3> QED
      BY <1>10, <2>2, <3>4, <3>5
  <2> QED
    BY <2>1, <2>2
<1>16. b.late => SomeoneHurt \/ again # {}
  <2>1. ASSUME b.late, ~SomeoneHurt PROVE again # {}
    <3>1. PICK i \in DOMAIN b.list : onMerge[b.list[i]] # Initial
      BY <1>5, <2>1 DEF AdaptorOK, LateOK
    <3>2. b.list[i] \in Packet /\ Rides(b.list[i], s)
      BY <1>1, <3>1, RiderFacts
    <3> QED
      BY <1>9, <1>10, <3>1, <3>2
  <2> QED
    BY <2>1
<1>17. again # {} => b.late
  BY <1>9, <1>10, <1>11
<1>18. ASSUME NEW p \in Packet PROVE needed'[p] \in 1 .. Pages + 1
  <2>1. CASE p \in again
    <3>1. onMerge[p] \in 1 .. b.next
      BY <1>9, <1>10, <1>11, <2>1
    <3>2. onMerge[p] \in 1 .. Pages + 1
      BY <1>6, <3>1, ContainerAssumption DEF ContainerAssumption
    <3> QED
      BY <1>4, <2>1, <3>2
  <2>2. CASE p \notin again
    BY <1>4, <2>2 DEF Types
  <2> QED
    BY <2>1, <2>2
<1>19. WholeUnlessCut'
  <2>1. ASSUME NEW p \in Packet, stream'[p] = "eof", p \notin cut'
        PROVE  \/ stream[p] = "eof" /\ p \notin cut /\ got'[p] = got[p]
               \/ EveryPageOnce(p)'
    <3>1. CASE Rides(p, s)
      <4>1. p \notin cut /\ got'[p] = got[p]
        BY <1>3, <2>1
      <4>2. stream[p] = "open" /\ p \notin again
        <5>1. stream[p] \in {"open", "terminated"}
          BY <1>11, <3>1
        <5> QED
          BY <1>4, <2>1, <5>1 DEF Finished
      <4>3. onMerge[p] = Initial
        BY <1>9, <1>10, <3>1, <4>2
      <4>4. b.next = Pages + 1 /\ Received(p, Initial, b.next - 1)
        BY <1>11, <3>1, <4>1, <4>2, <4>3
      <4>5. b.next - 1 = Pages
        BY <1>6, <4>4, ContainerAssumption DEF ContainerAssumption
      <4>6. needed[p] = Initial
        <5>1. needed[p] \in 1 .. Pages + 1
          BY DEF Types
        <5> QED
          BY <1>6, <1>11, <3>1, <4>4, <5>1, ContainerAssumption DEF ContainerAssumption
      <4>7. EveryPageOnce(p)
        <5>1. Initial \in Nat /\ Pages \in Int /\ Initial = 1
          BY ContainerAssumption DEF ContainerAssumption, Initial
        <5>2. Received(p, Initial, Pages)
          BY <4>4, <4>5
        <5> QED
          BY <4>6, <5>1, <5>2, ReceivedAll
      <4> QED
        BY <4>1, <4>7 DEF EveryPageOnce
    <3>2. CASE ~Rides(p, s)
      BY <1>3, <1>12, <2>1, <3>2
    <3> QED
      BY <3>1, <3>2
  <2> QED
    BY <2>1, WholeSame
<1>20. /\ ListPart' /\ LateOnes' = LateOnes \ {s} /\ Len(running') = Len(running) - 1
       /\ IsFiniteSet(ToSet(running)) /\ s \in ToSet(running) /\ running' \in Seq(Packet)
    /\ stage' \in [Packet -> Adaptor]
  <2>1. \A q \in Packet : q \in again => Rides(q, s) /\ QueuedOK(q)'
    BY <1>14
  <2>2. UNCHANGED status
    BY <1>3
  <2> QED
    BY <1>3, <1>5, <1>12, <1>13, <1>15, <2>1, <2>2, StageEnds
<1>21. \/ Len(queue') = Len(queue) /\ (stage[s].late => SomeoneHurt)
       \/ Len(queue') = Len(queue) + 1 /\ stage[s].late
  BY <1>1, <1>15, <1>16, <1>17
<1> QED
  BY <1>13, <1>15, <1>18, <1>19, <1>20, <1>21 DEF Cleaned

-----------------------------------------------------------------------------
(***************************************************************************)
(* The books.                                                              *)
(***************************************************************************)
\* What is added up are numbers.
LEMMA BookNumbers ==
    ASSUME Types, PoolInv, Books
    PROVE  /\ Cardinality(Unsent) \in Nat /\ Cardinality(LateOnes) \in Nat
           /\ Len(queue) \in Nat /\ Len(running) \in Nat
           /\ nonIdle \in Int /\ reserved \in Int /\ capacity \in Nat
<1>1. Cardinality(Unsent) \in Nat /\ Cardinality(LateOnes) \in Nat
  BY FS_CardinalityType DEF Books
<1>2. Len(queue) \in Nat /\ Len(running) \in Nat
  BY LenProperties DEF Types
<1> QED
  BY <1>1, <1>2 DEF Types, PoolInv

\* Nobody asks; a packet that is dispatched belongs to a query that was admitted.
LEMMA AskStays ==
    ASSUME AskInv, UNCHANGED <<asked, waiters>>,
           \A p \in Packet : status'[p] # "new" => status[p] # "new" \/ Dispatching(p)
    PROVE  AskInv' /\ AdmittedPackets' = AdmittedPackets
<1>1. \A q : Admitted(q)' <=> Admitted(q)
  BY DEF Admitted, Waiting
<1>2. AdmittedPackets' = AdmittedPackets
  BY <1>1 DEF AdmittedPackets
<1>3. ASSUME NEW p \in Packet, status'[p] # "new", NEW q \in Client, p \in PacketsOf[q]
      PROVE  Admitted(q)
  <2>1. CASE status[p] # "new"
    BY <1>3, <2>1 DEF AskInv
  <2>2. CASE Dispatching(p)
    <3>1. PICK r \in Client : p \in PacketsOf[r] /\ Admitted(r)
      BY <2>2 DEF Dispatching
    <3>2. r = q
      BY <1>3, <3>1, ContainerAssumption DEF ContainerAssumption
    <3> QED
      BY <3>1, <3>2
  <2> QED
    BY <1>3, <2>1, <2>2
<1>4. Once(waiters)' /\ Waiting' \subseteq asked'
  BY DEF AskInv, Once, Waiting
<1> QED
  BY <1>1, <1>2, <1>3, <1>4 DEF AskInv

\* A packet that is still to be sent is in the books.
LEMMA ToBeSent ==
    ASSUME Types, AskInv, NEW p \in Packet, Dispatching(p) \/ status[p] = "release"
    PROVE  p \in Unsent
<1>1. status[p] \in {"new", "release"}
  BY DEF Dispatching
<1>2. PICK q \in Client : p \in PacketsOf[q] /\ Admitted(q)
  <2>1. CASE Dispatching(p)
    BY <2>1 DEF Dispatching
  <2>2. CASE status[p] = "release"
    <3>1. PICK q \in Client : p \in PacketsOf[q]
      BY DEF Packet
    <3> QED
      BY <2>2, <3>1 DEF AskInv
  <2> QED
    BY <2>1, <2>2
<1>3. p \in AdmittedPackets
  BY <1>2 DEF AdmittedPackets
<1> QED
  BY <1>1, <1>3 DEF Unsent

\* A packet is sent, and one less is still to be sent.
LEMMA OneSent ==
    ASSUME Types, AskInv, Books, NEW p \in Packet, p \in Unsent,
           status' = [status EXCEPT ![p] = "sent"], AdmittedPackets' = AdmittedPackets
    PROVE  IsFiniteSet(Unsent)' /\ Cardinality(Unsent)' = Cardinality(Unsent) - 1
<1>1. Unsent' = Unsent \ {p}
  BY DEF Unsent, Types
<1>2. IsFiniteSet(Unsent)
  BY DEF Books
<1> QED
  BY <1>1, <1>2, FS_RemoveElement

\* A packet that is merged is still to be released.
LEMMA NoneSent ==
    ASSUME Types, NEW p \in Packet, p \in Unsent,
           status' = [status EXCEPT ![p] = "release"], AdmittedPackets' = AdmittedPackets
    PROVE  Unsent' = Unsent
BY DEF Unsent, Types

\* A query is admitted with a reservation for each of its packets.
LEMMA QueryAdmitted ==
    ASSUME Types, AskInv, Books, NEW q \in Client, ~Admitted(q),
           \A r \in Client : Admitted(r)' <=> Admitted(r) \/ r = q, UNCHANGED status
    PROVE  IsFiniteSet(Unsent)' /\ Cardinality(Unsent)' = Cardinality(Unsent) + Need[q]
<1>1. \A p \in PacketsOf[q] : p \in Packet /\ status[p] = "new"
  <2>1. ASSUME NEW p \in PacketsOf[q] PROVE p \in Packet /\ status[p] = "new"
    <3>1. p \in Packet
      BY DEF Packet
    <3> QED
      BY <3>1 DEF AskInv
  <2> QED
    BY <2>1
<1>2. AdmittedPackets' = AdmittedPackets \cup PacketsOf[q]
  <2>1. \A p : p \in AdmittedPackets' <=> \E r \in Client : Admitted(r)' /\ p \in PacketsOf[r]
    BY DEF AdmittedPackets
  <2>2. \A p : p \in AdmittedPackets <=> \E r \in Client : Admitted(r) /\ p \in PacketsOf[r]
    BY DEF AdmittedPackets
  <2>3. \A p : (\E r \in Client : Admitted(r)' /\ p \in PacketsOf[r])
               <=> (\E r \in Client : Admitted(r) /\ p \in PacketsOf[r]) \/ p \in PacketsOf[q]
    OBVIOUS
  <2> QED
    BY <2>1, <2>2, <2>3
<1>3. Unsent' = Unsent \cup PacketsOf[q]
  BY <1>1, <1>2 DEF Unsent
<1>4. Unsent \cap PacketsOf[q] = {}
  <2>1. ASSUME NEW p \in Unsent, p \in PacketsOf[q] PROVE FALSE
    <3>1. PICK r \in Client : Admitted(r) /\ p \in PacketsOf[r]
      BY <2>1 DEF Unsent, AdmittedPackets
    <3>2. r # q
      BY <3>1
    <3> QED
      BY <2>1, <3>1, <3>2, ContainerAssumption DEF ContainerAssumption
  <2> QED
    BY <2>1
<1>5. IsFiniteSet(Unsent) /\ IsFiniteSet(PacketsOf[q]) /\ Need[q] = Cardinality(PacketsOf[q])
  BY ContainerAssumption DEF Books, ContainerAssumption
<1>6. /\ IsFiniteSet(Unsent \cup PacketsOf[q])
      /\ Cardinality(Unsent \cup PacketsOf[q]) =
             Cardinality(Unsent) + Cardinality(PacketsOf[q]) - Cardinality(Unsent \cap PacketsOf[q])
  BY <1>5, FS_Union
<1>7. Cardinality(Unsent \cap PacketsOf[q]) = 0
  BY <1>4, FS_EmptySet
<1>8. Cardinality(Unsent) \in Nat /\ Need[q] \in Nat
  BY <1>5, FS_CardinalityType
<1> QED
  BY <1>3, <1>5, <1>6, <1>7, <1>8

-----------------------------------------------------------------------------
(***************************************************************************)
(* Every step keeps the invariant.                                         *)
(***************************************************************************)
\* A step about reservations only.
LEMMA ListsUntouched ==
    ASSUME Types, ListPart, WholeUnlessCut,
           UNCHANGED <<queue, running, stage, onMerge, needed, stream, got, cut>>,
           \A p \in Packet : status'[p] = "new" => status[p] = "new"
    PROVE  /\ ListPart' /\ LateOnes' = LateOnes /\ WholeUnlessCut'
           /\ SomeoneHurt => SomeoneHurt'
<1>1. \A p \in Packet : Same(p)
  BY DEF Same
<1>2. \A p \in Packet : status'[p] = "new" => status[p] = "new" /\ stream'[p] = stream[p]
  OBVIOUS
<1>3. SomeoneHurt => SomeoneHurt'
  BY DEF SomeoneHurt, Hurt
<1>4. ListPart' /\ LateOnes' = LateOnes
  BY <1>1, <1>2, <1>3, ListsStay
<1>5. WholeUnlessCut'
  BY WholeSame
<1> QED
  BY <1>3, <1>4, <1>5

\* A step that reserves, releases, sends and takes nothing.
LEMMA BooksStay ==
    ASSUME AskInv, Books, LateOnes' = LateOnes, SomeoneHurt => SomeoneHurt',
           UNCHANGED <<capacity, reserved, nonIdle, waiters, asked, status, queue, running>>
    PROVE  AskInv' /\ Books'
<1>1. AskInv' /\ AdmittedPackets' = AdmittedPackets
  BY AskStays
<1>2. Unsent' = Unsent
  BY <1>1 DEF Unsent
<1>3. Accounted' = Accounted
  BY <1>2 DEF Accounted
<1>4. Books'
  BY <1>2, <1>3 DEF Books
<1> QED
  BY <1>1, <1>4

\* acquire_resources(), with or without waiting.
LEMMA ReserveKeeps ==
    ASSUME ContainerInv, PoolInv', NEW q \in Client, Reserve(q)
    PROVE  ContainerInv'
<1>1. Types /\ ListPart /\ AskInv /\ Books /\ WholeUnlessCut /\ PoolInv
  BY DEF ContainerInv
<1>2. /\ UNCHANGED <<status, queue, running, stage, onMerge, needed, stream, got, cut, crashed, nonIdle>>
      /\ asked' = asked \cup {q} /\ q \notin asked /\ capacity' = Grown(q)
  BY DEF Reserve, PoolReserve, lists, progress, output
<1>3. Types'
  BY <1>1, <1>2 DEF Types
<1>4. ListPart' /\ LateOnes' = LateOnes /\ WholeUnlessCut' /\ (SomeoneHurt => SomeoneHurt')
  BY <1>1, <1>2, ListsUntouched
<1>5. /\ Cardinality(Unsent) \in Nat /\ Cardinality(LateOnes) \in Nat
      /\ Len(queue) \in Nat /\ Len(running) \in Nat
      /\ nonIdle \in Int /\ reserved \in Int /\ capacity \in Nat
  BY <1>1, BookNumbers
<1>6. Need[q] \in Nat /\ MaxThreads \in Nat /\ capacity <= MaxThreads
  BY <1>1, NeedAssumption, ContainerAssumption DEF NeedAssumption, ContainerAssumption, PoolInv
<1>7. capacity <= Grown(q) /\ Grown(q) \in Nat
  <2>1. PICK c, r, n, x : c = capacity /\ r = reserved /\ n = Need[q] /\ x = MaxThreads
    OBVIOUS
  <2>2. c \in Nat /\ r \in Int /\ n \in Nat /\ x \in Nat /\ c <= x
    BY <1>5, <1>6, <2>1
  <2> QED
    BY <1>1, <2>1, <2>2 DEF Grown, Unreserved, PoolInv
<1>8. waiters \in Seq(Client) /\ Once(waiters) /\ Waiting \subseteq asked
  BY <1>1 DEF PoolInv, AskInv
<1>9. q \notin Waiting /\ ~Admitted(q)
  BY <1>2, <1>8 DEF Admitted
<1>10. CASE waiters = <<>> /\ Need[q] <= Grown(q) - reserved
  <2>1. reserved' = reserved + Need[q] /\ waiters' = waiters
    BY <1>10 DEF Reserve, PoolReserve
  <2>2. \A r \in Client : Admitted(r)' <=> Admitted(r) \/ r = q
    BY <1>2, <1>9, <2>1 DEF Admitted, Waiting
  <2>3. IsFiniteSet(Unsent)' /\ Cardinality(Unsent)' = Cardinality(Unsent) + Need[q]
    BY <1>1, <1>2, <1>9, <2>2, QueryAdmitted
  <2>4. AskInv'
    BY <1>1, <1>2, <2>1, <2>2 DEF AskInv, Once, Waiting
  <2>5. Accounted' = Accounted + Need[q]
    BY <1>2, <1>4, <1>5, <1>6, <2>3 DEF Accounted
  <2>6. reserved' <= capacity'
    BY <1>2, <1>5, <1>6, <1>7, <1>10, <2>1
  <2>7. Accounted \in Int
    BY <1>5 DEF Accounted
  <2>8. Books'
    <3>1. Accounted <= reserved => Accounted' <= reserved'
      BY <1>5, <1>6, <2>1, <2>5, <2>7
    <3>2. Accounted = reserved => Accounted' = reserved'
      BY <2>1, <2>5
    <3> QED
      BY <1>1, <1>2, <1>4, <2>3, <2>6, <3>1, <3>2 DEF Books
  <2> QED
    BY <1>3, <1>4, <2>4, <2>8 DEF ContainerInv
<1>11. CASE ~(waiters = <<>> /\ Need[q] <= Grown(q) - reserved)
  <2>1. PICK w : w = waiters'
    OBVIOUS
  <2>2. w = Append(waiters, q) /\ reserved' = reserved
    BY <1>11, <2>1 DEF Reserve, PoolReserve
  <2>3. Extended(Client, waiters, q, w)
    BY <1>8, <2>2, Appended
  <2>4. \A r : r \in Waiting <=> Has(waiters, r)
    BY DEF Waiting, Has
  <2>5. \A r : r \in Waiting' <=> Has(w, r)
    BY <2>1 DEF Waiting, Has
  <2>6. Once(w) /\ \A r : Has(w, r) <=> Has(waiters, r) \/ r = q
    BY <1>8, <1>9, <2>3, <2>4 DEF Extended
  <2>7. \A r \in Client : Admitted(r)' <=> Admitted(r)
    BY <1>2, <1>9, <2>4, <2>5, <2>6 DEF Admitted
  <2>8. AskInv'
    <3>1. Once(waiters)'
      BY <2>1, <2>6 DEF Once
    <3>2. Waiting' \subseteq asked'
      BY <1>2, <1>8, <2>4, <2>5, <2>6
    <3> QED
      BY <1>1, <1>2, <2>7, <3>1, <3>2 DEF AskInv
  <2>9. AdmittedPackets' = AdmittedPackets
    BY <2>7 DEF AdmittedPackets
  <2>10. Unsent' = Unsent
    BY <1>2, <2>9 DEF Unsent
  <2>11. Accounted' = Accounted
    BY <1>2, <1>4, <2>10 DEF Accounted
  <2>12. reserved' <= capacity'
    BY <1>1, <1>2, <1>5, <1>7, <2>2 DEF Books
  <2>13. Books'
    BY <1>1, <1>2, <1>4, <2>2, <2>10, <2>11, <2>12 DEF Books
  <2> QED
    BY <1>3, <1>4, <2>8, <2>13 DEF ContainerInv
<1> QED
  BY <1>10, <1>11

\* A turn of waiter_wake(), and its end.
LEMMA WakeKeeps ==
    ASSUME ContainerInv, PoolInv', Wake
    PROVE  ContainerInv'
<1>1. Types /\ ListPart /\ AskInv /\ Books /\ WholeUnlessCut /\ PoolInv
  BY DEF ContainerInv
<1>2. UNCHANGED <<asked, status, queue, running, stage, onMerge, needed, stream, got, cut, crashed,
                  nonIdle, capacity>>
  BY DEF Wake, WakeOne, WakeDone, lists, progress, output
<1>3. Types'
  BY <1>1, <1>2 DEF Types
<1>4. ListPart' /\ LateOnes' = LateOnes /\ WholeUnlessCut' /\ (SomeoneHurt => SomeoneHurt')
  BY <1>1, <1>2, ListsUntouched
<1>5. CASE WakeDone
  <2>1. UNCHANGED <<reserved, waiters>>
    BY <1>5 DEF WakeDone
  <2>2. AskInv' /\ Books'
    BY <1>1, <1>2, <1>4, <2>1, BooksStay
  <2> QED
    BY <1>3, <1>4, <2>2 DEF ContainerInv
<1>6. CASE WakeOne
  <2>1. PICK q, w : q = Head(waiters) /\ w = waiters'
    OBVIOUS
  <2>2. /\ waiters # <<>> /\ w = Tail(waiters)
        /\ reserved' = reserved + Need[q] /\ Need[q] <= capacity - reserved
    BY <1>6, <2>1 DEF WakeOne, HeadFits, Unreserved
  <2>3. waiters \in Seq(Client) /\ Once(waiters) /\ Waiting \subseteq asked
    BY <1>1 DEF PoolInv, AskInv
  <2>4. Shifted(Client, waiters, w)
    BY <2>2, <2>3, Rest
  <2>5. q \in Client /\ Once(w) /\ ~Has(w, q) /\ \A r : Has(waiters, r) <=> r = q \/ Has(w, r)
    BY <2>1, <2>3, <2>4 DEF Shifted
  <2>6. \A r : r \in Waiting <=> Has(waiters, r)
    BY DEF Waiting, Has
  <2>7. \A r : r \in Waiting' <=> Has(w, r)
    BY <2>1 DEF Waiting, Has
  <2>8. \A r \in Client : Admitted(r)' <=> Admitted(r) \/ r = q
    BY <1>2, <2>3, <2>5, <2>6, <2>7 DEF Admitted
  <2>9. ~Admitted(q)
    BY <2>5, <2>6 DEF Admitted
  <2>10. IsFiniteSet(Unsent)' /\ Cardinality(Unsent)' = Cardinality(Unsent) + Need[q]
    BY <1>1, <1>2, <2>5, <2>8, <2>9, QueryAdmitted
  <2>11. AskInv'
    <3>1. Once(waiters)'
      BY <2>1, <2>5 DEF Once
    <3>2. Waiting' \subseteq asked'
      BY <1>2, <2>3, <2>5, <2>6, <2>7
    <3> QED
      BY <1>1, <1>2, <2>8, <3>1, <3>2 DEF AskInv
  <2>12. /\ Cardinality(Unsent) \in Nat /\ Cardinality(LateOnes) \in Nat
         /\ Len(queue) \in Nat /\ Len(running) \in Nat
         /\ nonIdle \in Int /\ reserved \in Int /\ capacity \in Nat
    BY <1>1, BookNumbers
  <2>13. Need[q] \in Nat
    BY <2>5, NeedAssumption DEF NeedAssumption
  <2>14. Accounted' = Accounted + Need[q] /\ Accounted \in Int
    <3>1. Accounted' = (Cardinality(Unsent) + Need[q]) + Len(queue) + nonIdle + Cardinality(LateOnes)
      BY <1>2, <1>4, <2>10 DEF Accounted
    <3>2. PICK u, l, i, o, n : /\ u = Cardinality(Unsent) /\ l = Len(queue) /\ i = nonIdle
                               /\ o = Cardinality(LateOnes) /\ n = Need[q]
      OBVIOUS
    <3>3. u \in Nat /\ l \in Nat /\ i \in Int /\ o \in Nat /\ n \in Nat
      BY <2>12, <2>13, <3>2
    <3>4. Accounted' = (u + n) + l + i + o /\ Accounted = u + l + i + o
      BY <3>1, <3>2 DEF Accounted
    <3>5. (u + n) + l + i + o = (u + l + i + o) + n /\ u + l + i + o \in Int
      BY <3>3
    <3> QED
      BY <3>2, <3>4, <3>5, Zenon
  <2>15. reserved' <= capacity'
    BY <1>2, <2>2, <2>12, <2>13
  <2>16. Books'
    <3>1. Accounted <= reserved => Accounted' <= reserved'
      BY <2>2, <2>12, <2>13, <2>14
    <3>2. Accounted = reserved => Accounted' = reserved'
      BY <2>2, <2>14
    <3> QED
      BY <1>1, <1>2, <1>4, <2>10, <2>15, <3>1, <3>2 DEF Books
  <2> QED
    BY <1>3, <1>4, <2>11, <2>16 DEF ContainerInv
<1> QED
  BY <1>5, <1>6 DEF Wake

\* The reservation of a merged packet is given back.
LEMMA ReleaseKeeps ==
    ASSUME ContainerInv, PoolInv', NEW p \in Packet, Release(p)
    PROVE  ContainerInv'
<1>1. Types /\ ListPart /\ AskInv /\ Books /\ WholeUnlessCut /\ PoolInv
  BY DEF ContainerInv
<1>2. /\ UNCHANGED <<asked, waiters, queue, running, stage, onMerge, needed, stream, got, cut, crashed,
                     nonIdle, capacity>>
      /\ status[p] = "release" /\ status' = [status EXCEPT ![p] = "sent"] /\ reserved' = reserved - 1
  BY DEF Release, PoolUnreserve, lists, progress, output
<1>3. Types'
  BY <1>1, <1>2 DEF Types
<1>4. \A r \in Packet : /\ status'[r] = "new" => status[r] = "new"
                        /\ status'[r] # "new" => status[r] # "new"
  BY <1>1, <1>2 DEF Types
<1>5. ListPart' /\ LateOnes' = LateOnes /\ WholeUnlessCut' /\ (SomeoneHurt => SomeoneHurt')
  BY <1>1, <1>2, <1>4, ListsUntouched
<1>6. AskInv' /\ AdmittedPackets' = AdmittedPackets
  BY <1>1, <1>2, <1>4, AskStays
<1>7. p \in Unsent
  BY <1>1, <1>2, ToBeSent
<1>8. IsFiniteSet(Unsent)' /\ Cardinality(Unsent)' = Cardinality(Unsent) - 1
  BY <1>1, <1>2, <1>6, <1>7, OneSent
<1>9. /\ Cardinality(Unsent) \in Nat /\ Cardinality(LateOnes) \in Nat
      /\ Len(queue) \in Nat /\ Len(running) \in Nat
      /\ nonIdle \in Int /\ reserved \in Int /\ capacity \in Nat
  BY <1>1, BookNumbers
<1>10. Accounted' = Accounted - 1 /\ Accounted \in Int
  <2>1. PICK u, l, i, o : /\ u = Cardinality(Unsent) /\ l = Len(queue) /\ i = nonIdle
                          /\ o = Cardinality(LateOnes)
    OBVIOUS
  <2>2. u \in Nat /\ l \in Nat /\ i \in Int /\ o \in Nat
    BY <1>9, <2>1
  <2>3. (u - 1) + l + i + o = (u + l + i + o) - 1 /\ u + l + i + o \in Int
    BY <2>2
  <2>4. Accounted' = (u - 1) + l + i + o /\ Accounted = u + l + i + o
    BY <1>2, <1>5, <1>8, <2>1 DEF Accounted
  <2> QED
    BY <2>3, <2>4, Zenon
<1>11. Books'
  <2>1. /\ Accounted <= reserved => Accounted' <= reserved'
        /\ Accounted = reserved => Accounted' = reserved'
        /\ reserved <= capacity => reserved' <= capacity'
    BY <1>2, <1>9, <1>10
  <2> QED
    BY <1>1, <1>2, <1>5, <1>8, <2>1 DEF Books
<1> QED
  BY <1>3, <1>5, <1>6, <1>11 DEF ContainerInv

\* A packet goes to the queue, alone or with others.
LEMMA QueueingKeeps ==
    ASSUME ContainerInv, PoolInv', NEW p \in Packet, EnqueueAlone(p) \/ MergeQueued(p)
    PROVE  ContainerInv'
<1>1. Types /\ ListPart /\ AskInv /\ Books /\ WholeUnlessCut /\ PoolInv
  BY DEF ContainerInv
<1>2. /\ UNCHANGED <<asked, waiters, running, stage, onMerge, needed, stream, got, cut, crashed,
                     nonIdle, capacity, reserved>>
      /\ Dispatching(p) /\ status[p] = "new"
  BY DEF EnqueueAlone, MergeQueued, Dispatching, pool, progress, output
<1>3. ListPart' /\ LateOnes' = LateOnes
  BY <1>1, EnqueueKeepsLists, MergeQueuedKeepsLists
<1>4. WholeUnlessCut' /\ (SomeoneHurt => SomeoneHurt')
  <2>1. SomeoneHurt => SomeoneHurt'
    BY <1>2 DEF SomeoneHurt, Hurt
  <2> QED
    BY <1>1, <1>2, <2>1, WholeSame
<1>5. PICK x : x \in {"sent", "release"} /\ status' = [status EXCEPT ![p] = x]
  BY DEF EnqueueAlone, MergeQueued
<1>6. \A r \in Packet : status'[r] # "new" => status[r] # "new" \/ Dispatching(r)
  BY <1>1, <1>2, <1>5 DEF Types
<1>7. AskInv' /\ AdmittedPackets' = AdmittedPackets
  BY <1>1, <1>2, <1>6, AskStays
<1>8. p \in Unsent
  BY <1>1, <1>2, ToBeSent
<1>9. /\ Cardinality(Unsent) \in Nat /\ Cardinality(LateOnes) \in Nat
      /\ Len(queue) \in Nat /\ Len(running) \in Nat
      /\ nonIdle \in Int /\ reserved \in Int /\ capacity \in Nat
  BY <1>1, BookNumbers
<1>10. CASE EnqueueAlone(p)
  <2>1. PICK l : l = <<p>>
    OBVIOUS
  <2>2. queue' = Append(queue, l) /\ status' = [status EXCEPT ![p] = "sent"]
    BY <1>10, <2>1 DEF EnqueueAlone
  <2>3. queue' \in Seq(PacketList) /\ Len(queue') = Len(queue) + 1
    <3>1. queue \in Seq(PacketList) /\ l \in PacketList
      BY <1>1, <2>1, Alone DEF Types, PacketList
    <3> QED
      BY <2>2, <3>1, AppendProperties
  <2>4. Types'
    BY <1>1, <1>2, <2>2, <2>3 DEF Types
  <2>5. IsFiniteSet(Unsent)' /\ Cardinality(Unsent)' = Cardinality(Unsent) - 1
    BY <1>1, <1>7, <1>8, <2>2, OneSent
  <2>6. Accounted' = Accounted
    <3>1. Accounted' = (Cardinality(Unsent) - 1) + (Len(queue) + 1) + nonIdle + Cardinality(LateOnes)
      BY <1>2, <1>3, <2>3, <2>5 DEF Accounted
    <3> QED
      BY <1>9, <3>1 DEF Accounted
  <2>7. Books'
    BY <1>1, <1>2, <1>3, <1>4, <2>5, <2>6 DEF Books
  <2> QED
    BY <1>3, <1>4, <1>7, <2>4, <2>7 DEF ContainerInv
<1>11. CASE MergeQueued(p)
  <2>1. status' = [status EXCEPT ![p] = "release"]
    BY <1>11 DEF MergeQueued
  <2>2. PICK i \in DOMAIN queue : queue' = [queue EXCEPT ![i] = Append(queue[i], p)]
    BY <1>11 DEF MergeQueued
  <2>3. queue' \in Seq(PacketList) /\ Len(queue') = Len(queue)
    <3>1. PICK l : l = Append(queue[i], p)
      OBVIOUS
    <3>2. queue[i] \in Seq(Packet) /\ queue \in Seq(PacketList)
      BY <1>1, QueueFacts
    <3>3. l \in PacketList
      BY <3>1, <3>2, AppendProperties DEF PacketList
    <3> QED
      BY <2>2, <3>1, <3>2, <3>3, ExceptSeq
  <2>4. Types'
    BY <1>1, <1>2, <2>1, <2>3 DEF Types
  <2>5. Unsent' = Unsent
    BY <1>1, <1>7, <1>8, <2>1, NoneSent
  <2>6. Accounted' = Accounted
    BY <1>2, <1>3, <2>3, <2>5 DEF Accounted
  <2>7. Books'
    BY <1>1, <1>2, <1>3, <1>4, <2>5, <2>6 DEF Books
  <2> QED
    BY <1>3, <1>4, <1>7, <2>4, <2>7 DEF ContainerInv
<1> QED
  BY <1>10, <1>11

\* A packet joins a running stage.  The first that comes too late for a page
\* leaves its reservation to the second run.
LEMMA MergingKeeps ==
    ASSUME ContainerInv, PoolInv', NEW p \in Packet, Merge(p) \/ MergeRaces(p)
    PROVE  ContainerInv'
<1>1. Types /\ ListPart /\ AskInv /\ Books /\ WholeUnlessCut /\ PoolInv
  BY DEF ContainerInv
<1>2. /\ UNCHANGED <<asked, waiters, queue, running, needed, got, cut, nonIdle, capacity, reserved>>
      /\ Dispatching(p) /\ status[p] = "new"
  BY DEF Merge, MergeRaces, Dispatching, pool, output
<1>3. ListPart' /\ stage' \in [Packet -> Adaptor]
  BY <1>1, MergeKeepsLists, MergeRacesKeepsLists
<1>4. PICK i \in DOMAIN running :
        /\ FirstHost(p, i) /\ Merged(p, running[i])
        /\ \E list : JoinList(p, running[i], list)
  BY DEF Merge, MergeRaces
<1>5. PICK s : s = running[i]
  OBVIOUS
<1>6. PICK list : JoinList(p, s, list)
  BY <1>4, <1>5
<1>7. s \in Packet /\ s \in ToSet(running) /\ stage[s] \in Adaptor /\ stage[s].next \in Nat
      /\ stage[s].late \in BOOLEAN
  <2>1. PICK b : b = stage[s]
    OBVIOUS
  <2>2. Hosting(p, s, b)
    BY <1>1, <1>2, <1>4, <1>5, <2>1, HostFacts
  <2>3. s \in Packet /\ b \in Adaptor /\ b.next \in Nat
    BY <2>2 DEF Hosting
  <2>4. s \in ToSet(running)
    BY <1>5 DEF ToSet
  <2> QED
    BY <2>1, <2>3, <2>4, AdaptorFacts
<1>8. /\ stage'[s].late = (stage[s].late \/ Late(s))
      /\ \A t \in Packet : t # s => stage'[t].late = stage[t].late
  BY <1>1, <1>6, <1>7 DEF JoinList, Types, Adaptor
<1>9. ToSet(running) \subseteq Packet
  BY <1>1, Elements DEF Types, Counted
<1>10. PICK x : x \in {"sent", "release"} /\ status' = [status EXCEPT ![p] = x]
                /\ (x = "sent" <=> Late(s) /\ ~stage[s].late)
  <2>1. PICK x : x = IF Late(s) /\ ~stage[s].late THEN "sent" ELSE "release"
    OBVIOUS
  <2>2. status' = [status EXCEPT ![p] = x]
    BY <1>4, <1>5, <2>1 DEF Merged
  <2>3. x \in {"sent", "release"} /\ (x = "sent" <=> Late(s) /\ ~stage[s].late)
    BY <2>1
  <2> QED
    BY <2>2, <2>3
<1>11. onMerge' \in [Packet -> Nat]
  BY <1>1, <1>4, <1>5, <1>7 DEF Merged, Types
<1>12. stream' = stream \/ stream' = [stream EXCEPT ![p] = "lost"]
  BY DEF Merge, MergeRaces, output
<1>13. Types'
  <2>1. crashed' \in BOOLEAN
    BY <1>1 DEF Merge, MergeRaces, Types
  <2> QED
    BY <1>1, <1>2, <1>3, <1>10, <1>11, <1>12, <2>1 DEF Types
<1>14. SomeoneHurt => SomeoneHurt'
  <2>1. \A r \in Packet : Hurt(r) => Hurt(r)'
    BY <1>1, <1>12 DEF Hurt, Types
  <2> QED
    BY <2>1 DEF SomeoneHurt
<1>15. WholeUnlessCut'
  <2>1. \A r \in Packet : stream'[r] = "eof" => stream[r] = "eof"
    BY <1>1, <1>12 DEF Types
  <2> QED
    BY <1>1, <1>2, <2>1, WholeSame
<1>16. \A r \in Packet : status'[r] # "new" => status[r] # "new" \/ Dispatching(r)
  BY <1>1, <1>2, <1>10 DEF Types
<1>17. AskInv' /\ AdmittedPackets' = AdmittedPackets
  BY <1>1, <1>2, <1>16, AskStays
<1>18. p \in Unsent
  BY <1>1, <1>2, ToBeSent
<1>19. /\ Cardinality(Unsent) \in Nat /\ Cardinality(LateOnes) \in Nat
       /\ Len(queue) \in Nat /\ Len(running) \in Nat
       /\ nonIdle \in Int /\ reserved \in Int /\ capacity \in Nat
  BY <1>1, BookNumbers
<1>20. IsFiniteSet(Unsent)' /\ IsFiniteSet(LateOnes)' /\ Accounted' = Accounted
  <2>1. CASE x = "sent"
    <3>1. LateOnes' = LateOnes \cup {s} /\ s \notin LateOnes
      BY <1>2, <1>7, <1>8, <1>9, <1>10, <2>1 DEF LateOnes
    <3>2. IsFiniteSet(LateOnes')  /\ Cardinality(LateOnes') = Cardinality(LateOnes) + 1
      <4>1. IsFiniteSet(LateOnes)
        BY <1>1 DEF Books
      <4> QED
        BY <3>1, <4>1, FS_AddElement
    <3>3. IsFiniteSet(Unsent)' /\ Cardinality(Unsent)' = Cardinality(Unsent) - 1
      BY <1>1, <1>10, <1>17, <1>18, <2>1, OneSent
    <3>4. Accounted' = (Cardinality(Unsent) - 1) + Len(queue) + nonIdle + (Cardinality(LateOnes) + 1)
      BY <1>2, <3>2, <3>3 DEF Accounted
    <3>5. Accounted' = Accounted
      BY <1>19, <3>4 DEF Accounted
    <3> QED
      BY <3>2, <3>3, <3>5
  <2>2. CASE x = "release"
    <3>1. LateOnes' = LateOnes
      BY <1>2, <1>7, <1>8, <1>9, <1>10, <2>2 DEF LateOnes
    <3>2. Unsent' = Unsent
      BY <1>1, <1>10, <1>17, <1>18, <2>2, NoneSent
    <3> QED
      BY <1>1, <1>2, <3>1, <3>2 DEF Books, Accounted
  <2> QED
    BY <1>10, <2>1, <2>2
<1>21. Books'
  BY <1>1, <1>2, <1>14, <1>20 DEF Books
<1> QED
  BY <1>3, <1>13, <1>15, <1>17, <1>21 DEF ContainerInv

\* A worker takes a list: the reservation is no longer of the list but of the worker.
LEMMA DequeueKeeps ==
    ASSUME ContainerInv, PoolInv', Dequeue
    PROVE  ContainerInv'
<1>1. Types /\ ListPart /\ AskInv /\ Books /\ WholeUnlessCut /\ PoolInv
  BY DEF ContainerInv
<1>2. /\ UNCHANGED <<asked, waiters, status, needed, stream, got, cut, crashed, capacity, reserved>>
      /\ nonIdle' = nonIdle + 1
  BY DEF Dequeue, output
<1>3. /\ ListPart' /\ LateOnes' = LateOnes /\ stage' \in [Packet -> Adaptor]
      /\ Len(running') = Len(running) + 1 /\ running' \in Seq(Packet)
      /\ queue' \in Seq(PacketList) /\ Len(queue') = Len(queue) - 1
  BY <1>1, DequeueKeepsLists
<1>4. onMerge' \in [Packet -> Nat]
  <2>1. onMerge' = [p \in Packet |-> IF p \in ToSet(Head(queue)) THEN Initial ELSE onMerge[p]]
    BY DEF Dequeue
  <2> QED
    BY <1>1, <2>1 DEF Types, Initial
<1>5. Types'
  <2>1. nonIdle' \in Int
    BY <1>1, <1>2 DEF Types
  <2> QED
    BY <1>1, <1>2, <1>3, <1>4, <2>1 DEF Types
<1>6. WholeUnlessCut' /\ (SomeoneHurt => SomeoneHurt')
  <2>1. SomeoneHurt => SomeoneHurt'
    BY <1>2 DEF SomeoneHurt, Hurt
  <2> QED
    BY <1>1, <1>2, <2>1, WholeSame
<1>7. AskInv' /\ AdmittedPackets' = AdmittedPackets
  BY <1>1, <1>2, AskStays
<1>8. Unsent' = Unsent
  BY <1>2, <1>7 DEF Unsent
<1>9. /\ Cardinality(Unsent) \in Nat /\ Cardinality(LateOnes) \in Nat
      /\ Len(queue) \in Nat /\ Len(running) \in Nat
      /\ nonIdle \in Int /\ reserved \in Int /\ capacity \in Nat
  BY <1>1, BookNumbers
<1>10. Accounted' = Accounted
  <2>1. Accounted' = Cardinality(Unsent) + (Len(queue) - 1) + (nonIdle + 1) + Cardinality(LateOnes)
    BY <1>2, <1>3, <1>8 DEF Accounted
  <2> QED
    BY <1>9, <2>1 DEF Accounted
<1>11. Books'
  <2>1. Len(running') <= nonIdle' /\ (Len(running) = nonIdle => Len(running') = nonIdle')
    BY <1>1, <1>2, <1>3, <1>9 DEF Books
  <2> QED
    BY <1>1, <1>2, <1>3, <1>6, <1>8, <1>10, <2>1 DEF Books
<1> QED
  BY <1>3, <1>5, <1>6, <1>7, <1>11 DEF ContainerInv

\* The steps of a running stage before its end.
LEMMA StageStepKeeps ==
    ASSUME ContainerInv, PoolInv', NEW s \in Packet,
           OutputPage(s) \/ Deliver(s) \/ Erase(s) \/ PageDone(s) \/ EndOfInput(s) \/ Throw(s)
               \/ StopAccepting(s)
    PROVE  ContainerInv'
<1>1. Types /\ ListPart /\ AskInv /\ Books /\ WholeUnlessCut /\ PoolInv
  BY DEF ContainerInv
<1>2. /\ UNCHANGED <<asked, waiters, status, queue, running, onMerge, needed, crashed>>
      /\ UNCHANGED <<capacity, reserved, nonIdle>>
  BY DEF OutputPage, Deliver, Erase, PageDone, EndOfInput, Throw, StopAccepting, pool, progress
<1>3. ListPart' /\ LateOnes' = LateOnes /\ stage' \in [Packet -> Adaptor]
  BY <1>1, OutputPageKeepsLists, DeliverKeepsLists, EraseKeepsLists, PageDoneKeepsLists,
     StopKeepsLists
<1>4. CASE Deliver(s)
  <2>1. WholeUnlessCut'
    BY <1>1, <1>4, DeliverKeepsWhole
  <2>2. PICK p, b : p = CurrentPacket(s) /\ b = stage[s]
    OBVIOUS
  <2>3. /\ p \in Packet /\ b.next \in Nat /\ b.next >= 2 /\ b.next <= Pages + 1
        /\ stream[p] \in {"open", "terminated"}
    <3>1. PICK n : n = Place(b)
      OBVIOUS
    <3>2. Turn(s, b, n, b.list[n])
      BY <1>1, <1>4, <2>2, <3>1, TurnFacts DEF Deliver, At
    <3> QED
      BY <2>2, <3>2 DEF Turn, RiderOK
  <2>4. b.next - 1 \in 1 .. Pages
    BY <2>3, ContainerAssumption DEF ContainerAssumption
  <2>5. \/ got' = got
        \/ got' = [got EXCEPT ![p] = IF stream[p] = "open" THEN Append(got[p], b.next - 1)
                                    ELSE got[p]]
    BY <1>4, <2>2 DEF Deliver
  <2>6. got' \in [Packet -> Seq(1 .. Pages)]
    <3>1. got \in [Packet -> Seq(1 .. Pages)]
      BY <1>1 DEF Types
    <3>2. PICK g : g = Append(got[p], b.next - 1)
      OBVIOUS
    <3>3. g \in Seq(1 .. Pages)
      BY <2>3, <2>4, <3>1, <3>2, AppendProperties
    <3> QED
      BY <2>3, <2>5, <3>1, <3>2, <3>3
  <2>7. stream' = stream \/ stream' = [stream EXCEPT ![p] = Finished(stream[p])]
    BY <1>4, <2>2 DEF Deliver, Finish, KeepPacket
  <2>8. /\ Finished(stream[p]) \in {"eof", "terminated"}
        /\ stream[p] = "terminated" => Finished(stream[p]) = "terminated"
    BY <2>3 DEF Finished
  <2>9. cut' = cut
    BY <1>4 DEF Deliver
  <2>10. Types'
    BY <1>1, <1>2, <1>3, <2>6, <2>7, <2>8, <2>9 DEF Types
  <2>11. SomeoneHurt => SomeoneHurt'
    <3>1. \A r \in Packet : Hurt(r) => Hurt(r)'
      BY <1>1, <2>3, <2>7, <2>8 DEF Hurt, Types
    <3> QED
      BY <3>1 DEF SomeoneHurt
  <2>12. AskInv' /\ Books'
    BY <1>1, <1>2, <1>3, <2>11, BooksStay
  <2> QED
    BY <1>3, <2>1, <2>10, <2>12 DEF ContainerInv
<1>5. CASE ~Deliver(s)
  <2>1. UNCHANGED <<stream, got>> /\ cut \subseteq cut' /\ cut' \subseteq Packet
    <3>1. CASE StopAccepting(s)
      <4>1. ToSet(stage[s].list) \subseteq Packet
        <5>1. PICK l : l = stage[s].list
          OBVIOUS
        <5>2. l \in Seq(Packet)
          BY <1>1, <5>1, AdaptorFacts DEF Types
        <5> QED
          BY <5>1, <5>2, Elements DEF Counted
      <4> QED
        BY <1>1, <3>1, <4>1 DEF StopAccepting, output, Types
    <3>2. CASE OutputPage(s) \/ Erase(s) \/ PageDone(s) \/ EndOfInput(s) \/ Throw(s)
      BY <1>1, <3>2 DEF OutputPage, Erase, PageDone, EndOfInput, Throw, output, Types
    <3> QED
      BY <1>5, <3>1, <3>2
  <2>2. Types'
    BY <1>1, <1>2, <1>3, <2>1 DEF Types
  <2>3. SomeoneHurt => SomeoneHurt'
    BY <2>1 DEF SomeoneHurt, Hurt
  <2>4. AskInv' /\ Books'
    BY <1>1, <1>2, <1>3, <2>3, BooksStay
  <2>5. WholeUnlessCut'
    BY <1>1, <2>1, WholeSame
  <2> QED
    BY <1>3, <2>2, <2>4, <2>5 DEF ContainerInv
<1> QED
  BY <1>4, <1>5

\* The worker gives back the reservation of the primary; a list that is queued
\* again goes on with that of the first late merger.
LEMMA CleanupKeeps ==
    ASSUME ContainerInv, PoolInv', NEW s \in Packet, Cleanup(s)
    PROVE  ContainerInv'
<1>1. Types /\ ListPart /\ AskInv /\ Books /\ WholeUnlessCut /\ PoolInv
  BY DEF ContainerInv
<1>2. /\ UNCHANGED <<asked, waiters, status, got, cut, crashed, capacity>>
      /\ nonIdle' = nonIdle - 1 /\ reserved' = reserved - 1
  BY DEF Cleanup, PoolUnreserve
<1>3. Cleaned(s)
  BY <1>1, CleanupKeepsLists
<1>4. /\ ListPart' /\ LateOnes' = LateOnes \ {s} /\ Len(running') = Len(running) - 1
      /\ IsFiniteSet(ToSet(running)) /\ s \in ToSet(running) /\ running' \in Seq(Packet)
      /\ stage' \in [Packet -> Adaptor] /\ (SomeoneHurt => SomeoneHurt')
      /\ queue' \in Seq(PacketList) /\ WholeUnlessCut'
      /\ \A p \in Packet : needed'[p] \in 1 .. Pages + 1
  BY <1>3 DEF Cleaned
<1>5. /\ onMerge' \in [Packet -> Nat] /\ needed' \in [Packet -> 1 .. Pages + 1]
      /\ stream' \in [Packet -> {"open", "eof", "terminated", "aborted", "lost"}]
  <2>1. PICK again, l :
          /\ needed' = [p \in Packet |-> IF p \in again THEN onMerge[p] ELSE needed[p]]
          /\ onMerge' = [p \in Packet |-> IF p \in again THEN Uninitialized ELSE onMerge[p]]
          /\ stream' = [p \in Packet |-> IF p \in ToSet(l) \ again THEN Finished(stream[p]) ELSE stream[p]]
    BY DEF Cleanup, RunAgain
  <2>2. onMerge' \in [Packet -> Nat]
    BY <1>1, <2>1 DEF Types, Uninitialized
  <2>3. needed' \in [Packet -> 1 .. Pages + 1]
    BY <1>4, <2>1
  <2>4. stream' \in [Packet -> {"open", "eof", "terminated", "aborted", "lost"}]
    BY <1>1, <2>1 DEF Types, Finished
  <2> QED
    BY <2>2, <2>3, <2>4
<1>6. /\ Cardinality(Unsent) \in Nat /\ Cardinality(LateOnes) \in Nat
      /\ Len(queue) \in Nat /\ Len(running) \in Nat
      /\ nonIdle \in Int /\ reserved \in Int /\ capacity \in Nat
  BY <1>1, BookNumbers
<1>7. Types'
  <2>1. nonIdle' \in Int
    BY <1>2, <1>6
  <2> QED
    BY <1>1, <1>2, <1>4, <1>5, <2>1 DEF Types
<1>8. AskInv' /\ AdmittedPackets' = AdmittedPackets
  BY <1>1, <1>2, AskStays
<1>9. Unsent' = Unsent
  BY <1>2, <1>8 DEF Unsent
<1>10. /\ IsFiniteSet(LateOnes)'
       /\ Cardinality(LateOnes)' = Cardinality(LateOnes) - (IF stage[s].late THEN 1 ELSE 0)
  <2>1. IsFiniteSet(LateOnes)
    BY <1>1 DEF Books
  <2>2. CASE stage[s].late
    <3>1. s \in LateOnes
      BY <1>4, <2>2 DEF LateOnes
    <3>2. IsFiniteSet(LateOnes \ {s}) /\ Cardinality(LateOnes \ {s}) = Cardinality(LateOnes) - 1
      BY <2>1, <3>1, FS_RemoveElement
    <3> QED
      BY <1>4, <2>2, <3>2
  <2>3. CASE ~stage[s].late
    <3>1. s \notin LateOnes
      BY <2>3 DEF LateOnes
    <3>2. LateOnes' = LateOnes
      BY <1>4, <3>1
    <3> QED
      BY <1>6, <2>1, <2>3, <3>2
  <2> QED
    BY <2>2, <2>3
<1>11. PICK d \in {0, 1} : Len(queue') = Len(queue) + d
                           /\ (d = 1 => stage[s].late) /\ (d = 0 /\ stage[s].late => SomeoneHurt)
  <2>1. CASE Len(queue') = Len(queue) /\ (stage[s].late => SomeoneHurt)
    <3>1. Len(queue') = Len(queue) + 0
      BY <1>6, <2>1
    <3> QED
      BY <2>1, <3>1
  <2>2. CASE Len(queue') = Len(queue) + 1 /\ stage[s].late
    BY <2>2
  <2> QED
    BY <1>3, <2>1, <2>2 DEF Cleaned
<1>12. PICK e \in {0, 1} : e = IF stage[s].late THEN 1 ELSE 0
  OBVIOUS
<1>13. Accounted' = Accounted - 1 + d - e
  <2>1. Accounted' = Cardinality(Unsent) + (Len(queue) + d) + (nonIdle - 1) + (Cardinality(LateOnes) - e)
    BY <1>2, <1>9, <1>10, <1>11, <1>12 DEF Accounted
  <2>2. PICK u, l, i, o : /\ u = Cardinality(Unsent) /\ l = Len(queue) /\ i = nonIdle
                          /\ o = Cardinality(LateOnes)
    OBVIOUS
  <2>3. u \in Nat /\ l \in Nat /\ i \in Int /\ o \in Nat
    BY <1>6, <2>2
  <2>4. Accounted' = u + (l + d) + (i - 1) + (o - e) /\ Accounted = u + l + i + o
    BY <2>1, <2>2 DEF Accounted
  <2>5. u + (l + d) + (i - 1) + (o - e) = (u + l + i + o) - 1 + d - e
    BY <2>3
  <2> QED
    BY <2>4, <2>5, Zenon
<1>14. Accounted \in Int
  BY <1>6 DEF Accounted
<1>15. d <= e /\ (~SomeoneHurt => d = e)
  BY <1>11, <1>12
<1>16. /\ Len(running) <= nonIdle /\ Accounted <= reserved /\ reserved <= capacity
       /\ ~SomeoneHurt => Accounted = reserved /\ Len(running) = nonIdle
  BY <1>1 DEF Books
<1>17. Len(running') <= nonIdle' /\ reserved' <= capacity'
  BY <1>2, <1>4, <1>6, <1>16
<1>18. Accounted' <= reserved'
  BY <1>2, <1>6, <1>13, <1>14, <1>15, <1>16
<1>19. ~SomeoneHurt' => Accounted' = reserved' /\ Len(running') = nonIdle'
  <2>1. ASSUME ~SomeoneHurt' PROVE Accounted' = reserved' /\ Len(running') = nonIdle'
    <3>1. ~SomeoneHurt
      BY <1>4, <2>1
    <3>2. Accounted = reserved /\ Len(running) = nonIdle /\ d = e
      BY <1>15, <1>16, <3>1
    <3> QED
      BY <1>2, <1>4, <1>6, <1>13, <3>2
  <2> QED
    BY <2>1
<1>20. Books'
  BY <1>1, <1>9, <1>10, <1>17, <1>18, <1>19 DEF Books
<1> QED
  BY <1>4, <1>7, <1>8, <1>20 DEF ContainerInv


\* The worker of an aborted list gives nothing back: somebody is hurt.
LEMMA AbortKeeps ==
    ASSUME ContainerInv, PoolInv', NEW s \in Packet, Abort(s)
    PROVE  ContainerInv'
<1>1. Types /\ ListPart /\ AskInv /\ Books /\ WholeUnlessCut /\ PoolInv
  BY DEF ContainerInv
<1>2. UNCHANGED <<asked, waiters, status, queue, onMerge, needed, got, cut, crashed,
                  capacity, reserved, nonIdle>>
  BY DEF Abort, pool, progress
<1>3. /\ ListPart' /\ LateOnes' = LateOnes \ {s} /\ Len(running') = Len(running) - 1
      /\ running' \in Seq(Packet) /\ stage' \in [Packet -> Adaptor] /\ SomeoneHurt'
  BY <1>1, AbortKeepsLists
<1>4. PICK l : stream' = [p \in Packet |-> IF p \in ToSet(l) /\ stream[p] = "open"
                                           THEN "aborted" ELSE stream[p]]
  BY DEF Abort
<1>5. stream' \in [Packet -> {"open", "eof", "terminated", "aborted", "lost"}]
  BY <1>1, <1>4 DEF Types
<1>6. Types'
  BY <1>1, <1>2, <1>3, <1>5 DEF Types
<1>7. WholeUnlessCut'
  <2>1. \A p \in Packet : stream'[p] = "eof" => stream[p] = "eof"
    BY <1>4
  <2> QED
    BY <1>1, <1>2, <2>1, WholeSame
<1>8. AskInv' /\ AdmittedPackets' = AdmittedPackets
  BY <1>1, <1>2, AskStays
<1>9. Unsent' = Unsent
  BY <1>2, <1>8 DEF Unsent
<1>10. /\ Cardinality(Unsent) \in Nat /\ Cardinality(LateOnes) \in Nat
       /\ Len(queue) \in Nat /\ Len(running) \in Nat
       /\ nonIdle \in Int /\ reserved \in Int /\ capacity \in Nat
  BY <1>1, BookNumbers
<1>11. PICK c : c = Cardinality(LateOnes')
  OBVIOUS
<1>12. IsFiniteSet(LateOnes') /\ c \in Nat /\ c <= Cardinality(LateOnes)
  <2>1. PICK L, M : L = LateOnes /\ M = LateOnes'
    OBVIOUS
  <2>2. IsFiniteSet(L) /\ M \in SUBSET L
    BY <1>1, <1>3, <2>1 DEF Books
  <2>3. IsFiniteSet(M) /\ Cardinality(M) <= Cardinality(L)
    BY <2>2, FS_Subset
  <2>4. Cardinality(M) \in Nat
    BY <2>3, FS_CardinalityType
  <2> QED
    BY <1>11, <2>1, <2>3, <2>4
<1>13. Accounted' <= Accounted
  <2>1. Accounted' = Cardinality(Unsent) + Len(queue) + nonIdle + c
    BY <1>2, <1>9, <1>11 DEF Accounted
  <2> QED
    BY <1>10, <1>12, <2>1 DEF Accounted
<1>14. Accounted' \in Int /\ Accounted \in Int
  <2>1. Accounted' = Cardinality(Unsent) + Len(queue) + nonIdle + c
    BY <1>2, <1>9, <1>11 DEF Accounted
  <2> QED
    BY <1>10, <1>12, <2>1 DEF Accounted
<1>15. Len(running) <= nonIdle /\ Accounted <= reserved /\ reserved <= capacity
  BY <1>1 DEF Books
<1>16. Len(running') <= nonIdle' /\ Accounted' <= reserved' /\ reserved' <= capacity'
  BY <1>2, <1>3, <1>10, <1>13, <1>14, <1>15
<1>17. Books'
  BY <1>1, <1>3, <1>9, <1>12, <1>16 DEF Books
<1> QED
  BY <1>3, <1>6, <1>7, <1>8, <1>17 DEF ContainerInv

\* A consumer that leaves is hurt.
LEMMA QuitKeeps ==
    ASSUME ContainerInv, PoolInv', NEW r \in Packet, Quit(r)
    PROVE  ContainerInv'
<1>1. Types /\ ListPart /\ AskInv /\ Books /\ WholeUnlessCut /\ PoolInv
  BY DEF ContainerInv
<1>2. /\ UNCHANGED <<asked, waiters, status, queue, running, stage, onMerge, needed, got, cut, crashed>>
      /\ UNCHANGED <<capacity, reserved, nonIdle>>
      /\ status[r] # "new" /\ stream[r] = "open"
      /\ stream' = [stream EXCEPT ![r] = "terminated"]
  BY DEF Quit, pool, lists, progress
<1>3. stream \in [Packet -> {"open", "eof", "terminated", "aborted", "lost"}]
  BY <1>1 DEF Types
<1>4. stream'[r] = "terminated" /\ \A p \in Packet : p # r => stream'[p] = stream[p]
  BY <1>2, <1>3
<1>5. \A p \in Packet : Same(p)
  BY <1>2, <1>4 DEF Same
<1>6. \A p \in Packet : status'[p] = "new" => status[p] = "new" /\ stream'[p] = stream[p]
  BY <1>2, <1>4
<1>7. SomeoneHurt'
  BY <1>4 DEF SomeoneHurt, Hurt
<1>8. ListPart' /\ LateOnes' = LateOnes
  BY <1>1, <1>2, <1>5, <1>6, <1>7, ListsStay
<1>9. Types'
  BY <1>1, <1>2, <1>3 DEF Types
<1>10. WholeUnlessCut'
  <2>1. \A p \in Packet : stream'[p] = "eof" => stream[p] = "eof"
    BY <1>4
  <2> QED
    BY <1>1, <1>2, <2>1, WholeSame
<1>11. AskInv' /\ Books'
  BY <1>1, <1>2, <1>7, <1>8, BooksStay
<1> QED
  BY <1>8, <1>9, <1>10, <1>11 DEF ContainerInv

\* Nothing happens.
LEMMA StutterKeeps ==
    ASSUME ContainerInv, PoolInv', UNCHANGED vars
    PROVE  ContainerInv'
<1>1. Types /\ ListPart /\ AskInv /\ Books /\ WholeUnlessCut /\ PoolInv
  BY DEF ContainerInv
<1>2. /\ UNCHANGED <<asked, status, queue, running, stage, onMerge, needed, stream, got, cut, crashed>>
      /\ UNCHANGED <<capacity, reserved, nonIdle, waiters>>
  BY DEF vars, pool, lists, progress, output
<1>3. Types'
  BY <1>1, <1>2 DEF Types
<1>4. ListPart' /\ LateOnes' = LateOnes /\ WholeUnlessCut' /\ (SomeoneHurt => SomeoneHurt')
  BY <1>1, <1>2, ListsUntouched
<1>5. AskInv' /\ Books'
  BY <1>1, <1>2, <1>4, BooksStay
<1> QED
  BY <1>3, <1>4, <1>5 DEF ContainerInv

\* Every step of the container, by the lemmas above.
LEMMA StepKeepsContainerInv ==
    ASSUME ContainerInv, [Next]_vars
    PROVE  ContainerInv'
<1>1. PoolInv'
  BY ContainerAssumption, NeedAssumption, StepKeepsPoolInv DEF ContainerInv
<1>2. CASE \E q \in Client : Reserve(q)
  BY <1>1, <1>2, ReserveKeeps
<1>3. ASSUME NEW p \in Packet, Dispatch(p)
      PROVE  ContainerInv'
  BY <1>1, <1>3, ReleaseKeeps, QueueingKeeps, MergingKeeps DEF Dispatch
<1>4. ASSUME NEW p \in Packet, Work(p) \/ Throw(p) \/ Quit(p)
      PROVE  ContainerInv'
  BY <1>1, <1>4, StageStepKeeps, CleanupKeeps, AbortKeeps, QuitKeeps DEF Work
<1>5. CASE Dequeue
  BY <1>1, <1>5, DequeueKeeps
<1>6. CASE Wake
  BY <1>1, <1>6, WakeKeeps
<1>7. CASE UNCHANGED vars
  BY <1>1, <1>7, StutterKeeps
<1>8. (\E q \in Client : Reserve(q))
      \/ (\E p \in Packet : Dispatch(p) \/ Work(p) \/ Throw(p) \/ Quit(p))
      \/ Dequeue \/ Wake \/ UNCHANGED vars
  BY Zenon DEF Next
<1> QED
  BY <1>2, <1>3, <1>4, <1>5, <1>6, <1>7, <1>8, Zenon

\* An empty container: every packet is new.
LEMMA InitHasContainerInv ==
    ASSUME Init
    PROVE  ContainerInv
<1>1. PoolInv
  BY ContainerAssumption, InitHasPoolInv
<1>2. /\ capacity = 0 /\ reserved = 0 /\ nonIdle = 0 /\ waiters = <<>> /\ asked = {}
      /\ status = [p \in Packet |-> "new"]
      /\ queue = <<>> /\ running = <<>> /\ stage = [p \in Packet |-> NoAdaptor]
      /\ onMerge = [p \in Packet |-> Uninitialized] /\ needed = [p \in Packet |-> Initial]
      /\ stream = [p \in Packet |-> "open"] /\ got = [p \in Packet |-> <<>>]
      /\ cut = {} /\ crashed = FALSE
  BY DEF Init, PoolInit
<1>3. DOMAIN queue = {} /\ DOMAIN running = {} /\ DOMAIN waiters = {} /\ Len(queue) = 0 /\ Len(running) = 0
  BY <1>2
<1>4. NoAdaptor \in Adaptor /\ NoAdaptor.pc = "none" /\ NoAdaptor.list = <<>>
  <2>1. PICK l : l = <<>>
    OBVIOUS
  <2>2. l \in PacketList
    BY <2>1 DEF PacketList
  <2>3. PICK a : a = NewAdaptor(l)
    OBVIOUS
  <2>4. a \in Adaptor
    BY <2>2, <2>3 DEF NewAdaptor, Adaptor, Initial
  <2>5. a.list = <<>>
    BY <2>1, <2>3 DEF NewAdaptor
  <2>6. NoAdaptor = [a EXCEPT !.pc = "none", !.accepting = FALSE]
    BY <2>1, <2>3 DEF NoAdaptor
  <2>7. NoAdaptor \in Adaptor
    BY <2>4, <2>6 DEF Adaptor
  <2>8. NoAdaptor.pc = "none" /\ NoAdaptor.list = <<>>
    BY <2>4, <2>5, <2>6 DEF Adaptor
  <2> QED
    BY <2>7, <2>8
<1>5. Types
  <2>1. queue \in Seq(PacketList) /\ running \in Seq(Packet)
    BY <1>2
  <2>2. needed \in [Packet -> 1 .. Pages + 1]
    <3>1. 1 \in 1 .. Pages + 1
      BY ContainerAssumption DEF ContainerAssumption
    <3> QED
      BY <1>2, <3>1 DEF Initial
  <2>3. got \in [Packet -> Seq(1 .. Pages)]
    <3>1. PICK e : e = <<>>
      OBVIOUS
    <3>2. e \in Seq(1 .. Pages)
      BY <3>1
    <3> QED
      BY <1>2, <3>1, <3>2
  <2>4. stage \in [Packet -> Adaptor] /\ onMerge \in [Packet -> Nat]
    BY <1>2, <1>4 DEF Uninitialized
  <2>5. nonIdle \in Int /\ asked \subseteq Client /\ cut \subseteq Packet
    BY <1>2
  <2>7. crashed \in BOOLEAN
    <3>1. crashed = FALSE
      BY <1>2
    <3> QED
      BY <3>1, Zenon
  <2>6. /\ status \in [Packet -> {"new", "release", "sent"}]
        /\ stream \in [Packet -> {"open", "eof", "terminated", "aborted", "lost"}]
    BY <1>2
  <2> QED
    BY <2>1, <2>2, <2>3, <2>4, <2>5, <2>6, <2>7 DEF Types
<1>6. \A p, s \in Packet : ~OnQueue(p) /\ ~Rides(p, s) /\ ~Busy(s)
  <2>1. \A p \in Packet : ~OnQueue(p)
    BY <1>3 DEF OnQueue
  <2>2. ASSUME NEW p \in Packet, NEW s \in Packet PROVE ~Rides(p, s)
    <3>1. PICK l : l = stage[s].list
      OBVIOUS
    <3>2. l = <<>>
      BY <1>2, <1>4, <3>1
    <3>3. ~Has(l, p)
      BY <3>2 DEF Has
    <3> QED
      BY <3>1, <3>3 DEF Rides
  <2>3. \A s \in Packet : ~Busy(s)
    BY <1>2, <1>4 DEF Busy
  <2> QED
    BY <2>1, <2>2, <2>3
<1>7. ListPart
  <2>1. QueueInv
    BY <1>3 DEF QueueInv
  <2>2. ListInv
    <3>1. ASSUME NEW s \in Packet PROVE Once(stage[s].list)
      <4>1. PICK l : l = stage[s].list
        OBVIOUS
      <4>2. l = <<>>
        BY <1>2, <1>4, <4>1
      <4>3. Once(l)
        BY <4>2 DEF Once
      <4> QED
        BY <4>1, <4>3
    <3> QED
      BY <1>6, <3>1 DEF ListInv
  <2>3. RunInv
    <3>1. Once(running) /\ \A s \in Packet : ~Has(running, s)
      BY <1>3 DEF Once, Has
    <3>2. \A s \in Packet : stage[s] = NoAdaptor
      BY <1>2
    <3> QED
      BY <1>6, <3>1, <3>2 DEF RunInv
  <2>4. NewInv
    BY <1>2, <1>6 DEF NewInv, Fresh
  <2>5. QueuedInv /\ StageInv
    BY <1>6 DEF QueuedInv, StageInv
  <2> QED
    BY <2>1, <2>2, <2>3, <2>4, <2>5 DEF ListPart
<1>8. Waiting = {}
  BY <1>3 DEF Waiting
<1>9. AskInv
  BY <1>2, <1>3, <1>8 DEF AskInv, Once
<1>10. Unsent = {} /\ LateOnes = {}
  <2>1. AdmittedPackets = {}
    BY <1>2 DEF AdmittedPackets, Admitted
  <2>2. ToSet(running) = {}
    BY <1>3 DEF ToSet
  <2> QED
    BY <2>1, <2>2 DEF Unsent, LateOnes
<1>11. Accounted = 0
  BY <1>2, <1>3, <1>10, FS_EmptySet DEF Accounted
<1>12. Books
  BY <1>2, <1>3, <1>10, <1>11, FS_EmptySet DEF Books
<1>13. WholeUnlessCut
  BY <1>2 DEF WholeUnlessCut
<1> QED
  BY <1>1, <1>5, <1>7, <1>9, <1>12, <1>13 DEF ContainerInv

(***************************************************************************)
(* What the invariant says of the numbers of the container.                *)
(***************************************************************************)
LEMMA NumbersAgree ==
    ASSUME ContainerInv
    PROVE  /\ reserved \in Nat /\ nonIdle \in Nat
           /\ Len(queue) + nonIdle <= reserved /\ reserved <= capacity /\ capacity <= MaxThreads
           /\ Len(queue) <= FreeWorkers /\ Owed <= reserved
           /\ ~SomeoneHurt => Owed = reserved
<1>1. Types /\ Books /\ PoolInv
  BY DEF ContainerInv
<1>2. PICK u, k, q, r :
        u = Cardinality(Unsent) /\ k = Cardinality(LateOnes) /\ q = Len(queue) /\ r = Len(running)
  OBVIOUS
<1>3. u \in Nat /\ k \in Nat /\ q \in Nat /\ r \in Nat /\ nonIdle \in Int /\ reserved \in Int /\ capacity \in Nat
  BY <1>1, <1>2, BookNumbers
<1>4. Accounted = u + q + nonIdle + k
  BY <1>2 DEF Accounted
<1>5. Owed = u + q + r + k
  BY <1>2 DEF Owed, Unsent, LateOnes
<1>6. /\ r <= nonIdle /\ Accounted <= reserved /\ reserved <= capacity
      /\ ~SomeoneHurt => Accounted = reserved /\ r = nonIdle
  BY <1>1, <1>2 DEF Books
<1>7. MaxThreads \in Nat /\ capacity <= MaxThreads
  BY <1>1, ContainerAssumption DEF ContainerAssumption, PoolInv
<1>8. FreeWorkers = capacity - r
  BY <1>2 DEF FreeWorkers
<1>9. reserved \in Nat /\ nonIdle \in Nat /\ q + nonIdle <= reserved /\ q <= FreeWorkers /\ Owed <= reserved
  BY <1>3, <1>4, <1>5, <1>6, <1>8
<1>10. ~SomeoneHurt => Owed = reserved
  BY <1>3, <1>4, <1>5, <1>6
<1> QED
  BY <1>2, <1>6, <1>7, <1>9, <1>10

(***************************************************************************)
(* The invariant holds of every run, and with it what it was made for.     *)
(***************************************************************************)
LEMMA AlwaysContainerInv == Spec => []ContainerInv
<1>1. Init => ContainerInv
  BY InitHasContainerInv
<1>2. ContainerInv /\ [Next]_vars => ContainerInv'
  BY StepKeepsContainerInv
<1> QED
  BY <1>1, <1>2, PTL DEF Spec

(***************************************************************************)
(* Every variable of the container keeps its type; no count of workers is  *)
(* ever negative.                                                          *)
(***************************************************************************)
THEOREM ContainerTypeCorrect == Spec => []TypeOK
<1>1. ContainerInv => TypeOK
  <2>1. ASSUME ContainerInv PROVE TypeOK
    <3>1. reserved \in Nat /\ nonIdle \in Nat
      BY <2>1, NumbersAgree
    <3>2. Types /\ PoolInv
      BY <2>1 DEF ContainerInv
    <3>3. PoolTypeOK
      BY <3>1, <3>2 DEF PoolTypeOK, PoolInv
    <3>4. needed \in [Packet -> Nat]
      <4>1. 1 .. Pages + 1 \subseteq Nat
        BY ContainerAssumption DEF ContainerAssumption
      <4> QED
        BY <3>2, <4>1 DEF Types
    <3> QED
      BY <3>2, <3>3, <3>4 DEF TypeOK, Types
  <2> QED
    BY <2>1
<1> QED
  BY <1>1, AlwaysContainerInv, PTL

(***************************************************************************)
(* For any queries, packets and limit, every queued list has a worker that *)
(* is reserved and free to take it (stage_container.h:119), and the pool   *)
(* never promises more threads than _reserve() created.                    *)
(***************************************************************************)
THEOREM ListsHaveTheirWorkers == Spec => []WorkersReserved
<1>1. ContainerInv => WorkersReserved
  BY NumbersAgree DEF WorkersReserved
<1> QED
  BY <1>1, AlwaysContainerInv, PTL

(***************************************************************************)
(* A reservation that nobody will give back is that of a query that was    *)
(* terminated, aborted or lost: merging and the second runs of cleanup()   *)
(* leak none.                                                              *)
(***************************************************************************)
THEOREM MergingLeaksNothing == Spec => []OnlyTheHurtLeak
<1>1. ContainerInv => OnlyTheHurtLeak
  <2>1. ASSUME ContainerInv, reserved > Owed PROVE SomeoneHurt
    <3>1. reserved \in Nat /\ (~SomeoneHurt => Owed = reserved)
      BY <2>1, NumbersAgree
    <3> QED
      BY <2>1, <3>1
  <2> QED
    BY <2>1 DEF OnlyTheHurtLeak, SomeoneHurt
<1> QED
  BY <1>1, AlwaysContainerInv, PTL

(***************************************************************************)
(* However late a packet merged, output_page() and cleanup() give it every *)
(* page once before they end its stream, unless a stage stopped early with *)
(* the packet in its list.                                                 *)
(***************************************************************************)
THEOREM StreamsAreWhole == Spec => []WholeUnlessCut
<1>1. ContainerInv => WholeUnlessCut
  BY DEF ContainerInv
<1> QED
  BY <1>1, AlwaysContainerInv, PTL
=============================================================================

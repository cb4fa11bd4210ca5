--------------------------- MODULE DoraFlowProofs ---------------------------
(***************************************************************************)
(* Proofs about the flows of transactions through DORA, for any flows,     *)
(* partitions and keys: the countdowns of rendezvous points are exact, and *)
(* the flows implement the abstract promise (StrictExecution).             *)
(*                                                                         *)
(* The argument follows each action from place to place.  An action that   *)
(* was enqueued is in the input queue, waits for its key, or owns it; it   *)
(* is with the worker from the moment it owns the key to its post (Hand);  *)
(* it owns the key until its transaction ended.  So two actions in         *)
(* conflict are kept apart by the owners of one lock, which are compatible *)
(* (what is proved of the lock operators in LockManagerProofs).            *)
(***************************************************************************)
EXTENDS DoraFlow, FiniteSetTheorems, SequenceTheorems, TLAPS

(***************************************************************************)
(* The facts about single locks, for the locks of all partitions.  (Only   *)
(* what LockManagerProofs says of the operators of LogicalLock is used, so *)
(* that the state does not matter.)                                        *)
(***************************************************************************)
L == INSTANCE LockManagerProofs WITH
    Action   <- ActionId,
    Tid      <- Xct,
    Key      <- Partition \X Key,
    TidOf    <- XctOf,
    KeysOf   <- [a \in ActionId |-> {<<Part(a), KeyOf(a)>>}],
    ReadOnly <- {a \in ActionId : Datum(a).dlm = SHARED},
    locks    <- <<>>,
    needed   <- <<>>,
    phase    <- <<>>

-----------------------------------------------------------------------------
(***************************************************************************)
(* Types.                                                                  *)
(***************************************************************************)
RvpType == [phase : Nat, sent : Nat, left : Nat, aborted : BOOLEAN,
            outcome : Outcome, told : Nat]

RvpTypes ==
    /\ rvp \in [Xct -> RvpType]
    /\ \A x \in Xct : /\ rvp[x].phase \in DOMAIN Flow[x]
                      /\ rvp[x].sent <= Len(Flow[x][rvp[x].phase])
                      /\ rvp[x].told <= Len(ActionsUpTo[x][rvp[x].phase])
                      /\ rvp[x].told > 0 => rvp[x].outcome # "none"

WorkerType == [pc : {"drain", "loop", "serve", "post", "dispatch", "notify"},
               ready : Seq(ActionId), error : BOOLEAN]

QueueTypes ==
    /\ inq \in [Partition -> Seq(ActionId)]
    /\ commitq \in [Partition -> Seq(ActionId)]
    /\ worker \in [Partition -> WorkerType]

OtherTypes ==
    /\ submitted \in Mix
    /\ notifier \subseteq Xct /\ prepared \subseteq Partition /\ victims \subseteq Xct
    /\ ran \subseteq ActionId /\ ended \in Seq(Xct) /\ prec \subseteq Xct \X Xct

(***************************************************************************)
(* The locks: each is sound, its requests are those of actions on its key, *)
(* and no action is on it twice.                                           *)
(***************************************************************************)
EntryAt(p, k, r) == /\ r.action \in ActionId /\ r = Req(r.action)
                    /\ Part(r.action) = p /\ KeyOf(r.action) = k

LockInv(p, k, ll) ==
    /\ L!LockOK(ll)
    /\ ~HeadCanAcquire(ll)
    /\ L!OneEach(ll)
    /\ \A i \in DOMAIN ll.owners : EntryAt(p, k, ll.owners[i])
    /\ \A i \in DOMAIN ll.waiters : EntryAt(p, k, ll.waiters[i])

LocksInv ==
    /\ DOMAIN locks = Partition
    /\ \A p \in Partition :
          /\ DOMAIN locks[p] \subseteq Key
          /\ locks[p] = [k \in DOMAIN locks[p] |-> locks[p][k]]
          /\ \A k \in DOMAIN locks[p] : LockInv(p, k, locks[p][k])

(***************************************************************************)
(* Queues and workers.  An action is in the queues of its own partition,   *)
(* and once; a worker without ready actions is at the top of its loop, and *)
(* one that runs an RVP is still at the action that posted last.           *)
(***************************************************************************)
Has(s, b) == \E i \in DOMAIN s : s[i] = b

Once(s) == \A i, j \in DOMAIN s : s[i] = s[j] => i = j

Home(p, s) == \A i \in DOMAIN s : Part(s[i]) = p

WorkerInv(p, w) ==
    /\ Home(p, w.ready) /\ Once(w.ready)
    /\ w.pc \in {"drain", "loop"} <=> w.ready = <<>>

QueueInv ==
    \A p \in Partition : /\ Home(p, inq[p]) /\ Once(inq[p])
                         /\ Home(p, commitq[p])
                         /\ WorkerInv(p, worker[p])

Drives(p, x) == worker[p].pc \in {"dispatch", "notify"} /\ Serving(p) = x

DriverOK(p) ==
    /\ worker[p].pc = "dispatch" =>
          /\ Sent(Served(p)) /\ Owns(Served(p))
          /\ rvp[Serving(p)].phase > 1 /\ Sending(Serving(p))
          /\ Served(p)[2] < rvp[Serving(p)].phase
          /\ rvp[Serving(p)].outcome = "none"
    /\ worker[p].pc = "notify" =>
          /\ Sent(Served(p))
          /\ rvp[Serving(p)].outcome # "none"
          /\ rvp[Serving(p)].told < Len(ActionsUpTo[Serving(p)][rvp[Serving(p)].phase])
          /\ Serving(p) \notin notifier

DriverInv ==
    /\ \A p \in Partition : DriverOK(p)
    /\ \A p, q \in Partition, x \in Xct : Drives(p, x) /\ Drives(q, x) => p = q
    /\ \A x \in notifier :
          /\ rvp[x].outcome # "none"
          /\ rvp[x].told < Len(ActionsUpTo[x][rvp[x].phase])

(***************************************************************************)
(* Where an action is.                                                     *)
(***************************************************************************)
Current(a) == a[2] = rvp[XctOf[a]].phase
Open(a)    == rvp[XctOf[a]].outcome = "none"
Known(a)   == KeyOf(a) \in DOMAIN locks[Part(a)]
Back(a)    == Has(commitq[Part(a)], a)

PlaceInv ==
    \A a \in ActionId :
        /\ Queued(a) => Sent(a) /\ Current(a) /\ Open(a) /\ ~Waits(a) /\ ~Owns(a)
        /\ Waits(a) => Sent(a) /\ Current(a) /\ Open(a) /\ ~Owns(a)
        /\ InHand(a) => Sent(a) /\ Current(a) /\ Open(a) /\ Owns(a)
        /\ Owns(a) => Sent(a)
        /\ Sent(a) /\ Open(a) => Queued(a) \/ Waits(a) \/ Owns(a)
        /\ Sent(a) /\ ~Queued(a) => Known(a)
        /\ Back(a) => Sent(a) /\ ~Open(a)
        /\ Sent(a) => XctOf[a] \in submitted

(***************************************************************************)
(* What ran, and what the rendezvous points say.                           *)
(***************************************************************************)
Pending(a) == Queued(a) \/ Waits(a) \/ InHand(a)

RanInv ==
    /\ \A a \in ran : Sent(a) /\ ~Queued(a) /\ ~Waits(a)
    /\ \A a \in ran : InHand(a) => worker[Part(a)].pc = "post" /\ Served(Part(a)) = a
    /\ \A a \in ActionId :
          Sent(a) /\ ~Pending(a) /\ ~rvp[XctOf[a]].aborted => a \in ran
    /\ \A p \in Partition :
          worker[p].pc = "post" /\ ~rvp[Serving(p)].aborted => Served(p) \in ran

Todo(a)   == ~Sent(a) \/ Queued(a) \/ Waits(a) \/ InHand(a)
ToPost(x) == {j \in DOMAIN Flow[x][rvp[x].phase] : Todo(<<x, rvp[x].phase, j>>)}

CountInv ==
    \A x \in Xct : /\ rvp[x].left = Cardinality(ToPost(x))
                   /\ rvp[x].outcome = "none" <=> ToPost(x) # {}

EndInv == \A x \in Xct : rvp[x].outcome # "none" <=> \E i \in DOMAIN ended : ended[i] = x

(***************************************************************************)
(* All of it holds until a run is over, and as long as the clients wait    *)
(* for all their transactions: otherwise prepareNewRun() may take the keys *)
(* of a transaction that runs.                                             *)
(***************************************************************************)
Followed == prepared = {} \/ submitted \subseteq Waited

FlowInv ==
    /\ RvpTypes /\ QueueTypes /\ OtherTypes
    /\ LocksInv /\ QueueInv /\ DriverInv /\ PlaceInv /\ RanInv /\ CountInv /\ EndInv

(***************************************************************************)
(* The way back of an action, when clients are told last.                  *)
(***************************************************************************)
Told(a) == \E n \in 1 .. rvp[XctOf[a]].told : ActionsUpTo[XctOf[a]][rvp[XctOf[a]].phase][n] = a

BackInv ==
    /\ \A p \in Partition : Once(commitq[p])
    /\ \A a \in ActionId : Back(a) => Told(a)
    /\ \A a \in ActionId : Told(a) => (Owns(a) <=> Back(a))
    /\ \A a \in ActionId : Sent(a) /\ ~Open(a) /\ ~Told(a) => Owns(a)

RunInv == prepared # {} => \A x \in submitted : Heard(x)

(***************************************************************************)
(* Clients are told last only with the flusher.                            *)
(***************************************************************************)
Secured == prepared = {} \/ (Flusher /\ submitted \subseteq Waited)

SecuredInv == Secured => FlowInv /\ BackInv /\ RunInv /\ NewRunIsClean

FollowedInv == Followed => FlowInv

-----------------------------------------------------------------------------
\* A function on 1 .. n is a sequence of length n.
LEMMA ListOf ==
    ASSUME NEW S, NEW n \in Nat, NEW f \in [1 .. n -> S]
    PROVE  f \in Seq(S) /\ Len(f) = n /\ DOMAIN f = 1 .. n /\ (f = <<>> <=> n = 0)
<1>1. f \in Seq(S) /\ Len(f) = n
  OBVIOUS
<1> QED
  BY <1>1, EmptySeq

\* The first n elements of a sequence.
LEMMA Prefix ==
    ASSUME NEW S, NEW w \in Seq(S), NEW n \in 0 .. Len(w), NEW g, g = SubSeq(w, 1, n)
    PROVE  /\ g \in Seq(S) /\ Len(g) = n /\ DOMAIN g = 1 .. n /\ (g = <<>> <=> n = 0)
           /\ \A i \in 1 .. n : g[i] = w[i]
<1>1. Len(w) \in Nat /\ n \in Nat
  BY LenProperties
<1>2. \A i \in 1 .. n : w[i] \in S
  BY <1>1, ElementOfSeq
<1>3. g \in Seq(S) /\ Len(g) = n /\ \A i \in 1 .. n : g[i] = w[i]
  BY <1>1, <1>2, SubSeqProperties
<1> QED
  BY <1>1, <1>3, LenProperties, EmptySeq

-----------------------------------------------------------------------------
\* Where an action of a flow is, and what it asks for.
LEMMA ActionFacts ==
    ASSUME NEW a \in ActionId
    PROVE  /\ a[1] \in Xct /\ a[2] \in DOMAIN Flow[a[1]] /\ a[3] \in DOMAIN Flow[a[1]][a[2]]
           /\ a = <<a[1], a[2], a[3]>> /\ a[2] \in Nat /\ a[3] \in Nat
           /\ XctOf[a] = a[1] /\ XctOf[a] \in Xct
           /\ Part(a) \in Partition /\ KeyOf(a) \in Key /\ Datum(a).dlm \in {SHARED, EXCL}
<1>1. PICK x \in Xct : \E i \in DOMAIN Flow[x] : \E j \in DOMAIN Flow[x][i] : a = <<x, i, j>>
  BY DEF ActionId
<1>2. PICK i \in DOMAIN Flow[x] : \E j \in DOMAIN Flow[x][i] : a = <<x, i, j>>
  BY <1>1
<1>3. PICK j \in DOMAIN Flow[x][i] : a = <<x, i, j>>
  BY <1>2
<1>4. a[1] = x /\ a[2] = i /\ a[3] = j
  BY <1>3
<1>5. PICK D : D = [part : Partition, key : Key, dlm : {SHARED, EXCL}]
  OBVIOUS
<1>6. Flow[x] \in Seq(Seq(D))
  BY <1>5, FlowAssumption
<1>7. i \in 1 .. Len(Flow[x]) /\ Flow[x][i] \in Seq(D)
  BY <1>6, ElementOfSeq, LenProperties
<1>8. j \in 1 .. Len(Flow[x][i]) /\ Flow[x][i][j] \in D
  BY <1>7, ElementOfSeq, LenProperties
<1>9. Datum(a) \in D
  BY <1>4, <1>8 DEF Datum
<1>10. Len(Flow[x]) \in Nat /\ Len(Flow[x][i]) \in Nat
  BY <1>6, <1>7, LenProperties
<1>11. i \in Nat /\ j \in Nat
  BY <1>7, <1>8, <1>10
<1> QED
  BY <1>3, <1>4, <1>5, <1>9, <1>11 DEF Part, KeyOf, XctOf

\* The actions of a phase.
LEMMA PhaseFacts ==
    ASSUME NEW x \in Xct, NEW i \in DOMAIN Flow[x]
    PROVE  /\ Len(Flow[x]) \in Nat /\ DOMAIN Flow[x] = 1 .. Len(Flow[x]) /\ i \in Nat /\ i > 0
           /\ Len(Flow[x][i]) \in Nat /\ Len(Flow[x][i]) > 0
           /\ DOMAIN Flow[x][i] = 1 .. Len(Flow[x][i])
           /\ \A j \in DOMAIN Flow[x][i] : <<x, i, j>> \in ActionId
<1>1. PICK D : D = [part : Partition, key : Key, dlm : {SHARED, EXCL}]
  OBVIOUS
<1>2. Flow[x] \in Seq(Seq(D)) /\ Flow[x][i] # <<>>
  BY <1>1, FlowAssumption
<1>3. i \in 1 .. Len(Flow[x]) /\ Flow[x][i] \in Seq(D)
  BY <1>2, ElementOfSeq, LenProperties
<1>4. \A j \in DOMAIN Flow[x][i] : <<x, i, j>> \in ActionId
  BY DEF ActionId
<1>5. Len(Flow[x]) \in Nat /\ DOMAIN Flow[x] = 1 .. Len(Flow[x])
  BY <1>2, LenProperties
<1>6. Len(Flow[x][i]) \in Nat /\ DOMAIN Flow[x][i] = 1 .. Len(Flow[x][i]) /\ Len(Flow[x][i]) # 0
  BY <1>2, <1>3, LenProperties, EmptySeq
<1> QED
  BY <1>3, <1>4, <1>5, <1>6

\* Two actions of a transaction on one key are the same.
LEMMA OneOnKey ==
    ASSUME NEW a \in ActionId, NEW b \in ActionId,
           XctOf[a] = XctOf[b], Part(a) = Part(b), KeyOf(a) = KeyOf(b)
    PROVE  a = b
  BY OneActionPerKey

-----------------------------------------------------------------------------
(***************************************************************************)
(* One lock of a partition.                                                *)
(***************************************************************************)
\* What LockManagerProofs assumes of actions and keys.
LEMMA LockConstants == L!ConstantsAssumption
<1>1. IsFiniteSet(Partition \X Key)
  BY FlowAssumption, FS_Product
<1>2. L!IsFiniteSet(Partition \X Key)
  BY <1>1 DEF L!IsFiniteSet, IsFiniteSet
<1>3. XctOf \in [ActionId -> Xct]
  BY ActionFacts DEF XctOf
<1>4. \A a \in ActionId : <<Part(a), KeyOf(a)>> \in Partition \X Key
  BY ActionFacts
<1>5. [a \in ActionId |-> {<<Part(a), KeyOf(a)>>}]
         \in [ActionId -> (SUBSET (Partition \X Key)) \ {{}}]
  BY <1>4
<1>6. \A a, b \in ActionId : a # b /\ XctOf[a] = XctOf[b] =>
         {<<Part(a), KeyOf(a)>>} \cap {<<Part(b), KeyOf(b)>>} = {}
  BY OneOnKey
<1> QED
  BY <1>2, <1>3, <1>5, <1>6 DEF L!ConstantsAssumption

\* The operators of LogicalLock are the same in both modules.
LEMMA SameLocks ==
    ASSUME NEW ll, NEW t, NEW r
    PROVE  /\ L!Promote(ll) = Promote(ll) /\ L!PromotedCount(ll) = PromotedCount(ll)
           /\ L!Release(ll, t) = Release(ll, t) /\ L!Acquire(ll, r) = Acquire(ll, r)
           /\ L!MustWait(ll, r) = MustWait(ll, r) /\ L!NewLock(r) = NewLock(r)
           /\ L!OwnedBy(ll, t) = OwnedBy(ll, t) /\ L!HeadCanAcquire(ll) = HeadCanAcquire(ll)
           /\ L!Lock(ActionId, Xct) = Lock(ActionId, Xct)
           /\ L!LockReq(ActionId, Xct) = LockReq(ActionId, Xct)
<1> USE DEF L!NOLOCK, L!SHARED, L!EXCL, NOLOCK, SHARED, EXCL, L!Compatible, Compatible
<1>1. L!HeadCanAcquire(ll) = HeadCanAcquire(ll) /\ L!OwnedBy(ll, t) = OwnedBy(ll, t)
  BY DEF L!HeadCanAcquire, HeadCanAcquire, L!OwnedBy, OwnedBy
<1>2. L!MustWait(ll, r) = MustWait(ll, r)
  BY DEF L!MustWait, MustWait, L!OwnedBy, OwnedBy
<1>3. L!Acquire(ll, r) = Acquire(ll, r)
  BY <1>2 DEF L!Acquire, Acquire, L!OwnedBy, OwnedBy
<1>4. L!NewLock(r) = NewLock(r)
  BY DEF L!NewLock, NewLock
<1>5. L!Lock(ActionId, Xct) = Lock(ActionId, Xct) /\ L!LockReq(ActionId, Xct) = LockReq(ActionId, Xct)
  BY DEF L!Lock, Lock, L!LockReq, LockReq, L!LockMode, LockMode
<1>6. \A m : L!PromotedCount(m) = PromotedCount(m) /\ L!Promote(m) = Promote(m)
  BY DEF L!Promote, Promote, L!PromotedCount, PromotedCount, L!DlmAfter, DlmAfter,
         L!Watermark, Watermark
<1>7. L!EraseOwner(ll, t) = EraseOwner(ll, t)
  BY DEF L!EraseOwner, EraseOwner, L!OwnedBy, OwnedBy
<1>8. \A o : L!Watermark(o) = Watermark(o)
  BY DEF L!Watermark, Watermark
<1>9. L!Release(ll, t) = Release(ll, t)
  BY <1>1, <1>6, <1>7, <1>8 DEF L!Release, Release
<1> QED
  BY <1>1, <1>2, <1>3, <1>4, <1>5, <1>6, <1>9

\* The request of an action.
LEMMA ReqFacts ==
    ASSUME NEW a \in ActionId
    PROVE  /\ L!Req(a) = Req(a) /\ Req(a) \in LockReq(ActionId, Xct) /\ Req(a).dlm # NOLOCK
           /\ Req(a).action = a /\ Req(a).tid = XctOf[a] /\ Req(a).dlm = Datum(a).dlm
           /\ EntryAt(Part(a), KeyOf(a), Req(a))
<1>1. Req(a) = [action |-> a, tid |-> XctOf[a], dlm |-> Datum(a).dlm]
  BY DEF Req
<1>2. L!Req(a) = Req(a)
  BY <1>1, ActionFacts DEF L!Req, L!SHARED, L!EXCL, SHARED, EXCL
<1>3. Req(a) \in LockReq(ActionId, Xct) /\ Req(a).dlm # NOLOCK
  BY <1>1, ActionFacts DEF LockReq, LockMode, NOLOCK, SHARED, EXCL
<1>4. Req(a).action = a /\ Req(a).tid = XctOf[a] /\ Req(a).dlm = Datum(a).dlm
  BY <1>1
<1> QED
  BY <1>2, <1>3, <1>4 DEF EntryAt

\* The lists of a lock, and who is on them.
LEMMA LockFacts ==
    ASSUME NEW p, NEW k, NEW ll, LockInv(p, k, ll)
    PROVE  /\ ll \in Lock(ActionId, Xct) /\ ll \in L!Lock(ActionId, Xct)
           /\ Len(ll.owners) \in Nat /\ DOMAIN ll.owners = 1 .. Len(ll.owners)
           /\ Len(ll.waiters) \in Nat /\ DOMAIN ll.waiters = 1 .. Len(ll.waiters)
           /\ \A b : L!Owns(ll, b) <=> Occurs(b, ll.owners)
           /\ \A b : L!Queues(ll, b) <=> Occurs(b, ll.waiters)
           /\ \A b : Occurs(b, ll.owners) =>
                 b \in ActionId /\ Part(b) = p /\ KeyOf(b) = k /\ ~Occurs(b, ll.waiters)
           /\ \A b : Occurs(b, ll.waiters) => b \in ActionId /\ Part(b) = p /\ KeyOf(b) = k
<1>1. ll \in L!Lock(ActionId, Xct)
  BY DEF LockInv, L!LockOK
<1>2. ll \in Lock(ActionId, Xct)
  BY <1>1, SameLocks
<1>3. /\ Len(ll.owners) \in Nat /\ DOMAIN ll.owners = 1 .. Len(ll.owners)
      /\ Len(ll.waiters) \in Nat /\ DOMAIN ll.waiters = 1 .. Len(ll.waiters)
  BY <1>2, LenProperties DEF Lock
<1>4. /\ \A b : L!Owns(ll, b) <=> Occurs(b, ll.owners)
      /\ \A b : L!Queues(ll, b) <=> Occurs(b, ll.waiters)
  BY DEF L!Owns, L!Queues, Occurs
<1>5. \A b : Occurs(b, ll.owners) =>
         b \in ActionId /\ Part(b) = p /\ KeyOf(b) = k /\ ~Occurs(b, ll.waiters)
  BY DEF LockInv, EntryAt, Occurs, L!OneEach
<1>6. \A b : Occurs(b, ll.waiters) => b \in ActionId /\ Part(b) = p /\ KeyOf(b) = k
  BY DEF LockInv, EntryAt, Occurs
<1> QED
  BY <1>1, <1>2, <1>3, <1>4, <1>5, <1>6

\* The owners of a transaction on a lock: its action on that key.
LEMMA OwnersOf ==
    ASSUME NEW a \in ActionId, NEW ll, LockInv(Part(a), KeyOf(a), ll)
    PROVE  /\ \A i \in OwnedBy(ll, XctOf[a]) : i \in DOMAIN ll.owners /\ ll.owners[i].action = a
           /\ OwnedBy(ll, XctOf[a]) = {} <=> ~Occurs(a, ll.owners)
<1>1. ASSUME NEW i \in DOMAIN ll.owners
      PROVE  ll.owners[i].tid = XctOf[a] <=> ll.owners[i].action = a
  <2>1. PICK r : r = ll.owners[i]
    OBVIOUS
  <2>2. r.action \in ActionId /\ r = Req(r.action) /\ Part(r.action) = Part(a)
        /\ KeyOf(r.action) = KeyOf(a)
    BY <2>1 DEF LockInv, EntryAt
  <2>3. r.tid = XctOf[r.action]
    BY <2>2, ReqFacts
  <2> QED
    BY <2>1, <2>2, <2>3, OneOnKey
<1> QED
  BY <1>1 DEF OwnedBy, Occurs

\* The first action on a key makes a lock and owns it.
LEMMA NewKey ==
    ASSUME NEW a \in ActionId, NEW ll, ll = NewLock(Req(a))
    PROVE  /\ LockInv(Part(a), KeyOf(a), ll)
           /\ \A b : Occurs(b, ll.owners) <=> b = a
           /\ \A b : ~Occurs(b, ll.waiters)
<1>1. ll = L!NewLock(L!Req(a))
  BY ReqFacts, SameLocks
<1>2. /\ L!LockOK(ll) /\ ~L!HeadCanAcquire(ll)
      /\ \A i \in DOMAIN ll.owners : ll.owners[i] = L!Req(a)
      /\ \A i \in DOMAIN ll.waiters : FALSE
  BY <1>1, L!NewLockSound, LockConstants
<1>3. ll.owners = <<Req(a)>> /\ ll.waiters = <<>>
  BY DEF NewLock
<1>4. /\ DOMAIN ll.owners = {1} /\ ll.owners[1] = Req(a) /\ DOMAIN ll.waiters = {}
  BY <1>3
<1>5. L!OneEach(ll)
  BY <1>4 DEF L!OneEach
<1>6. ~HeadCanAcquire(ll)
  BY <1>2, SameLocks
<1> QED
  BY <1>2, <1>4, <1>5, <1>6, ReqFacts DEF LockInv, Occurs

\* acquire() by an action that is not on the lock puts it in one of its lists.
LEMMA AcquireKey ==
    ASSUME NEW a \in ActionId, NEW ll, LockInv(Part(a), KeyOf(a), ll),
           ~Occurs(a, ll.owners), ~Occurs(a, ll.waiters),
           NEW after, after = Acquire(ll, Req(a))
    PROVE  /\ LockInv(Part(a), KeyOf(a), after)
           /\ \A b : Occurs(b, after.owners) <=>
                     Occurs(b, ll.owners) \/ (b = a /\ ~MustWait(ll, Req(a)))
           /\ \A b : Occurs(b, after.waiters) <=>
                     Occurs(b, ll.waiters) \/ (b = a /\ MustWait(ll, Req(a)))
<1>1. PICK r : r = Req(a)
  OBVIOUS
<1>2. /\ after = L!Acquire(ll, r) /\ MustWait(ll, r) = L!MustWait(ll, r)
      /\ r \in L!LockReq(ActionId, Xct) /\ r.dlm # L!NOLOCK
      /\ r.tid = XctOf[a] /\ r.action = a /\ EntryAt(Part(a), KeyOf(a), r)
  BY <1>1, SameLocks, ReqFacts DEF L!NOLOCK, NOLOCK
<1>3. L!OwnedBy(ll, r.tid) = {}
  BY <1>2, OwnersOf, SameLocks
<1>4. L!LockOK(ll) /\ ~L!HeadCanAcquire(ll) /\ ll \in L!Lock(ActionId, Xct) /\ L!OneEach(ll)
  BY SameLocks, LockFacts DEF LockInv
<1>a. r \in L!LockReq(ActionId, Xct) /\ r.dlm # L!NOLOCK
  BY <1>2
<1>b. L!LockOK(ll) /\ ~L!HeadCanAcquire(ll)
  BY <1>4
<1>5. /\ L!LockOK(after)
      /\ ~L!HeadCanAcquire(after)
      /\ \A i \in DOMAIN after.owners :
            after.owners[i] = r \/ \E j \in DOMAIN ll.owners : after.owners[i] = ll.owners[j]
      /\ \A i \in DOMAIN after.waiters :
            after.waiters[i] = r \/ \E j \in DOMAIN ll.waiters : after.waiters[i] = ll.waiters[j]
  <2>1. after = L!Acquire(ll, r)
    BY <1>2
  <2> QED
    BY <2>1, <1>a, <1>3, <1>b, L!AcquireSound, LockConstants
<1>6. LET after2 == L!Acquire(ll, r)
      IN  /\ \A b : L!Owns(after2, b) <=> L!Owns(ll, b) \/ (b = r.action /\ ~L!MustWait(ll, r))
          /\ \A b : L!Queues(after2, b) <=> L!Queues(ll, b) \/ (b = r.action /\ L!MustWait(ll, r))
          /\ L!OneEach(ll) /\ ~L!Owns(ll, r.action) /\ ~L!Queues(ll, r.action)
                => L!OneEach(after2)
  BY <1>2, <1>3, <1>4, L!AcquireAdds, LockConstants, Zenon
<1>7. \A b : (L!Owns(ll, b) <=> Occurs(b, ll.owners)) /\ (L!Queues(ll, b) <=> Occurs(b, ll.waiters))
  BY LockFacts
<1>8. L!OneEach(after)
  BY <1>2, <1>4, <1>6, <1>7
<1>9. /\ \A i \in DOMAIN after.owners : EntryAt(Part(a), KeyOf(a), after.owners[i])
      /\ \A i \in DOMAIN after.waiters : EntryAt(Part(a), KeyOf(a), after.waiters[i])
  BY <1>2, <1>5 DEF LockInv
<1>10. L!LockOK(after) /\ ~HeadCanAcquire(after)
  BY <1>2, <1>5, SameLocks
<1>11. LockInv(Part(a), KeyOf(a), after)
  BY <1>8, <1>9, <1>10 DEF LockInv
<1>12. \A b : (L!Owns(after, b) <=> Occurs(b, after.owners))
              /\ (L!Queues(after, b) <=> Occurs(b, after.waiters))
  BY <1>11, LockFacts
<1> QED
  BY <1>1, <1>2, <1>6, <1>7, <1>11, <1>12

\* A sound lock is left alone by the promotion loop.
LEMMA PromoteNone ==
    ASSUME NEW p, NEW k, NEW ll, LockInv(p, k, ll)
    PROVE  Promote(ll) = ll
<1>1. PICK R, o, w, n : R = LockReq(ActionId, Xct) /\ o = ll.owners /\ w = ll.waiters
                        /\ n = PromotedCount(ll)
  OBVIOUS
<1>2. /\ ll \in Lock(ActionId, Xct) /\ ll \in L!Lock(ActionId, Xct)
      /\ Len(w) \in Nat /\ o \in Seq(R) /\ w \in Seq(R)
      /\ ll = [dlm |-> ll.dlm, owners |-> o, waiters |-> w]
  BY <1>1, LockFacts DEF Lock
<1>3. LET m == L!PromotedCount(ll)
      IN  /\ m \in 0 .. Len(ll.waiters)
          /\ \A i \in 0 .. m - 1 : L!Compatible(L!DlmAfter(ll, i), ll.waiters[i + 1].dlm)
          /\ m < Len(ll.waiters) => ~L!Compatible(L!DlmAfter(ll, m), ll.waiters[m + 1].dlm)
  BY <1>2, L!PromotedCountSpec, LockConstants, Zenon
<1>4. L!PromotedCount(ll) = n
  BY <1>1, SameLocks
<1>5. n \in 0 .. Len(w) /\ \A i \in 0 .. n - 1 : L!Compatible(L!DlmAfter(ll, i), w[i + 1].dlm)
  BY <1>1, <1>3, <1>4
<1>6. n = 0
  <2> SUFFICES ASSUME n # 0 PROVE FALSE
    OBVIOUS
  <2>1. 0 \in 0 .. n - 1 /\ 0 + 1 = 1 /\ Len(w) # 0
    BY <1>2, <1>5
  <2>2. L!Compatible(L!DlmAfter(ll, 0), w[1].dlm)
    BY <1>5, <2>1
  <2>3. Compatible(ll.dlm, w[1].dlm)
    BY <2>2 DEF L!Compatible, Compatible, L!DlmAfter, L!NOLOCK, L!SHARED, NOLOCK, SHARED
  <2>4. w # <<>> /\ Head(w) = w[1]
    BY <1>2, <2>1, EmptySeq, HeadTailProperties
  <2> QED
    BY <1>1, <2>3, <2>4 DEF LockInv, HeadCanAcquire
<1>7. SubSeq(w, 1, 0) = <<>> /\ o \o <<>> = o /\ SubSeq(w, 0 + 1, Len(w)) = w
  <2>1. SubSeq(w, 1, 0) = <<>>
    BY <1>2, EmptySeq
  <2>2. o \o <<>> = o
    BY <1>2, ConcatEmptySeq
  <2>3. SubSeq(w, 1, Len(w)) = w
    BY <1>2, SubSeqFull
  <2> QED
    BY <2>1, <2>2, <2>3
<1>8. DlmAfter(ll, 0) = ll.dlm
  BY DEF DlmAfter
<1> QED
  BY <1>1, <1>2, <1>6, <1>7, <1>8 DEF Promote

(***************************************************************************)
(* The first n waiters of a lock are served, the others still wait; which  *)
(* ones release() promoted is read off the length of the list.             *)
(***************************************************************************)
ServedFirst(ll, n) == [i \in 1 .. n |-> ll.waiters[i].action]

LeftWaiting(ll, n, after) ==
    /\ n \in 0 .. Len(ll.waiters)
    /\ Len(after.waiters) = Len(ll.waiters) - n
    /\ DOMAIN after.waiters = 1 .. Len(ll.waiters) - n
    /\ \A i \in 1 .. Len(ll.waiters) - n : after.waiters[i] = ll.waiters[n + i]

Promoted(ll, after) == SubSeq(ll.waiters, 1, Len(ll.waiters) - Len(after.waiters))
ReadyOf(promoted)   == [i \in DOMAIN promoted |-> promoted[i].action]

\* The waiters that leave the queue of a lock are the first ones, once each.
LEMMA FirstWaiters ==
    ASSUME NEW p, NEW k, NEW ll, LockInv(p, k, ll), NEW n, NEW after, LeftWaiting(ll, n, after),
           NEW ready, ready = ServedFirst(ll, n)
    PROVE  /\ ready \in Seq(ActionId) /\ Home(p, ready) /\ Once(ready) /\ Len(ready) = n
           /\ \A b : Occurs(b, ll.waiters) <=> Occurs(b, after.waiters) \/ Has(ready, b)
           /\ \A b : Has(ready, b) => ~Occurs(b, after.waiters)
<1>1. PICK w, N, rest : w = ll.waiters /\ N = Len(w) /\ rest = after.waiters
  OBVIOUS
<1>2. N \in Nat /\ DOMAIN w = 1 .. N /\ n \in 0 .. N
  BY <1>1, LockFacts DEF LeftWaiting
<1>3. \A i \in 1 .. N : w[i].action \in ActionId /\ Part(w[i].action) = p
  BY <1>1, <1>2 DEF LockInv, EntryAt
<1>4. \A i, j \in 1 .. N : w[i].action = w[j].action => i = j
  BY <1>1, <1>2 DEF LockInv, L!OneEach
<1>5. DOMAIN ready = 1 .. n /\ \A i \in 1 .. n : ready[i] = w[i].action /\ i \in 1 .. N
  BY <1>1, <1>2 DEF ServedFirst
<1>6. ready \in Seq(ActionId) /\ Len(ready) = n
  <2>1. n \in Nat /\ \A i \in 1 .. n : w[i].action \in ActionId
    BY <1>2, <1>3, <1>5
  <2>2. ready = [i \in 1 .. n |-> w[i].action]
    BY <1>1 DEF ServedFirst
  <2>3. ready \in [1 .. n -> ActionId]
    BY <2>1, <2>2
  <2> QED
    BY <2>1, <2>3, ListOf
<1>7. Home(p, ready) /\ Once(ready)
  BY <1>3, <1>4, <1>5 DEF Home, Once
<1>8. /\ DOMAIN rest = 1 .. N - n
      /\ \A i \in 1 .. N - n : n + i \in 1 .. N /\ rest[i] = w[n + i] /\ n < n + i
  BY <1>1, <1>2 DEF LeftWaiting
<1>9. \A i \in 1 .. N : i \in 1 .. n \/ (i - n \in 1 .. N - n /\ n + (i - n) = i)
  BY <1>2
<1>10. ASSUME NEW b
       PROVE  Occurs(b, w) <=> Occurs(b, rest) \/ \E i \in DOMAIN ready : ready[i] = b
  <2>1. ASSUME NEW i \in 1 .. N, w[i].action = b
        PROVE  Occurs(b, rest) \/ \E j \in DOMAIN ready : ready[j] = b
    <3>1. CASE i \in 1 .. n
      BY <1>5, <2>1, <3>1
    <3>2. CASE i - n \in 1 .. N - n /\ n + (i - n) = i
      <4>1. rest[i - n] = w[i]
        BY <1>8, <3>2
      <4> QED
        BY <1>8, <2>1, <3>2, <4>1 DEF Occurs
    <3> QED
      BY <1>9, <3>1, <3>2
  <2>2. Occurs(b, rest) => Occurs(b, w)
    BY <1>2, <1>8 DEF Occurs
  <2>3. (\E j \in DOMAIN ready : ready[j] = b) => Occurs(b, w)
    BY <1>2, <1>5 DEF Occurs
  <2> QED
    BY <1>2, <2>1, <2>2, <2>3 DEF Occurs
<1>11. ASSUME NEW b, NEW i \in DOMAIN ready, ready[i] = b, Occurs(b, rest) PROVE FALSE
  <2>1. PICK j \in 1 .. N - n : rest[j].action = b
    BY <1>8, <1>11 DEF Occurs
  <2>2. i \in 1 .. N /\ n + j \in 1 .. N /\ w[i].action = w[n + j].action /\ i <= n /\ n < n + j
    BY <1>2, <1>5, <1>8, <1>11, <2>1
  <2>3. i = n + j
    BY <1>4, <2>2
  <2> QED
    BY <1>2, <2>1, <2>2, <2>3
<1> QED
  BY <1>1, <1>6, <1>7, <1>10, <1>11 DEF Has

\* release() by an action that does not wait takes it off the lock, and makes
\* the first waiters, none or more, owners.
LEMMA ReleaseTakes ==
    ASSUME NEW a \in ActionId, NEW ll, LockInv(Part(a), KeyOf(a), ll),
           ~Occurs(a, ll.waiters),
           NEW after, after = Release(ll, XctOf[a])
    PROVE  /\ LockInv(Part(a), KeyOf(a), after)
           /\ \E n : /\ LeftWaiting(ll, n, after)
                     /\ \A b : Occurs(b, after.owners) <=>
                              (b # a /\ Occurs(b, ll.owners)) \/ Has(ServedFirst(ll, n), b)
<1>1. PICK w, N, t : w = ll.waiters /\ N = Len(w) /\ t = XctOf[a]
  OBVIOUS
<1>2. /\ N \in Nat /\ DOMAIN w = 1 .. N
      /\ ll \in L!Lock(ActionId, Xct) /\ w \in Seq(LockReq(ActionId, Xct))
  BY <1>1, LockFacts DEF Lock
<1>3. L!LockOK(ll) /\ ~L!HeadCanAcquire(ll) /\ L!OneEach(ll) /\ after = L!Release(ll, t)
  BY <1>1, SameLocks DEF LockInv
<1>4. L!LockOK(after) /\ ~HeadCanAcquire(after) /\ L!NothingNew(after, ll)
  BY <1>3, L!ReleaseSound, LockConstants, SameLocks
<1>5. /\ \A i \in DOMAIN after.owners : EntryAt(Part(a), KeyOf(a), after.owners[i])
      /\ \A i \in DOMAIN after.waiters : EntryAt(Part(a), KeyOf(a), after.waiters[i])
  BY <1>4 DEF L!NothingNew, LockInv
<1>7. CASE OwnedBy(ll, t) = {}
  <2>1. after = ll
    BY <1>1, <1>7, PromoteNone DEF Release
  <2>2. LeftWaiting(ll, 0, after)
    BY <1>1, <1>2, <2>1 DEF LeftWaiting
  <2>a. \A b : ~Has(ServedFirst(ll, 0), b)
    BY DEF Has, ServedFirst
  <2>3. ~Occurs(a, ll.owners)
    BY <1>1, <1>7, OwnersOf
  <2>4. \A b : Occurs(b, after.owners) <=>
              (b # a /\ Occurs(b, ll.owners)) \/ Has(ServedFirst(ll, 0), b)
    BY <2>1, <2>a, <2>3
  <2> QED
    BY <2>1, <2>2, <2>4
<1>8. CASE OwnedBy(ll, t) # {}
  <2>1. L!OwnedBy(ll, t) # {} /\ \A i \in L!OwnedBy(ll, t) : ll.owners[i].action = a
    BY <1>1, <1>8, SameLocks, OwnersOf
  <2>2. PICK freed \in L!Lock(ActionId, Xct), n \in Nat :
           freed.waiters = ll.waiters /\ L!Moved(freed, L!Release(ll, t), n)
    <3>1. \E freed \in L!Lock(ActionId, Xct), i \in L!OwnedBy(ll, t), n \in Nat :
             /\ freed.waiters = ll.waiters
             /\ Len(freed.owners) = Len(ll.owners) - 1
             /\ \A k \in DOMAIN freed.owners :
                   freed.owners[k] = ll.owners[IF k < i THEN k ELSE k + 1]
             /\ L!Moved(freed, L!Release(ll, t), n)
      BY <1>3, <2>1, L!ReleaseMoves, LockConstants
    <3> QED
      BY <3>1
  <2>3. /\ n \in 0 .. N
        /\ DOMAIN after.owners = 1 .. Len(freed.owners) + n
        /\ \A i \in 1 .. Len(freed.owners) + n :
              after.owners[i] = IF i <= Len(freed.owners) THEN freed.owners[i]
                                                          ELSE w[i - Len(freed.owners)]
        /\ DOMAIN after.waiters = 1 .. N - n
        /\ \A i \in 1 .. N - n : after.waiters[i] = w[n + i]
    BY <1>1, <1>3, <2>2 DEF L!Moved
  <2>4. LET after2 == L!Release(ll, t)
        IN  /\ L!OneEach(after2)
            /\ ~L!Owns(after2, a) /\ ~L!Queues(after2, a)
            /\ \A b : b # a =>
                  (L!Owns(after2, b) \/ L!Queues(after2, b) <=> L!Owns(ll, b) \/ L!Queues(ll, b))
            /\ \A b : L!Queues(after2, b) => L!Queues(ll, b)
    BY <1>3, <2>1, L!ReleaseKeeps, LockConstants, Zenon
  <2>5. LockInv(Part(a), KeyOf(a), after)
    BY <1>3, <1>4, <1>5, <2>4 DEF LockInv
  <2>6. Len(after.waiters) = N - n
    <3>1. Len(after.waiters) \in Nat /\ DOMAIN after.waiters = 1 .. Len(after.waiters)
      BY <2>5, LockFacts
    <3>2. N - n \in Nat
      BY <1>2, <2>3
    <3>3. 1 .. Len(after.waiters) = 1 .. N - n
      BY <2>3, <3>1
    <3> QED
      BY <3>1, <3>2, <3>3
  <2>7. LeftWaiting(ll, n, after)
    BY <1>1, <2>3, <2>6 DEF LeftWaiting
  <2>8. \A b : Has(ServedFirst(ll, n), b) <=> \E i \in 1 .. n : w[i].action = b
    BY <1>1 DEF Has, ServedFirst
  <2>9. \A b : Occurs(b, ll.waiters) <=> Occurs(b, after.waiters) \/ Has(ServedFirst(ll, n), b)
    BY <2>7, FirstWaiters
  <2>10. \A b : Occurs(b, w) <=> Occurs(b, after.waiters) \/ \E i \in 1 .. n : w[i].action = b
    BY <1>1, <2>8, <2>9
  <2>11. \A b : (\E i \in 1 .. n : w[i].action = b) => Occurs(b, after.owners)
    <3> SUFFICES ASSUME NEW i \in 1 .. n PROVE Occurs(w[i].action, after.owners)
      OBVIOUS
    <3>1. PICK M, o : M = Len(freed.owners) /\ o = after.owners
      OBVIOUS
    <3>2. M \in Nat
      BY <2>2, <3>1, SameLocks, LenProperties DEF Lock
    <3>4. /\ DOMAIN o = 1 .. M + n
          /\ \A j \in 1 .. M + n : ~(j <= M) => o[j] = w[j - M]
      BY <2>3, <3>1
    <3>5. M + i \in DOMAIN o /\ o[M + i] = w[i]
      <4>1. PICK u : u = M + i
        OBVIOUS
      <4>2. u \in 1 .. M + n /\ ~(u <= M) /\ u - M = i
        BY <3>2, <4>1
      <4>3. u \in DOMAIN o /\ o[u] = w[u - M]
        BY <3>4, <4>2, Zenon
      <4> QED
        BY <4>1, <4>2, <4>3
    <3> QED
      BY <3>1, <3>5 DEF Occurs
  <2>12. /\ \A b : (L!Owns(ll, b) <=> Occurs(b, ll.owners)) /\ (L!Queues(ll, b) <=> Occurs(b, w))
         /\ \A b : Occurs(b, ll.owners) => ~Occurs(b, w)
    BY <1>1, LockFacts
  <2>13. /\ \A b : (L!Owns(after, b) <=> Occurs(b, after.owners))
                   /\ (L!Queues(after, b) <=> Occurs(b, after.waiters))
         /\ \A b : Occurs(b, after.owners) => ~Occurs(b, after.waiters)
    BY <2>5, LockFacts
  <2>14. /\ ~Occurs(a, after.owners)
         /\ \A b : b # a => (Occurs(b, after.owners) \/ Occurs(b, after.waiters)
                                <=> Occurs(b, ll.owners) \/ Occurs(b, w))
    BY <1>3, <2>4, <2>12, <2>13
  <2>15. \A b : Occurs(b, after.owners) <=>
                   (b # a /\ Occurs(b, ll.owners)) \/ \E i \in 1 .. n : w[i].action = b
    BY <2>10, <2>11, <2>12, <2>13, <2>14
  <2> QED
    BY <2>5, <2>7, <2>8, <2>15
<1> QED
  BY <1>7, <1>8

\* The waiters that release() promotes are ready, in their order.
LEMMA ReleaseKey ==
    ASSUME NEW a \in ActionId, NEW ll, LockInv(Part(a), KeyOf(a), ll),
           ~Occurs(a, ll.waiters),
           NEW after, after = Release(ll, XctOf[a])
    PROVE  LET promoted == Promoted(ll, after)
               ready    == ReadyOf(promoted)
           IN  /\ LockInv(Part(a), KeyOf(a), after)
               /\ ready \in Seq(ActionId) /\ Home(Part(a), ready) /\ Once(ready)
               /\ promoted = <<>> <=> ready = <<>>
               /\ \A b : Occurs(b, ll.waiters) <=> Occurs(b, after.waiters) \/ Has(ready, b)
               /\ \A b : Has(ready, b) => ~Occurs(b, after.waiters)
               /\ \A b : Occurs(b, after.owners) <=>
                         (b # a /\ Occurs(b, ll.owners)) \/ Has(ready, b)
<1>1. PICK n : /\ LeftWaiting(ll, n, after)
               /\ \A b : Occurs(b, after.owners) <=>
                         (b # a /\ Occurs(b, ll.owners)) \/ Has(ServedFirst(ll, n), b)
  BY ReleaseTakes
<1>2. LockInv(Part(a), KeyOf(a), after)
  BY ReleaseTakes
<1>3. PICK promoted, ready : promoted = Promoted(ll, after) /\ ready = ReadyOf(promoted)
  OBVIOUS
<1>4. PICK w : w = ll.waiters
  OBVIOUS
<1>5. w \in Seq(LockReq(ActionId, Xct)) /\ Len(w) \in Nat /\ n \in 0 .. Len(w)
  BY <1>1, <1>4, LockFacts DEF Lock, LeftWaiting
<1>6. promoted = SubSeq(w, 1, n)
  <2>1. Len(after.waiters) = Len(w) - n
    BY <1>1, <1>4 DEF LeftWaiting
  <2>2. \A N \in Nat : \A m \in 0 .. N : N - (N - m) = m
    OBVIOUS
  <2>3. Len(w) - Len(after.waiters) = n
    BY <1>5, <2>1, <2>2
  <2> QED
    BY <1>3, <1>4, <2>3 DEF Promoted
<1>7. /\ DOMAIN promoted = 1 .. n /\ (promoted = <<>> <=> n = 0)
      /\ \A i \in 1 .. n : promoted[i] = w[i]
  BY <1>5, <1>6, Prefix
<1>8. ready = ServedFirst(ll, n)
  <2>1. ready = [i \in DOMAIN promoted |-> promoted[i].action]
    BY <1>3 DEF ReadyOf
  <2>2. ready = [i \in 1 .. n |-> w[i].action]
    BY <1>7, <2>1
  <2> QED
    BY <1>4, <2>2 DEF ServedFirst
<1>9. /\ ready \in Seq(ActionId) /\ Home(Part(a), ready) /\ Once(ready) /\ Len(ready) = n
      /\ \A b : Occurs(b, ll.waiters) <=> Occurs(b, after.waiters) \/ Has(ready, b)
      /\ \A b : Has(ready, b) => ~Occurs(b, after.waiters)
  BY <1>1, <1>8, FirstWaiters
<1>10. ready = <<>> <=> n = 0
  BY <1>9, EmptySeq
<1> QED
  BY <1>1, <1>2, <1>3, <1>7, <1>8, <1>9, <1>10

\* A lock that is reset is sound, and nobody is on it.
LEMMA ResetKey ==
    ASSUME NEW p, NEW k
    PROVE  /\ LockInv(p, k, AbortAndReset)
           /\ \A b : ~Occurs(b, AbortAndReset.owners) /\ ~Occurs(b, AbortAndReset.waiters)
<1>1. PICK ll : ll = AbortAndReset
  OBVIOUS
<1>2. /\ ll = [dlm |-> NOLOCK, owners |-> <<>>, waiters |-> <<>>]
      /\ DOMAIN << >> = {} /\ Len(<< >>) = 0 /\ << >> \in Seq(L!LockReq(ActionId, Xct))
  BY <1>1 DEF AbortAndReset
<1>3. L!LockOK(ll)
  BY <1>2 DEF L!LockOK, L!Lock, L!AllLock, L!AllShared, L!LockMode, L!NOLOCK, NOLOCK
<1>4. ~HeadCanAcquire(ll) /\ L!OneEach(ll)
  BY <1>2 DEF HeadCanAcquire, L!OneEach
<1>5. /\ \A i \in DOMAIN ll.owners : FALSE
      /\ \A i \in DOMAIN ll.waiters : FALSE
  BY <1>2
<1> QED
  BY <1>1, <1>3, <1>4, <1>5 DEF LockInv, Occurs

-----------------------------------------------------------------------------
(***************************************************************************)
(* The actions of a rendezvous point: those of its phase and the ones      *)
(* before, each once.                                                      *)
(***************************************************************************)
\* Induction along the elements of a sequence.
LEMMA Along ==
    ASSUME NEW N \in Nat, NEW P, N > 0 => 1 \in P,
           \A i \in 1 .. N : i < N /\ i \in P => i + 1 \in P
    PROVE  \A i \in 1 .. N : i \in P
<1> SUFFICES ASSUME (1 .. N) \ P # {} PROVE FALSE
  OBVIOUS
<1>1. (1 .. N) \ P \in SUBSET Nat
  OBVIOUS
<1>2. PICK n \in (1 .. N) \ P : \A m \in (1 .. N) \ P : n <= m
  BY <1>1, L!LeastNatural, LockConstants
<1>3. CASE n = 1
  BY <1>2, <1>3
<1>4. CASE n # 1
  <2>1. n - 1 \in 1 .. N /\ n - 1 < N /\ ~(n <= n - 1) /\ n - 1 + 1 = n
    BY <1>2, <1>4
  <2>2. n - 1 \in P
    BY <1>2, <2>1
  <2> QED
    BY <1>2, <2>1, <2>2
<1> QED
  BY <1>3, <1>4

\* FlattenSeq concatenates from the left.
FromLeft(f, s, n) == /\ f[1] = s[1]
                     /\ \A i \in 1 .. n : i < n => f[i + 1] = f[i] \o s[i + 1]

\* What FlattenSeq returns, for sequences of the same elements.
LEMMA Flattened ==
    ASSUME NEW S, NEW N \in Nat, N > 0, NEW s \in [1 .. N -> Seq(S)]
    PROVE  \E f \in [1 .. N -> Seq(S)] : FromLeft(f, s, N) /\ FlattenSeq(s) = f[N]
<1> DEFINE Body(f, m) == [i \in 1 .. m |-> IF i = 1 THEN s[i] ELSE f[i - 1] \o s[i]]
           Defined == {m \in 1 .. N : \E f : f = Body(f, m)}
<1>1. Len(s) = N
  <2>1. N \in Nat /\ s \in [1 .. N -> Seq(S)]
    OBVIOUS
  <2> QED
    BY <2>1, ListOf
<1>2. 1 \in Defined
  <2>1. PICK f : f = [i \in 1 .. 1 |-> s[i]]
    OBVIOUS
  <2>2. f = Body(f, 1)
    BY <2>1
  <2>3. 1 \in 1 .. N
    OBVIOUS
  <2> QED
    BY <2>2, <2>3
<1>3. ASSUME NEW m \in 1 .. N, m < N, m \in Defined PROVE m + 1 \in Defined
  <2>1. PICK f : f = Body(f, m)
    BY <1>3
  <2>2. PICK g : g = [i \in 1 .. m + 1 |-> IF i <= m THEN f[i] ELSE f[m] \o s[m + 1]]
    OBVIOUS
  <2>3. ASSUME NEW i \in 1 .. m + 1 PROVE g[i] = IF i = 1 THEN s[i] ELSE g[i - 1] \o s[i]
    <3>1. CASE i = 1
      <4>1. i <= m /\ i \in 1 .. m
        BY <1>3, <3>1
      <4>2. f[i] = s[i]
        BY <2>1, <3>1, <4>1
      <4> QED
        BY <2>2, <3>1, <4>1, <4>2
    <3>2. CASE i # 1 /\ i <= m
      <4>1. i \in 1 .. m /\ i - 1 \in 1 .. m + 1 /\ i - 1 <= m
        BY <1>3, <3>2
      <4>2. f[i] = f[i - 1] \o s[i]
        BY <2>1, <3>2, <4>1
      <4>3. g[i] = f[i] /\ g[i - 1] = f[i - 1]
        BY <2>2, <3>2, <4>1
      <4> QED
        BY <3>2, <4>2, <4>3
    <3>3. CASE i # 1 /\ ~(i <= m)
      <4>1. i = m + 1 /\ i - 1 = m /\ m \in 1 .. m + 1 /\ m <= m
        BY <1>3, <3>3
      <4>2. g[i] = f[m] \o s[m + 1] /\ g[m] = f[m]
        BY <2>2, <3>3, <4>1
      <4> QED
        BY <3>3, <4>1, <4>2
    <3> QED
      BY <3>1, <3>2, <3>3
  <2>4. g = Body(g, m + 1)
    BY <2>2, <2>3
  <2>5. m + 1 \in 1 .. N
    BY <1>3
  <2> QED
    BY <2>4, <2>5
<1>4. N \in Defined
  <2>1. \A i \in 1 .. N : i \in Defined
    <3> HIDE DEF Defined
    <3> QED
      BY <1>2, <1>3, Along
  <2>2. N \in 1 .. N
    OBVIOUS
  <2> QED
    BY <2>1, <2>2, Zenon
<1>5. PICK f : f = [i \in 1 .. N |-> IF i = 1 THEN s[i] ELSE f[i - 1] \o s[i]]
               /\ FlattenSeq(s) = f[N]
  <2>1. PICK f : f = CHOOSE g : g = [i \in 1 .. Len(s) |->
                                        IF i = 1 THEN s[i] ELSE g[i - 1] \o s[i]]
    OBVIOUS
  <2>2. \E g : g = [i \in 1 .. Len(s) |-> IF i = 1 THEN s[i] ELSE g[i - 1] \o s[i]]
    BY <1>1, <1>4, Zenon
  <2>3. f = [i \in 1 .. Len(s) |-> IF i = 1 THEN s[i] ELSE f[i - 1] \o s[i]]
    BY <2>1, <2>2, Zenon
  <2>4. FlattenSeq(s) = f[Len(s)]
    BY <1>1, <2>1 DEF FlattenSeq
  <2> QED
    BY <1>1, <2>3, <2>4
<1>6. f[1] = s[1] /\ \A i \in 1 .. N : i < N => f[i + 1] = f[i] \o s[i + 1]
  <2>1. f[1] = s[1]
    BY <1>5
  <2>2. ASSUME NEW i \in 1 .. N, i < N PROVE f[i + 1] = f[i] \o s[i + 1]
    <3>1. PICK k : k = i + 1
      OBVIOUS
    <3>2. k \in 1 .. N /\ k # 1 /\ k - 1 = i
      BY <2>2, <3>1
    <3>3. f[k] = f[k - 1] \o s[k]
      BY <1>5, <3>2
    <3> QED
      BY <3>1, <3>2, <3>3
  <2> QED
    BY <2>1, <2>2
<1>7. \A i \in 1 .. N : i \in {j \in 1 .. N : f[j] \in Seq(S)}
  <2>1. 1 \in {j \in 1 .. N : f[j] \in Seq(S)}
    BY <1>6
  <2>2. ASSUME NEW i \in 1 .. N, i < N, f[i] \in Seq(S)
        PROVE  i + 1 \in {j \in 1 .. N : f[j] \in Seq(S)}
    <3>1. i + 1 \in 1 .. N
      BY <2>2
    <3>2. f[i] \o s[i + 1] \in Seq(S)
      BY <2>2, <3>1, ConcatProperties
    <3> QED
      BY <1>6, <2>2, <3>1, <3>2
  <2>3. PICK P : P = {j \in 1 .. N : f[j] \in Seq(S)}
    OBVIOUS
  <2>4. \A i \in 1 .. N : i < N /\ i \in P => i + 1 \in P
    BY <2>2, <2>3
  <2>5. 1 \in P
    BY <2>1, <2>3
  <2> QED
    BY <2>3, <2>4, <2>5, Along
<1>8. f \in [1 .. N -> Seq(S)]
  BY <1>5, <1>7
<1> QED
  BY <1>5, <1>6, <1>8 DEF FromLeft

\* The elements of a concatenation.
LEMMA ConcatHas ==
    ASSUME NEW S, NEW s \in Seq(S), NEW t \in Seq(S)
    PROVE  /\ \A b : Has(s \o t, b) <=> Has(s, b) \/ Has(t, b)
           /\ Once(s) /\ Once(t) /\ (\A b : ~(Has(s, b) /\ Has(t, b))) => Once(s \o t)
<1>1. PICK u, m, n : u = s \o t /\ m = Len(s) /\ n = Len(t)
  OBVIOUS
<1>2. /\ m \in Nat /\ n \in Nat /\ DOMAIN s = 1 .. m /\ DOMAIN t = 1 .. n /\ u \in Seq(S)
      /\ Len(u) = m + n
      /\ \A i \in 1 .. m + n : u[i] = IF i <= m THEN s[i] ELSE t[i - m]
  BY <1>1, LenProperties, ConcatProperties
<1>3. DOMAIN u = 1 .. m + n
  BY <1>2, LenProperties
<1>4. \A i \in 1 .. m : i \in 1 .. m + n /\ u[i] = s[i]
  BY <1>2
<1>5. ASSUME NEW j \in 1 .. n PROVE m + j \in 1 .. m + n /\ u[m + j] = t[j]
  <2>1. PICK i : i = m + j
    OBVIOUS
  <2>2. i \in 1 .. m + n /\ ~(i <= m) /\ i - m = j
    BY <1>2, <2>1
  <2> QED
    BY <1>2, <2>1, <2>2
<1>6. ASSUME NEW i \in 1 .. m + n
      PROVE  (i \in 1 .. m /\ u[i] = s[i]) \/ (i - m \in 1 .. n /\ u[i] = t[i - m] /\ ~(i <= m))
  BY <1>2
<1>7. ASSUME NEW b PROVE Has(u, b) <=> Has(s, b) \/ Has(t, b)
  <2>1. ASSUME Has(u, b) PROVE Has(s, b) \/ Has(t, b)
    <3>1. PICK i \in 1 .. m + n : u[i] = b
      BY <1>3, <2>1, Zenon DEF Has
    <3>2. \/ i \in DOMAIN s /\ s[i] = b
          \/ i - m \in DOMAIN t /\ t[i - m] = b
      BY <1>2, <1>6, <3>1, Zenon
    <3> QED
      BY <3>2, Zenon DEF Has
  <2>2. ASSUME Has(s, b) PROVE Has(u, b)
    <3>1. PICK i \in 1 .. m : s[i] = b
      BY <1>2, <2>2, Zenon DEF Has
    <3> QED
      BY <1>3, <1>4, <3>1, Zenon DEF Has
  <2>3. ASSUME Has(t, b) PROVE Has(u, b)
    <3>1. PICK j \in 1 .. n : t[j] = b
      BY <1>2, <2>3, Zenon DEF Has
    <3> QED
      BY <1>3, <1>5, <3>1, Zenon DEF Has
  <2> QED
    BY <2>1, <2>2, <2>3
<1>8. ASSUME Once(s), Once(t), \A b : ~(Has(s, b) /\ Has(t, b)),
             NEW i \in 1 .. m + n, NEW j \in 1 .. m + n, u[i] = u[j]
      PROVE  i = j
  <2>1. CASE i \in 1 .. m /\ j \in 1 .. m
    BY <1>2, <1>4, <1>8, <2>1 DEF Once
  <2>2. CASE ~(i \in 1 .. m) /\ ~(j \in 1 .. m)
    <3>1. i - m \in 1 .. n /\ j - m \in 1 .. n /\ t[i - m] = t[j - m]
      BY <1>6, <1>8, <2>2
    <3>2. i - m = j - m
      BY <1>2, <1>8, <3>1 DEF Once
    <3> QED
      BY <1>2, <3>2
  <2>3. CASE i \in 1 .. m /\ ~(j \in 1 .. m)
    <3>1. /\ i \in DOMAIN s /\ s[i] = u[i]
          /\ j - m \in DOMAIN t /\ t[j - m] = u[j]
      BY <1>2, <1>6, <2>3
    <3>2. Has(s, u[i]) /\ Has(t, u[j])
      BY <3>1 DEF Has
    <3> QED
      BY <1>8, <3>2
  <2>4. CASE ~(i \in 1 .. m) /\ j \in 1 .. m
    <3>1. /\ i - m \in DOMAIN t /\ t[i - m] = u[i]
          /\ j \in DOMAIN s /\ s[j] = u[j]
      BY <1>2, <1>6, <2>4
    <3>2. Has(t, u[i]) /\ Has(s, u[j])
      BY <3>1 DEF Has
    <3> QED
      BY <1>8, <3>2
  <2> QED
    BY <2>1, <2>2, <2>3, <2>4
<1> QED
  BY <1>1, <1>3, <1>7, <1>8 DEF Once

\* The list _actions of a rendezvous point.
LEMMA UpTo ==
    ASSUME NEW x \in Xct, NEW i \in DOMAIN Flow[x], NEW s, s = ActionsUpTo[x][i]
    PROVE  /\ s \in Seq(ActionId) /\ Len(s) \in Nat /\ Len(s) > 0 /\ DOMAIN s = 1 .. Len(s)
           /\ Once(s)
           /\ \A b : Has(s, b) <=> b \in ActionId /\ XctOf[b] = x /\ b[2] <= i
<1>1. PICK N : N = Len(Flow[x])
  OBVIOUS
<1>2. N \in Nat /\ DOMAIN Flow[x] = 1 .. N /\ i \in 1 .. N /\ i \in Nat /\ i > 0
  BY <1>1, PhaseFacts
<1>3. PICK q : q = [k \in 1 .. i |-> [j \in DOMAIN Flow[x][k] |-> <<x, k, j>>]]
  OBVIOUS
<1>4. s = FlattenSeq(q)
  BY <1>3 DEF ActionsUpTo
<1>5. ASSUME NEW k \in 1 .. i
      PROVE  /\ k \in DOMAIN Flow[x] /\ q[k] \in Seq(ActionId) /\ Once(q[k])
             /\ \A b : Has(q[k], b) <=> b \in ActionId /\ XctOf[b] = x /\ b[2] = k
             /\ q[k] # <<>>
  <2>1. k \in DOMAIN Flow[x]
    BY <1>2
  <2>2. /\ Len(Flow[x][k]) \in Nat /\ Len(Flow[x][k]) > 0
        /\ DOMAIN Flow[x][k] = 1 .. Len(Flow[x][k])
        /\ \A j \in DOMAIN Flow[x][k] : <<x, k, j>> \in ActionId
    BY <2>1, PhaseFacts
  <2>3. PICK n, f : n = Len(Flow[x][k]) /\ f = q[k]
    OBVIOUS
  <2>4. f = [j \in 1 .. n |-> <<x, k, j>>] /\ n \in Nat /\ n > 0
    BY <1>3, <2>2, <2>3
  <2>5. f \in [1 .. n -> ActionId]
    BY <2>2, <2>3, <2>4
  <2>6. f \in Seq(ActionId) /\ DOMAIN f = 1 .. n /\ f # <<>>
    <3>1. n \in Nat /\ n # 0
      BY <2>4
    <3> QED
      BY <2>5, <3>1, ListOf, Zenon
  <2>7. Once(f)
    BY <2>4 DEF Once
  <2>8. ASSUME NEW b PROVE Has(f, b) <=> b \in ActionId /\ XctOf[b] = x /\ b[2] = k
    <3>1. ASSUME NEW j \in 1 .. n PROVE /\ f[j] \in ActionId
                                        /\ XctOf[f[j]] = x /\ f[j][2] = k
      BY <2>2, <2>3, <2>4 DEF XctOf
    <3>2. ASSUME b \in ActionId, XctOf[b] = x, b[2] = k PROVE Has(f, b)
      <4>1. b = <<x, k, b[3]>> /\ b[3] \in 1 .. n
        BY <2>2, <2>3, <3>2, ActionFacts
      <4> QED
        BY <2>4, <4>1 DEF Has
    <3> QED
      BY <2>6, <3>1, <3>2 DEF Has
  <2> QED
    BY <2>1, <2>3, <2>6, <2>7, <2>8
<1>6. q \in [1 .. i -> Seq(ActionId)]
  BY <1>3, <1>5
<1>7. PICK f \in [1 .. i -> Seq(ActionId)] :
         /\ f[1] = q[1] /\ \A k \in 1 .. i : k < i => f[k + 1] = f[k] \o q[k + 1]
         /\ FlattenSeq(q) = f[i]
  <2>1. i \in Nat /\ i > 0
    BY <1>2
  <2>2. PICK f \in [1 .. i -> Seq(ActionId)] : FromLeft(f, q, i) /\ FlattenSeq(q) = f[i]
    BY <1>6, <2>1, Flattened
  <2> QED
    BY <2>2 DEF FromLeft
<1> DEFINE Good(k) == /\ f[k] # <<>> /\ Once(f[k])
                      /\ \A b : Has(f[k], b) <=> b \in ActionId /\ XctOf[b] = x /\ b[2] <= k
<1>8. Good(1)
  <2>1. \A b \in ActionId : XctOf[b] = x => (b[2] = 1 <=> b[2] <= 1)
    BY <1>2, ActionFacts
  <2>2. 1 \in 1 .. i
    BY <1>2
  <2> QED
    BY <1>5, <1>7, <2>1, <2>2
<1>9. ASSUME NEW k \in 1 .. i, k < i, Good(k) PROVE Good(k + 1) /\ k + 1 \in 1 .. i
  <2>1. k + 1 \in 1 .. i /\ k \in Nat
    BY <1>2, <1>9
  <2>2. PICK u, v : u = f[k] /\ v = q[k + 1]
    OBVIOUS
  <2>3. /\ u \in Seq(ActionId) /\ v \in Seq(ActionId) /\ u # <<>> /\ Once(u) /\ Once(v)
        /\ \A b : Has(u, b) <=> b \in ActionId /\ XctOf[b] = x /\ b[2] <= k
        /\ \A b : Has(v, b) <=> b \in ActionId /\ XctOf[b] = x /\ b[2] = k + 1
    BY <1>5, <1>7, <1>9, <2>1, <2>2
  <2>4. \A b \in ActionId : /\ b[2] \in Nat /\ ~(b[2] <= k /\ b[2] = k + 1)
                            /\ (b[2] <= k + 1 <=> b[2] <= k \/ b[2] = k + 1)
    BY <2>1, ActionFacts
  <2>5. /\ \A b : Has(u \o v, b) <=> b \in ActionId /\ XctOf[b] = x /\ b[2] <= k + 1
        /\ Once(u \o v)
    BY <2>3, <2>4, ConcatHas
  <2>6. u \o v # <<>>
    BY <2>3, ConcatEqualIffEmpty
  <2>7. f[k + 1] = u \o v
    BY <1>7, <1>9, <2>2
  <2> QED
    BY <2>1, <2>5, <2>6, <2>7
<1>10. Good(i)
  <2>1. PICK P : P = {k \in 1 .. i : Good(k)}
    OBVIOUS
  <2> HIDE DEF Good
  <2>2. 1 \in P
    BY <1>2, <1>8, <2>1
  <2>3. \A k \in 1 .. i : k < i /\ k \in P => k + 1 \in P
    BY <1>9, <2>1
  <2>4. \A k \in 1 .. i : k \in P
    BY <1>2, <2>2, <2>3, Along
  <2>5. i \in 1 .. i
    BY <1>2
  <2> QED
    BY <2>1, <2>4, <2>5
<1>11. s = f[i] /\ s \in Seq(ActionId)
  <2>1. i \in 1 .. i
    BY <1>2
  <2> QED
    BY <1>4, <1>7, <2>1
<1>12. Len(s) \in Nat /\ Len(s) > 0 /\ DOMAIN s = 1 .. Len(s)
  BY <1>10, <1>11, LenProperties, EmptySeq
<1> QED
  BY <1>10, <1>11, <1>12

-----------------------------------------------------------------------------
(***************************************************************************)
(* What the invariant says of one worker and of one rendezvous point.      *)
(***************************************************************************)
\* The actions a worker has in hand.
Hand(w, a) == \E i \in DOMAIN w.ready : /\ w.ready[i] = a
                                        /\ i = 1 => w.pc \in {"serve", "post"}

\* A worker in the middle of its loop has an action in hand, the first of its list.
LEMMA HandFacts ==
    ASSUME NEW p, NEW w \in WorkerType, WorkerInv(p, w), w.pc \notin {"drain", "loop"}
    PROVE  /\ Head(w.ready) \in ActionId /\ Part(Head(w.ready)) = p
           /\ Has(w.ready, Head(w.ready)) /\ Len(w.ready) \in Nat /\ Len(w.ready) > 0
           /\ w.pc \in {"serve", "post"} => \A a : Hand(w, a) <=> Has(w.ready, a)
           /\ w.pc \notin {"serve", "post"} =>
                 \A a : Hand(w, a) <=> Has(w.ready, a) /\ a # Head(w.ready)
<1>1. PICK r : r = w.ready
  OBVIOUS
<1>2. r \in Seq(ActionId) /\ r # <<>> /\ Home(p, r) /\ Once(r)
  BY <1>1 DEF WorkerType, WorkerInv
<1>3. Len(r) \in Nat /\ DOMAIN r = 1 .. Len(r) /\ Len(r) > 0 /\ Head(r) = r[1] /\ 1 \in DOMAIN r
  BY <1>2, LenProperties, EmptySeq
<1>4. r[1] \in ActionId
  BY <1>2, <1>3, ElementOfSeq
<1>5. \A i \in DOMAIN r : i = 1 <=> r[i] = Head(r)
  BY <1>2, <1>3 DEF Once
<1> QED
  BY <1>1, <1>2, <1>3, <1>4, <1>5 DEF Hand, Has, Home

\* The next action is served, and the one served before leaves the hands.
LEMMA NextServed ==
    ASSUME NEW p, NEW w \in WorkerType, WorkerInv(p, w), w.pc \notin {"drain", "loop"},
           NEW q, NEW w2, w2 = AfterServing(w, q)
    PROVE  /\ w2 \in WorkerType /\ WorkerInv(p, w2) /\ w2.pc \in {"drain", "loop", "serve"}
           /\ \A a : Hand(w2, a) <=> Has(w.ready, a) /\ a # Head(w.ready)
<1>1. PICK r, t : r = w.ready /\ t = Tail(r)
  OBVIOUS
<1>2. r \in Seq(ActionId) /\ r # <<>> /\ Home(p, r) /\ Once(r)
  BY <1>1 DEF WorkerType, WorkerInv
<1>3. /\ Len(r) \in Nat /\ DOMAIN r = 1 .. Len(r) /\ Len(r) > 0 /\ Head(r) = r[1]
      /\ t \in Seq(ActionId) /\ Len(t) = Len(r) - 1 /\ DOMAIN t = 1 .. Len(t)
      /\ \A i \in 1 .. Len(t) : t[i] = r[i + 1]
  BY <1>1, <1>2, LenProperties, EmptySeq, HeadTailProperties
<1>4. w2.ready = t /\ w2.error = FALSE
      /\ w2 = [pc |-> w2.pc, ready |-> w2.ready, error |-> w2.error]
      /\ w2.pc = IF Len(r) > 1 THEN "serve" ELSE Top(q)
  BY <1>1 DEF AfterServing
<1>5. t = <<>> <=> ~(Len(r) > 1)
  <2>1. t = <<>> <=> Len(t) = 0
    BY <1>3, EmptySeq
  <2> QED
    BY <1>3, <2>1
<1>6. w2.pc \in {"drain", "loop", "serve"} /\ (w2.pc \in {"drain", "loop"} <=> t = <<>>)
  BY <1>4, <1>5 DEF Top
<1>7. \A i \in 1 .. Len(t) : i + 1 \in DOMAIN r /\ i + 1 # 1 /\ i \in Nat
  BY <1>3
<1>8. Home(p, t) /\ Once(t)
  <2>1. Home(p, t)
    BY <1>2, <1>3, <1>7 DEF Home
  <2>2. ASSUME NEW i \in 1 .. Len(t), NEW j \in 1 .. Len(t), t[i] = t[j] PROVE i = j
    <3>1. PICK k, l : k = i + 1 /\ l = j + 1
      OBVIOUS
    <3>2. k \in DOMAIN r /\ l \in DOMAIN r /\ r[k] = r[l]
      BY <1>3, <1>7, <2>2, <3>1
    <3>3. k = l
      BY <1>2, <3>2 DEF Once
    <3> QED
      BY <1>7, <3>1, <3>3
  <2> QED
    BY <1>3, <2>1, <2>2 DEF Once
<1>9. ASSUME NEW a PROVE Has(t, a) <=> Has(r, a) /\ a # Head(r)
  <2>1. ASSUME NEW i \in 1 .. Len(t), t[i] = a PROVE Has(r, a) /\ a # Head(r)
    BY <1>2, <1>3, <1>7, <2>1 DEF Has, Once
  <2>2. ASSUME NEW i \in DOMAIN r, r[i] = a, a # Head(r) PROVE Has(t, a)
    <3>1. i # 1
      BY <1>3, <2>2
    <3>2. i - 1 \in 1 .. Len(t) /\ i - 1 + 1 = i
      BY <1>3, <3>1
    <3>3. t[i - 1] = a
      BY <1>3, <2>2, <3>2
    <3> QED
      BY <1>3, <3>2, <3>3 DEF Has
  <2> QED
    BY <1>3, <2>1, <2>2 DEF Has
<1>10. \A a : Hand(w2, a) <=> Has(t, a)
  BY <1>4, <1>6 DEF Hand, Has
<1>11. w2 \in WorkerType
  BY <1>3, <1>4, <1>6 DEF WorkerType
<1> QED
  BY <1>1, <1>4, <1>6, <1>8, <1>9, <1>10, <1>11 DEF WorkerInv

\* The worker of a partition, and the transaction it serves.
LEMMA WorkerFacts ==
    ASSUME FlowInv, NEW p \in Partition
    PROVE  /\ worker[p] \in WorkerType /\ WorkerInv(p, worker[p])
           /\ \A a \in ActionId : Part(a) = p => (InHand(a) <=> Hand(worker[p], a))
           /\ worker[p].pc \notin {"drain", "loop"} =>
                 /\ Served(p) \in ActionId /\ Part(Served(p)) = p
                 /\ Serving(p) \in Xct /\ Serving(p) = XctOf[Served(p)]
           /\ worker[p].pc \in {"serve", "post"} => InHand(Served(p))
<1>1. worker[p] \in WorkerType /\ WorkerInv(p, worker[p])
  BY DEF FlowInv, QueueTypes, QueueInv
<1>2. \A a \in ActionId : Part(a) = p => (InHand(a) <=> Hand(worker[p], a))
  BY DEF InHand, Hand
<1>3. worker[p].pc \notin {"drain", "loop"} =>
         /\ Served(p) \in ActionId /\ Part(Served(p)) = p
         /\ Serving(p) \in Xct /\ Serving(p) = XctOf[Served(p)]
  BY <1>1, HandFacts, ActionFacts DEF Served, Serving
<1>4. worker[p].pc \in {"serve", "post"} => InHand(Served(p))
  <2> SUFFICES ASSUME worker[p].pc \in {"serve", "post"} PROVE InHand(Served(p))
    OBVIOUS
  <2>1. worker[p].pc \notin {"drain", "loop"}
    OBVIOUS
  <2>2. Hand(worker[p], Served(p))
    BY <1>1, <2>1, HandFacts DEF Served
  <2> QED
    BY <1>2, <1>3, <2>1, <2>2
<1> QED
  BY <1>1, <1>2, <1>3, <1>4

\* The rendezvous point of a transaction.
LEMMA RvpFacts ==
    ASSUME FlowInv, NEW x \in Xct
    PROVE  /\ rvp[x] \in [phase : Nat, sent : Nat, left : Nat, aborted : BOOLEAN,
                          outcome : Outcome, told : Nat]
           /\ rvp[x].phase \in DOMAIN Flow[x] /\ rvp[x].phase \in Nat /\ rvp[x].phase > 0
           /\ rvp[x].phase <= Len(Flow[x]) /\ Len(Flow[x]) \in Nat
           /\ DOMAIN Flow[x] = 1 .. Len(Flow[x])
           /\ rvp[x].sent \in 0 .. Len(Flow[x][rvp[x].phase])
           /\ Len(Flow[x][rvp[x].phase]) \in Nat /\ Len(Flow[x][rvp[x].phase]) > 0
           /\ DOMAIN Flow[x][rvp[x].phase] = 1 .. Len(Flow[x][rvp[x].phase])
<1>1. /\ rvp[x] \in [phase : Nat, sent : Nat, left : Nat, aborted : BOOLEAN,
                     outcome : Outcome, told : Nat]
      /\ rvp[x].phase \in DOMAIN Flow[x] /\ rvp[x].sent <= Len(Flow[x][rvp[x].phase])
  BY DEF FlowInv, RvpTypes, RvpType
<1>2. rvp[x].sent \in Nat
  BY <1>1
<1> QED
  BY <1>1, <1>2, PhaseFacts

\* An action that has yet to post keeps its transaction open.
LEMMA TodoFacts ==
    ASSUME FlowInv, NEW a \in ActionId
    PROVE  /\ Current(a) => (Todo(a) <=> a[3] \in ToPost(XctOf[a]))
           /\ Current(a) /\ Todo(a) => Open(a) /\ rvp[XctOf[a]].left > 0
           /\ Queued(a) \/ Waits(a) \/ InHand(a) => Todo(a) /\ Sent(a) /\ Current(a) /\ Open(a)
<1>1. PICK x : x = XctOf[a]
  OBVIOUS
<1>2. /\ x \in Xct /\ a = <<x, a[2], a[3]>> /\ a[2] \in DOMAIN Flow[x]
      /\ a[3] \in DOMAIN Flow[x][a[2]]
  BY <1>1, ActionFacts
<1>3. Current(a) => (Todo(a) <=> a[3] \in ToPost(x))
  BY <1>1, <1>2 DEF Current, ToPost
<1>4. Current(a) /\ Todo(a) => Open(a) /\ rvp[x].left > 0
  <2> SUFFICES ASSUME Current(a), Todo(a) PROVE Open(a) /\ rvp[x].left > 0
    OBVIOUS
  <2>1. ToPost(x) # {} /\ rvp[x].left = Cardinality(ToPost(x)) /\ rvp[x].outcome = "none"
    BY <1>2, <1>3 DEF FlowInv, CountInv
  <2>2. ToPost(x) \subseteq 1 .. Len(Flow[x][rvp[x].phase])
    BY <1>2, RvpFacts DEF ToPost
  <2>3. IsFiniteSet(ToPost(x))
    <3>1. Len(Flow[x][rvp[x].phase]) \in Int /\ 1 \in Int
      BY <1>2, RvpFacts
    <3> QED
      BY <2>2, <3>1, FS_Interval, FS_Subset
  <2>4. Cardinality(ToPost(x)) \in Nat /\ Cardinality(ToPost(x)) # 0
    BY <2>1, <2>3, FS_CardinalityType, FS_EmptySet
  <2> QED
    BY <1>1, <2>1, <2>4 DEF Open
<1>5. Queued(a) \/ Waits(a) \/ InHand(a) => Todo(a) /\ Sent(a) /\ Current(a) /\ Open(a)
  BY DEF FlowInv, PlaceInv, Todo
<1> QED
  BY <1>1, <1>3, <1>4, <1>5

-----------------------------------------------------------------------------
\* push() puts an element behind the others.
LEMMA Pushed ==
    ASSUME NEW S, NEW s \in Seq(S), NEW b \in S, NEW p
    PROVE  /\ Append(s, b) \in Seq(S) /\ Append(s, b) # <<>>
           /\ \A c : Has(Append(s, b), c) <=> Has(s, c) \/ c = b
           /\ Home(p, s) /\ Part(b) = p => Home(p, Append(s, b))
           /\ Once(s) /\ ~Has(s, b) => Once(Append(s, b))
<1>1. PICK n, s2 : n = Len(s) /\ s2 = Append(s, b)
  OBVIOUS
<1>2. /\ n \in Nat /\ DOMAIN s = 1 .. n /\ s2 \in Seq(S) /\ s2 # <<>> /\ DOMAIN s2 = 1 .. n + 1
      /\ s2[n + 1] = b /\ \A i \in 1 .. n : s2[i] = s[i]
  BY <1>1, LenProperties, AppendProperties
<1>3. \A i \in 1 .. n + 1 : i \in 1 .. n \/ i = n + 1
  BY <1>2
<1>4. \A i \in 1 .. n : i \in 1 .. n + 1 /\ i # n + 1
  BY <1>2
<1>5. n + 1 \in 1 .. n + 1
  BY <1>2
<1>6. \A c : Has(s2, c) <=> Has(s, c) \/ c = b
  BY <1>2, <1>3, <1>4, <1>5 DEF Has
<1>7. Home(p, s) /\ Part(b) = p => Home(p, s2)
  BY <1>2, <1>3 DEF Home
<1>8. Once(s) /\ ~Has(s, b) => Once(s2)
  BY <1>2, <1>3 DEF Once, Has
<1> QED
  BY <1>1, <1>2, <1>6, <1>7, <1>8

\* pop() takes the first element.
LEMMA Popped ==
    ASSUME NEW S, NEW s \in Seq(S), s # <<>>, NEW p
    PROVE  /\ Tail(s) \in Seq(S) /\ Head(s) \in S /\ Has(s, Head(s))
           /\ \A c : Has(s, c) <=> c = Head(s) \/ Has(Tail(s), c)
           /\ Home(p, s) => Home(p, Tail(s)) /\ Part(Head(s)) = p
           /\ Once(s) => Once(Tail(s)) /\ ~Has(Tail(s), Head(s))
<1>1. PICK n, t : n = Len(s) /\ t = Tail(s)
  OBVIOUS
<1>2. /\ n \in Nat /\ n > 0 /\ DOMAIN s = 1 .. n /\ Head(s) = s[1] /\ s[1] \in S
      /\ t \in Seq(S) /\ DOMAIN t = 1 .. n - 1 /\ \A i \in 1 .. n - 1 : t[i] = s[i + 1]
  BY <1>1, LenProperties, EmptySeq, HeadTailProperties, ElementOfSeq
<1>3. \A i \in 1 .. n - 1 : i + 1 \in 1 .. n /\ i + 1 # 1 /\ i \in Nat
  BY <1>2
<1>4. \A i \in 1 .. n : i # 1 => i - 1 \in 1 .. n - 1 /\ i - 1 + 1 = i
  BY <1>2
<1>5. 1 \in 1 .. n
  BY <1>2
<1>6. \A i \in 1 .. n : i # 1 => t[i - 1] = s[i]
  BY <1>2, <1>4
<1>7. \A c : Has(s, c) <=> c = s[1] \/ Has(t, c)
  <2> SUFFICES ASSUME NEW c PROVE Has(s, c) <=> c = s[1] \/ Has(t, c)
    OBVIOUS
  <2>1. ASSUME NEW i \in 1 .. n, s[i] = c, c # s[1] PROVE Has(t, c)
    <3>1. i - 1 \in DOMAIN t /\ t[i - 1] = c
      BY <1>2, <1>4, <1>6, <2>1
    <3> QED
      BY <3>1 DEF Has
  <2>2. ASSUME NEW i \in 1 .. n - 1, t[i] = c PROVE Has(s, c)
    <3>1. i + 1 \in DOMAIN s /\ s[i + 1] = c
      BY <1>2, <1>3, <2>2
    <3> QED
      BY <3>1 DEF Has
  <2>3. c = s[1] => Has(s, c)
    BY <1>2, <1>5 DEF Has
  <2>4. /\ Has(s, c) <=> \E i \in 1 .. n : s[i] = c
        /\ Has(t, c) <=> \E i \in 1 .. n - 1 : t[i] = c
    BY <1>2 DEF Has
  <2> QED
    BY <2>1, <2>2, <2>3, <2>4
<1>8. Home(p, s) => Home(p, t) /\ Part(s[1]) = p
  BY <1>2, <1>3, <1>5 DEF Home
<1>9. ASSUME Once(s) PROVE Once(t) /\ ~Has(t, s[1])
  <2>1. ASSUME NEW i \in 1 .. n - 1, NEW j \in 1 .. n - 1, t[i] = t[j] PROVE i = j
    <3>1. PICK k, l : k = i + 1 /\ l = j + 1
      OBVIOUS
    <3>2. k \in DOMAIN s /\ l \in DOMAIN s /\ s[k] = s[l]
      BY <1>2, <1>3, <2>1, <3>1
    <3>3. k = l
      BY <1>9, <3>2 DEF Once
    <3> QED
      BY <1>3, <3>1, <3>3
  <2>2. ASSUME NEW i \in 1 .. n - 1, t[i] = s[1] PROVE FALSE
    <3>1. PICK k : k = i + 1
      OBVIOUS
    <3>2. k \in DOMAIN s /\ 1 \in DOMAIN s /\ s[k] = s[1] /\ k # 1
      BY <1>2, <1>3, <1>5, <2>2, <3>1
    <3> QED
      BY <1>9, <3>2 DEF Once
  <2> QED
    BY <1>2, <2>1, <2>2 DEF Once, Has
<1>10. Has(s, s[1])
  BY <1>7
<1> QED
  BY <1>1, <1>2, <1>7, <1>8, <1>9, <1>10

\* A partition gets an action in one of its queues.
Grown(q, b, q2) ==
    /\ q2 \in [Partition -> Seq(ActionId)]
    /\ \A p \in Partition : Home(p, q2[p])
    /\ \A c \in ActionId : Has(q2[Part(c)], c) <=> Has(q[Part(c)], c) \/ c = b
    /\ ~Has(q[Part(b)], b) /\ (\A p \in Partition : Once(q[p])) =>
          \A p \in Partition : Once(q2[p])

\* An action pushed to the queue of its partition is there, and nothing else changed.
LEMMA PushedAt ==
    ASSUME NEW q \in [Partition -> Seq(ActionId)], NEW b \in ActionId,
           \A p \in Partition : Home(p, q[p]),
           NEW q2, q2 = [q EXCEPT ![Part(b)] = Append(q[Part(b)], b)]
    PROVE  Grown(q, b, q2)
<1>1. PICK P, s : P = Part(b) /\ s = q[P]
  OBVIOUS
<1>2. P \in Partition /\ s \in Seq(ActionId)
  BY <1>1, ActionFacts
<1>3. /\ Append(s, b) \in Seq(ActionId) /\ Append(s, b) # <<>>
      /\ \A c : Has(Append(s, b), c) <=> Has(s, c) \/ c = b
      /\ Home(P, s) /\ Part(b) = P => Home(P, Append(s, b))
      /\ Once(s) /\ ~Has(s, b) => Once(Append(s, b))
  BY <1>2, Pushed, Zenon
<1>4. q2 \in [Partition -> Seq(ActionId)] /\ q2[P] = Append(s, b)
      /\ \A p \in Partition : p # P => q2[p] = q[p]
  BY <1>1, <1>2, <1>3
<1>5. \A p \in Partition : Home(p, q2[p])
  BY <1>1, <1>2, <1>3, <1>4
<1>6. \A c \in ActionId : Has(q2[Part(c)], c) <=> Has(q[Part(c)], c) \/ c = b
  BY <1>1, <1>3, <1>4, ActionFacts
<1>7. ~Has(q[Part(b)], b) /\ (\A p \in Partition : Once(q[p])) =>
         \A p \in Partition : Once(q2[p])
  BY <1>1, <1>2, <1>3, <1>4
<1> QED
  BY <1>4, <1>5, <1>6, <1>7 DEF Grown

-----------------------------------------------------------------------------
(***************************************************************************)
(* The steps, one by one: which actions they move, and where to.           *)
(***************************************************************************)
\* Where an action is depends on the queues and locks of its partition.
LEMMA Unmoved ==
    ASSUME NEW a
    PROVE  /\ inq' = inq => (Queued(a)' <=> Queued(a))
           /\ commitq' = commitq => (Back(a)' <=> Back(a))
           /\ worker' = worker => (InHand(a)' <=> InHand(a))
           /\ locks' = locks => /\ Waits(a)' <=> Waits(a)
                                /\ Owns(a)' <=> Owns(a)
                                /\ Known(a)' <=> Known(a)
           /\ rvp' = rvp => /\ Sent(a)' <=> Sent(a)
                            /\ Current(a)' <=> Current(a)
                            /\ Open(a)' <=> Open(a)
<1>1. inq' = inq => (Queued(a)' <=> Queued(a))
  BY DEF Queued
<1>2. commitq' = commitq => (Back(a)' <=> Back(a))
  BY DEF Back
<1>3. worker' = worker => (InHand(a)' <=> InHand(a))
  BY DEF InHand
<1>4. locks' = locks => /\ Waits(a)' <=> Waits(a)
                        /\ Owns(a)' <=> Owns(a)
                        /\ Known(a)' <=> Known(a)
  BY DEF Waits, Owns, Known
<1>5. rvp' = rvp => /\ Sent(a)' <=> Sent(a)
                    /\ Current(a)' <=> Current(a)
                    /\ Open(a)' <=> Open(a)
  BY DEF Sent, Current, Open
<1> QED
  BY <1>1, <1>2, <1>3, <1>4, <1>5

\* One rendezvous point changes.
LEMMA RvpUpdate ==
    ASSUME RvpTypes, NEW x \in Xct, rvp' \in [Xct -> RvpType],
           \A y \in Xct : y # x => rvp'[y] = rvp[y],
           rvp'[x].phase \in DOMAIN Flow[x],
           rvp'[x].sent <= Len(Flow[x][rvp'[x].phase]),
           rvp'[x].told <= Len(ActionsUpTo[x][rvp'[x].phase]),
           rvp'[x].told > 0 => rvp'[x].outcome # "none"
    PROVE  RvpTypes'
  BY DEF RvpTypes

\* A transaction that ended sent all its actions so far, and all of them posted.
LEMMA EndedSent ==
    ASSUME FlowInv, NEW b \in ActionId, ~Open(b), b[2] <= rvp[XctOf[b]].phase
    PROVE  Sent(b) /\ ~Queued(b) /\ ~Waits(b) /\ ~InHand(b) /\ Known(b)
<1>1. ~Queued(b) /\ ~Waits(b) /\ ~InHand(b)
  BY TodoFacts
<1>2. Sent(b)
  <2>1. XctOf[b] \in Xct /\ b[2] \in Nat
    BY ActionFacts
  <2>2. CASE Current(b)
    BY <2>2, TodoFacts DEF Todo
  <2>3. CASE ~Current(b)
    <3>1. rvp[XctOf[b]].phase \in Nat
      BY <2>1, RvpFacts
    <3> QED
      BY <2>1, <2>3, <3>1 DEF Current, Sent
  <2> QED
    BY <2>2, <2>3
<1> QED
  BY <1>1, <1>2 DEF FlowInv, PlaceInv

\* Enqueue(): one more action of the phase is sent and queued.
LEMMA Enqueued ==
    ASSUME FlowInv, NEW x \in Xct, Enqueue(x), NEW a, a = NextOf(x)
    PROVE  /\ a \in ActionId /\ XctOf[a] = x /\ Current(a) /\ ~Sent(a) /\ Open(a)
           /\ \A b \in ActionId : /\ Sent(b)' <=> Sent(b) \/ b = a
                                  /\ Queued(b)' <=> Queued(b) \/ b = a
                                  /\ Current(b)' <=> Current(b)
                                  /\ Open(b)' <=> Open(b)
           /\ RvpTypes'
           /\ inq' \in [Partition -> Seq(ActionId)]
           /\ \A p \in Partition : Home(p, inq'[p]) /\ Once(inq'[p])
           /\ \A y \in Xct : y # x => rvp'[y] = rvp[y]
           /\ rvp'[x] = [rvp[x] EXCEPT !.sent = @ + 1]
<1>1. PICK R, n, m : R = rvp[x] /\ n = R.sent /\ m = R.phase
  OBVIOUS
<1>2. /\ R \in RvpType
      /\ m \in DOMAIN Flow[x] /\ n \in Nat /\ m \in Nat /\ Len(Flow[x][m]) \in Nat
      /\ DOMAIN Flow[x][m] = 1 .. Len(Flow[x][m])
  BY <1>1, RvpFacts DEF RvpType
<1>3. n < Len(Flow[x][m]) /\ a = <<x, m, n + 1>>
  BY <1>1 DEF Enqueue, Sending, NextOf
<1>4. n + 1 \in DOMAIN Flow[x][m]
  BY <1>2, <1>3
<1>5. a \in ActionId
  BY <1>2, <1>3, <1>4, PhaseFacts
<1>6. XctOf[a] = x /\ a[2] = m /\ a[3] = n + 1
  BY <1>3, <1>5, ActionFacts
<1>7. Current(a) /\ ~Sent(a)
  BY <1>1, <1>2, <1>6 DEF Current, Sent
<1>8. Open(a)
  BY <1>5, <1>7, TodoFacts DEF Todo
<1>9. rvp' = [rvp EXCEPT ![x].sent = @ + 1]
  BY DEF Enqueue
<1>10. rvp \in [Xct -> RvpType]
  BY DEF FlowInv, RvpTypes
<1>11. /\ \A y \in Xct : y # x => rvp'[y] = rvp[y]
       /\ rvp'[x] = [R EXCEPT !.sent = n + 1]
  <2>1. rvp' = [rvp EXCEPT ![x].sent = n + 1]
    BY <1>1, <1>9
  <2>2. DOMAIN rvp = Xct
    BY <1>10
  <2> QED
    BY <1>1, <2>1, <2>2
<1>12. /\ rvp'[x].sent = n + 1 /\ rvp'[x].phase = m /\ rvp'[x].outcome = R.outcome
       /\ rvp'[x].told = R.told
  BY <1>1, <1>2, <1>11 DEF RvpType
<1>13. RvpTypes'
  <2>1. [R EXCEPT !.sent = n + 1] \in RvpType
    BY <1>2 DEF RvpType
  <2>2. rvp' \in [Xct -> RvpType]
    BY <1>9, <1>10, <1>11, <2>1
  <2>3. n + 1 <= Len(Flow[x][m])
    BY <1>2, <1>3
  <2>4. R.told <= Len(ActionsUpTo[x][m]) /\ (R.told > 0 => R.outcome # "none")
    BY <1>1 DEF FlowInv, RvpTypes
  <2> QED
    BY <1>2, <1>11, <1>12, <2>2, <2>3, <2>4, RvpUpdate DEF FlowInv
<1>14. ASSUME NEW b \in ActionId
       PROVE  /\ Sent(b)' <=> Sent(b) \/ b = a
              /\ Current(b)' <=> Current(b)
              /\ Open(b)' <=> Open(b)
  <2>1. XctOf[b] \in Xct /\ b = <<XctOf[b], b[2], b[3]>> /\ b[3] \in Nat /\ b[2] \in Nat
    BY ActionFacts
  <2>2. CASE XctOf[b] # x
    BY <1>6, <1>11, <2>1, <2>2 DEF Sent, Current, Open
  <2>3. CASE XctOf[b] = x
    <3>1. b = a <=> b[2] = m /\ b[3] = n + 1
      BY <1>3, <1>6, <2>1, <2>3
    <3>2. b[3] <= n + 1 <=> b[3] <= n \/ b[3] = n + 1
      BY <1>2, <2>1
    <3> QED
      BY <1>1, <1>12, <2>3, <3>1, <3>2 DEF Sent, Current, Open
  <2> QED
    BY <2>2, <2>3
<1>15. /\ inq \in [Partition -> Seq(ActionId)]
       /\ \A p \in Partition : Home(p, inq[p]) /\ Once(inq[p])
  BY DEF FlowInv, QueueTypes, QueueInv
<1>16. inq' = [inq EXCEPT ![Part(a)] = Append(inq[Part(a)], a)]
  BY <1>15 DEF Enqueue
<1>17. Grown(inq, a, inq')
  BY <1>5, <1>15, <1>16, PushedAt
<1>18. \A b \in ActionId : (Queued(b) <=> Has(inq[Part(b)], b)) /\
                           (Queued(b)' <=> Has(inq'[Part(b)], b))
  BY DEF Queued, Has
<1>19. ~Has(inq[Part(a)], a)
  BY <1>5, <1>7, <1>18 DEF FlowInv, PlaceInv
<1>20. /\ inq' \in [Partition -> Seq(ActionId)]
       /\ \A p \in Partition : Home(p, inq'[p]) /\ Once(inq'[p])
       /\ \A b \in ActionId : Queued(b)' <=> Queued(b) \/ b = a
  BY <1>15, <1>17, <1>18, <1>19 DEF Grown
<1> QED
  BY <1>1, <1>5, <1>6, <1>7, <1>8, <1>11, <1>13, <1>14, <1>20

\* The action that is sent back next.
ToTell(x) == ActionsUpTo[x][rvp[x].phase][rvp[x].told + 1]

\* notify_partitions(): one more action of a transaction that ended goes back.
LEMMA SendsBack ==
    ASSUME FlowInv, NEW x \in Xct, SendBack(x), rvp[x].outcome # "none",
           rvp[x].told < Len(ActionsUpTo[x][rvp[x].phase]),
           NEW a, a = ToTell(x)
    PROVE  /\ a \in ActionId /\ XctOf[a] = x /\ Sent(a) /\ ~Open(a)
           /\ \A b \in ActionId : /\ Sent(b)' <=> Sent(b)
                                  /\ Back(b)' <=> Back(b) \/ b = a
                                  /\ Current(b)' <=> Current(b)
                                  /\ Open(b)' <=> Open(b)
           /\ RvpTypes'
           /\ commitq' \in [Partition -> Seq(ActionId)]
           /\ \A p \in Partition : Home(p, commitq'[p])
           /\ \A y \in Xct : y # x => rvp'[y] = rvp[y]
           /\ rvp'[x] = [rvp[x] EXCEPT !.told = @ + 1]
<1>1. PICK R, n, m : R = rvp[x] /\ n = R.told /\ m = R.phase
  OBVIOUS
<1>2. /\ R \in RvpType
      /\ m \in DOMAIN Flow[x] /\ n \in Nat /\ m \in Nat
  BY <1>1, RvpFacts DEF RvpType
<1>3. PICK all : all = ActionsUpTo[x][m]
  OBVIOUS
<1>4. /\ Len(all) \in Nat /\ DOMAIN all = 1 .. Len(all)
      /\ \A b : Has(all, b) <=> b \in ActionId /\ XctOf[b] = x /\ b[2] <= m
  BY <1>2, <1>3, UpTo
<1>5. n < Len(all) /\ a = all[n + 1]
  BY <1>1, <1>3 DEF ToTell
<1>6. n + 1 \in DOMAIN all
  BY <1>2, <1>4, <1>5
<1>7. a \in ActionId /\ XctOf[a] = x /\ a[2] <= m
  <2>1. Has(all, a)
    BY <1>5, <1>6 DEF Has
  <2> QED
    BY <1>4, <2>1
<1>8. ~Open(a) /\ Sent(a)
  BY <1>1, <1>7, EndedSent, Zenon DEF Open
<1>9. rvp' = [rvp EXCEPT ![x].told = @ + 1]
  BY DEF SendBack
<1>10. rvp \in [Xct -> RvpType]
  BY DEF FlowInv, RvpTypes
<1>11. /\ \A y \in Xct : y # x => rvp'[y] = rvp[y]
       /\ rvp'[x] = [R EXCEPT !.told = n + 1]
  <2>1. rvp' = [rvp EXCEPT ![x].told = n + 1]
    BY <1>1, <1>9
  <2>2. DOMAIN rvp = Xct
    BY <1>10
  <2> QED
    BY <1>1, <2>1, <2>2
<1>12. /\ rvp'[x].told = n + 1 /\ rvp'[x].phase = m /\ rvp'[x].outcome = R.outcome
       /\ rvp'[x].sent = R.sent
  BY <1>1, <1>2, <1>11 DEF RvpType
<1>13. RvpTypes'
  <2>1. [R EXCEPT !.told = n + 1] \in RvpType
    BY <1>2 DEF RvpType
  <2>2. rvp' \in [Xct -> RvpType]
    BY <1>9, <1>10, <1>11, <2>1
  <2>3. n + 1 <= Len(all)
    BY <1>2, <1>4, <1>5
  <2>4. R.sent <= Len(Flow[x][m])
    BY <1>1 DEF FlowInv, RvpTypes
  <2>5. /\ rvp'[x].phase \in DOMAIN Flow[x]
        /\ rvp'[x].sent <= Len(Flow[x][rvp'[x].phase])
        /\ rvp'[x].told <= Len(ActionsUpTo[x][rvp'[x].phase])
        /\ rvp'[x].outcome # "none"
    BY <1>1, <1>2, <1>3, <1>12, <2>3, <2>4, Zenon
  <2>6. RvpTypes /\ \A y \in Xct : y # x => rvp'[y] = rvp[y]
    BY <1>11, Zenon DEF FlowInv
  <2> QED
    BY <2>2, <2>5, <2>6, RvpUpdate, Zenon
<1>14. ASSUME NEW b \in ActionId
       PROVE  /\ Sent(b)' <=> Sent(b)
              /\ Current(b)' <=> Current(b)
              /\ Open(b)' <=> Open(b)
  <2>1. XctOf[b] \in Xct
    BY ActionFacts
  <2>2. /\ rvp'[XctOf[b]].phase = rvp[XctOf[b]].phase
        /\ rvp'[XctOf[b]].sent = rvp[XctOf[b]].sent
        /\ rvp'[XctOf[b]].outcome = rvp[XctOf[b]].outcome
    BY <1>1, <1>11, <1>12, <2>1
  <2> QED
    BY <2>2 DEF Sent, Current, Open
<1>15. /\ commitq \in [Partition -> Seq(ActionId)]
       /\ \A p \in Partition : Home(p, commitq[p])
  BY DEF FlowInv, QueueTypes, QueueInv
<1>16. commitq' = [commitq EXCEPT ![Part(a)] = Append(commitq[Part(a)], a)]
  BY <1>15 DEF SendBack, ToTell
<1>17. Grown(commitq, a, commitq')
  BY <1>7, <1>15, <1>16, PushedAt
<1>18. /\ commitq' \in [Partition -> Seq(ActionId)]
       /\ \A p \in Partition : Home(p, commitq'[p])
       /\ \A b \in ActionId : Back(b)' <=> Back(b) \/ b = a
  BY <1>17 DEF Grown, Back
<1> QED
  BY <1>1, <1>7, <1>8, <1>11, <1>13, <1>14, <1>18

\* A worker is done with an action and turns to the next one.
LEMMA TurnsToNext ==
    ASSUME FlowInv, NEW p \in Partition, worker[p].pc \notin {"drain", "loop"},
           NEW q, worker' = [worker EXCEPT ![p] = AfterServing(worker[p], q)]
    PROVE  /\ worker' \in [Partition -> WorkerType]
           /\ \A r \in Partition : WorkerInv(r, worker'[r])
           /\ \A r \in Partition : r # p => worker'[r] = worker[r]
           /\ worker'[p].pc \in {"drain", "loop", "serve"}
           /\ \A b \in ActionId : InHand(b)' <=> InHand(b) /\ b # Served(p)
<1>1. worker \in [Partition -> WorkerType] /\ \A r \in Partition : WorkerInv(r, worker[r])
  BY DEF FlowInv, QueueTypes, QueueInv
<1>2. PICK w, w2 : w = worker[p] /\ w2 = AfterServing(w, q)
  OBVIOUS
<1>3. w \in WorkerType /\ WorkerInv(p, w) /\ w.pc \notin {"drain", "loop"}
  BY <1>1, <1>2
<1>4. /\ w2 \in WorkerType /\ WorkerInv(p, w2) /\ w2.pc \in {"drain", "loop", "serve"}
      /\ \A a : Hand(w2, a) <=> Has(w.ready, a) /\ a # Head(w.ready)
  BY <1>2, <1>3, NextServed
<1>5. /\ w.pc \in {"serve", "post"} => \A a : Hand(w, a) <=> Has(w.ready, a)
      /\ w.pc \notin {"serve", "post"} =>
            \A a : Hand(w, a) <=> Has(w.ready, a) /\ a # Head(w.ready)
  BY <1>3, HandFacts
<1>6. /\ worker' \in [Partition -> WorkerType] /\ worker'[p] = w2
      /\ \A r \in Partition : r # p => worker'[r] = worker[r]
  BY <1>1, <1>2, <1>4
<1>7. \A r \in Partition : WorkerInv(r, worker'[r])
  BY <1>1, <1>4, <1>6
<1>8. Served(p) = Head(w.ready) /\ Part(Served(p)) = p
  BY <1>2, <1>3, HandFacts DEF Served
<1>9. \A b \in ActionId : /\ InHand(b) <=> Hand(worker[Part(b)], b)
                          /\ InHand(b)' <=> Hand(worker'[Part(b)], b)
  BY DEF InHand, Hand
<1>10. ASSUME NEW b \in ActionId PROVE InHand(b)' <=> InHand(b) /\ b # Served(p)
  <2>1. Part(b) \in Partition
    BY ActionFacts
  <2>2. CASE Part(b) # p
    BY <1>6, <1>8, <1>9, <2>1, <2>2
  <2>3. CASE Part(b) = p
    <3>1. Hand(w2, b) <=> Hand(w, b) /\ b # Head(w.ready)
      BY <1>4, <1>5
    <3> QED
      BY <1>2, <1>6, <1>8, <1>9, <2>3, <3>1
  <2> QED
    BY <2>2, <2>3
<1> QED
  BY <1>4, <1>6, <1>7, <1>10

\* A worker goes on with the action it serves.
LEMMA StaysAt ==
    ASSUME FlowInv, NEW p \in Partition, worker[p].pc \in {"serve", "post"},
           worker' \in [Partition -> WorkerType],
           \A r \in Partition : r # p => worker'[r] = worker[r],
           NEW w2, w2 = worker'[p],
           w2.ready = worker[p].ready, w2.pc \in {"post", "dispatch", "notify"}
    PROVE  /\ \A r \in Partition : WorkerInv(r, worker'[r])
           /\ Served(p)' = Served(p)
           /\ \A b \in ActionId :
                 InHand(b)' <=> InHand(b) /\ (w2.pc # "post" => b # Served(p))
<1>1. worker \in [Partition -> WorkerType] /\ \A r \in Partition : WorkerInv(r, worker[r])
  BY DEF FlowInv, QueueTypes, QueueInv
<1>2. PICK w : w = worker[p]
  OBVIOUS
<1>3. w \in WorkerType /\ WorkerInv(p, w) /\ w.pc \notin {"drain", "loop"}
  BY <1>1, <1>2
<1>4. WorkerInv(p, w2) /\ w2.pc \notin {"drain", "loop"}
  BY <1>2, <1>3 DEF WorkerInv
<1>5. \A a : Hand(w, a) <=> Has(w.ready, a)
  BY <1>2, <1>3, HandFacts
<1>6. /\ worker' \in [Partition -> WorkerType] /\ worker'[p] = w2 /\ w2 \in WorkerType
      /\ \A r \in Partition : r # p => worker'[r] = worker[r]
  OBVIOUS
<1>7. \A r \in Partition : WorkerInv(r, worker'[r])
  BY <1>1, <1>4, <1>6
<1>8. Served(p) = Head(w.ready) /\ Part(Served(p)) = p /\ Served(p)' = Served(p)
  BY <1>2, <1>3, <1>6, HandFacts DEF Served
<1>9. \A b \in ActionId : /\ InHand(b) <=> Hand(worker[Part(b)], b)
                          /\ InHand(b)' <=> Hand(worker'[Part(b)], b)
  BY DEF InHand, Hand
<1>10. /\ w2.pc \in {"serve", "post"} => \A a : Hand(w2, a) <=> Has(w2.ready, a)
       /\ w2.pc \notin {"serve", "post"} =>
             \A a : Hand(w2, a) <=> Has(w2.ready, a) /\ a # Head(w2.ready)
  BY <1>4, HandFacts
<1>11. ASSUME NEW b \in ActionId
       PROVE  InHand(b)' <=> InHand(b) /\ (w2.pc # "post" => b # Served(p))
  <2>1. Part(b) \in Partition
    BY ActionFacts
  <2>2. CASE Part(b) # p
    BY <1>6, <1>8, <1>9, <2>1, <2>2
  <2>3. CASE Part(b) = p
    <3>1. Hand(w2, b) <=> Hand(w, b) /\ (w2.pc # "post" => b # Head(w.ready))
      BY <1>2, <1>5, <1>10
    <3> QED
      BY <1>2, <1>6, <1>8, <1>9, <2>3, <3>1
  <2> QED
    BY <2>2, <2>3
<1> QED
  BY <1>6, <1>7, <1>8, <1>11

-----------------------------------------------------------------------------
(***************************************************************************)
(* The countdowns.                                                         *)
(***************************************************************************)
Counted(x) == /\ rvp[x].left = Cardinality(ToPost(x))
              /\ rvp[x].outcome = "none" <=> ToPost(x) # {}

\* The places of the actions of a phase that have yet to post.
LEMMA PlacesToPost ==
    ASSUME FlowInv, NEW x \in Xct
    PROVE  /\ IsFiniteSet(ToPost(x)) /\ Counted(x)
           /\ ToPost(x) \subseteq 1 .. Len(Flow[x][rvp[x].phase])
<1>1. ToPost(x) \subseteq 1 .. Len(Flow[x][rvp[x].phase])
  BY RvpFacts DEF ToPost
<1>2. Len(Flow[x][rvp[x].phase]) \in Int /\ 1 \in Int
  BY RvpFacts
<1>3. IsFiniteSet(ToPost(x))
  BY <1>1, <1>2, FS_Interval, FS_Subset
<1> QED
  BY <1>1, <1>3 DEF FlowInv, CountInv, Counted

\* A step that moves no action of a transaction past its post.
LEMMA CountKept ==
    ASSUME FlowInv, NEW x \in Xct, rvp'[x].phase = rvp[x].phase,
           rvp'[x].left = rvp[x].left, rvp'[x].outcome = rvp[x].outcome,
           \A b \in ActionId : XctOf[b] = x /\ Current(b) => (Todo(b)' <=> Todo(b))
    PROVE  Counted(x)'
<1>1. PICK m : m = rvp[x].phase
  OBVIOUS
<1>2. m \in DOMAIN Flow[x]
  BY <1>1, RvpFacts
<1>3. ASSUME NEW j \in DOMAIN Flow[x][m] PROVE Todo(<<x, m, j>>)' <=> Todo(<<x, m, j>>)
  <2>1. PICK b : b = <<x, m, j>>
    OBVIOUS
  <2>2. b \in ActionId
    BY <1>2, <2>1, PhaseFacts
  <2>3. XctOf[b] = x /\ Current(b)
    BY <1>1, <2>1, <2>2, ActionFacts DEF Current
  <2> QED
    BY <2>1, <2>2, <2>3
<1>4. ToPost(x) = {j \in DOMAIN Flow[x][m] : Todo(<<x, m, j>>)}
  BY <1>1 DEF ToPost
<1>5. ToPost(x)' = {j \in DOMAIN Flow[x][m] : Todo(<<x, m, j>>)'}
  BY <1>1 DEF ToPost
<1>6. ToPost(x)' = ToPost(x)
  BY <1>3, <1>4, <1>5
<1>7. Counted(x)
  BY PlacesToPost
<1> QED
  BY <1>6, <1>7 DEF Counted

\* The last post: all other actions of the phase were sent, and posted.
LEMMA LastPost ==
    ASSUME FlowInv, NEW p \in Partition, worker[p].pc = "post", rvp[Serving(p)].left = 1
    PROVE  /\ \A c \in ActionId : XctOf[c] = Serving(p) /\ Current(c) /\ Todo(c) => c = Served(p)
           /\ \A c \in ActionId : XctOf[c] = Serving(p) =>
                 (Sent(c) <=> c[2] <= rvp[Serving(p)].phase)
           /\ ~Sending(Serving(p))
           /\ \A q \in Partition : ~Drives(q, Serving(p))
<1>1. PICK b, x : b = Served(p) /\ x = Serving(p)
  OBVIOUS
<1>2. /\ b \in ActionId /\ x \in Xct /\ x = XctOf[b] /\ InHand(b)
  BY <1>1, WorkerFacts
<1>3. Todo(b) /\ Sent(b) /\ Current(b) /\ Open(b)
  BY <1>2, TodoFacts
<1>4. b[3] \in ToPost(x)
  BY <1>2, <1>3, TodoFacts
<1>5. ToPost(x) = {b[3]}
  <2>1. IsFiniteSet(ToPost(x)) /\ Cardinality(ToPost(x)) = 1
    BY <1>1, <1>2, PlacesToPost DEF Counted
  <2>2. \E e : ToPost(x) = {e}
    BY <2>1, FS_Singleton
  <2> QED
    BY <1>4, <2>2
<1>6. ASSUME NEW c \in ActionId, XctOf[c] = x, Current(c), Todo(c) PROVE c = b
  <2>1. c[3] = b[3]
    BY <1>5, <1>6, TodoFacts
  <2>2. c[2] = b[2]
    BY <1>2, <1>3, <1>6 DEF Current
  <2> QED
    BY <1>2, <1>6, <2>1, <2>2, ActionFacts
<1>7. ASSUME NEW c \in ActionId, XctOf[c] = x PROVE Sent(c) <=> c[2] <= rvp[x].phase
  <2>1. c[2] \in Nat /\ rvp[x].phase \in Nat
    BY <1>2, ActionFacts, RvpFacts
  <2>2. Current(c) => Sent(c)
    BY <1>3, <1>6, <1>7 DEF Todo
  <2> QED
    BY <1>7, <2>1, <2>2 DEF Current, Sent
<1>8. ~Sending(x)
  <2> SUFFICES ASSUME Sending(x) PROVE FALSE
    OBVIOUS
  <2>1. PICK m, n : m = rvp[x].phase /\ n = Len(Flow[x][m])
    OBVIOUS
  <2>2. m \in DOMAIN Flow[x] /\ n \in Nat /\ n > 0 /\ DOMAIN Flow[x][m] = 1 .. n
        /\ rvp[x].sent \in Nat /\ rvp[x].sent < n
    BY <1>2, <2>1, RvpFacts DEF Sending
  <2>3. PICK c : c = <<x, m, n>>
    OBVIOUS
  <2>4. c \in ActionId
    BY <1>2, <2>2, <2>3, PhaseFacts
  <2>5. XctOf[c] = x /\ c[2] = m /\ c[3] = n
    BY <2>3, <2>4, ActionFacts
  <2>6. ~Sent(c)
    <3>1. m \in Nat /\ ~(m < m) /\ ~(n <= rvp[x].sent)
      BY <1>2, <2>1, <2>2, RvpFacts
    <3> QED
      BY <2>1, <2>5, <3>1 DEF Sent
  <2>7. m <= m
    BY <1>2, <2>1, RvpFacts
  <2> QED
    BY <1>7, <2>1, <2>4, <2>5, <2>6, <2>7
<1>9. \A q \in Partition : ~Drives(q, x)
  BY <1>2, <1>3, <1>8 DEF Drives, FlowInv, DriverInv, DriverOK, Open
<1> QED
  BY <1>1, <1>6, <1>7, <1>8, <1>9

\* A post counts down by one, and the last one ends the transaction.
LEMMA CountsDown ==
    ASSUME FlowInv, NEW p \in Partition, worker[p].pc = "post", NEW x, x = Serving(p),
           NEW a, a = Served(p),
           rvp'[x].phase = rvp[x].phase, rvp'[x].left = rvp[x].left - 1,
           rvp'[x].outcome = "none" <=> rvp[x].left > 1,
           \A b \in ActionId : XctOf[b] = x /\ Current(b) => (Todo(b)' <=> Todo(b) /\ b # a)
    PROVE  Counted(x)'
<1>1. PICK m : m = rvp[x].phase
  OBVIOUS
<1>2. /\ a \in ActionId /\ x \in Xct /\ XctOf[a] = x /\ InHand(a)
  BY WorkerFacts
<1>3. m \in DOMAIN Flow[x]
  BY <1>1, <1>2, RvpFacts
<1>4. a = <<x, m, a[3]>> /\ a[3] \in ToPost(x)
  BY <1>1, <1>2, TodoFacts, ActionFacts DEF Current
<1>5. ASSUME NEW j \in DOMAIN Flow[x][m]
      PROVE  Todo(<<x, m, j>>)' <=> Todo(<<x, m, j>>) /\ j # a[3]
  <2>1. PICK b : b = <<x, m, j>>
    OBVIOUS
  <2>2. b \in ActionId
    BY <1>2, <1>3, <2>1, PhaseFacts
  <2>3. XctOf[b] = x /\ Current(b)
    BY <1>1, <2>1, <2>2, ActionFacts DEF Current
  <2>4. b = a <=> j = a[3]
    BY <1>4, <2>1
  <2> QED
    BY <2>1, <2>2, <2>3, <2>4
<1>6. ToPost(x) = {j \in DOMAIN Flow[x][m] : Todo(<<x, m, j>>)}
  BY <1>1 DEF ToPost
<1>7. ToPost(x)' = {j \in DOMAIN Flow[x][m] : Todo(<<x, m, j>>)'}
  BY <1>1 DEF ToPost
<1>8. ToPost(x)' = ToPost(x) \ {a[3]}
  BY <1>5, <1>6, <1>7
<1>9. IsFiniteSet(ToPost(x)) /\ rvp[x].left = Cardinality(ToPost(x)) /\ rvp[x].left \in Nat
  BY <1>2, PlacesToPost, FS_CardinalityType DEF Counted
<1>10. /\ IsFiniteSet(ToPost(x) \ {a[3]})
       /\ Cardinality(ToPost(x) \ {a[3]}) = Cardinality(ToPost(x)) - 1
  BY <1>4, <1>9, FS_RemoveElement
<1>11. PICK T : T = ToPost(x) \ {a[3]}
  OBVIOUS
<1>12. T # {} <=> rvp[x].left > 1
  <2>1. IsFiniteSet(T) /\ Cardinality(T) = rvp[x].left - 1
    BY <1>9, <1>10, <1>11
  <2>2. Cardinality(T) = 0 <=> T = {}
    BY <2>1, FS_EmptySet
  <2>3. rvp[x].left # 0
    BY <1>4, <1>9, FS_EmptySet
  <2> QED
    BY <1>9, <2>1, <2>2, <2>3
<1> QED
  BY <1>8, <1>9, <1>10, <1>11, <1>12 DEF Counted

\* The countdown of a new phase is that of all its actions.
LEMMA CountsPhase ==
    ASSUME FlowInv, NEW x \in Xct, NEW m \in DOMAIN Flow[x],
           rvp'[x].phase = m, rvp'[x].sent = 0, rvp'[x].left = Len(Flow[x][m]),
           rvp'[x].outcome = "none"
    PROVE  Counted(x)'
<1>1. PICK n : n = Len(Flow[x][m])
  OBVIOUS
<1>2. n \in Nat /\ n > 0 /\ DOMAIN Flow[x][m] = 1 .. n /\ m \in Nat
  BY <1>1, PhaseFacts
<1>3. ASSUME NEW j \in 1 .. n PROVE Todo(<<x, m, j>>)'
  <2>1. PICK b : b = <<x, m, j>>
    OBVIOUS
  <2>2. b \in ActionId
    BY <1>2, <2>1, PhaseFacts
  <2>3. XctOf[b] = x /\ b[2] = m /\ b[3] = j
    BY <2>1, <2>2, ActionFacts
  <2>4. ~Sent(b)'
    BY <1>2, <2>3 DEF Sent
  <2>5. Todo(b)'
    BY <2>4 DEF Todo
  <2> QED
    BY <2>1, <2>5
<1>4. ToPost(x)' = {j \in DOMAIN Flow[x][m] : Todo(<<x, m, j>>)'}
  BY DEF ToPost
<1>5. ToPost(x)' = 1 .. n
  BY <1>2, <1>3, <1>4
<1>6. Cardinality(1 .. n) = n
  <2>1. n \in Int /\ 1 \in Int
    BY <1>2
  <2>2. Cardinality(1 .. n) = IF 1 > n THEN 0 ELSE n - 1 + 1
    BY <2>1, FS_Interval
  <2> QED
    BY <1>2, <2>2
<1>7. 1 .. n # {}
  <2>1. 1 \in 1 .. n
    BY <1>2
  <2> QED
    BY <2>1
<1> QED
  BY <1>1, <1>5, <1>6, <1>7 DEF Counted

-----------------------------------------------------------------------------
(***************************************************************************)
(* Every step keeps the invariant.                                         *)
(***************************************************************************)
\* No worker begins to post, to dispatch or to send back.
Turned ==
    /\ worker' \in [Partition -> WorkerType]
    /\ \A r \in Partition :
          /\ WorkerInv(r, worker'[r])
          /\ worker'[r].pc \in {"post", "dispatch", "notify"} =>
                worker'[r].pc = worker[r].pc /\ Served(r)' = Served(r)
          /\ \A b \in ActionId :
                worker[r].pc = "post" /\ Served(r) = b /\ InHand(b)' => worker'[r] = worker[r]

\* Workers that did not move have what they had.
LEMMA TurnedSame ==
    ASSUME FlowInv, worker' = worker
    PROVE  Turned /\ \A b : InHand(b)' <=> InHand(b)
<1>1. \A b : InHand(b)' <=> InHand(b)
  BY Unmoved
<1>2. \A r : Served(r)' = Served(r)
  BY DEF Served
<1> QED
  BY <1>1, <1>2 DEF Turned, FlowInv, QueueTypes, QueueInv

\* A worker that is done with an action goes on with the next one.
LEMMA TurnedNext ==
    ASSUME FlowInv, NEW p \in Partition, worker[p].pc \notin {"drain", "loop"},
           NEW q, worker' = [worker EXCEPT ![p] = AfterServing(worker[p], q)]
    PROVE  /\ Turned
           /\ \A b \in ActionId : InHand(b)' <=> InHand(b) /\ b # Served(p)
           /\ worker'[p].pc \notin {"post", "dispatch", "notify"}
<1>1. /\ worker' \in [Partition -> WorkerType]
      /\ \A r \in Partition : WorkerInv(r, worker'[r])
      /\ \A r \in Partition : r # p => worker'[r] = worker[r]
      /\ worker'[p].pc \in {"drain", "loop", "serve"}
      /\ \A b \in ActionId : InHand(b)' <=> InHand(b) /\ b # Served(p)
  BY TurnsToNext
<1>2. \A r \in Partition : r # p => Served(r)' = Served(r)
  BY <1>1 DEF Served
<1> QED
  BY <1>1, <1>2 DEF Turned

\* A worker that runs a rendezvous point has its action no more in hand.
LEMMA DriverLetGo ==
    ASSUME FlowInv, NEW p \in Partition, worker[p].pc \in {"dispatch", "notify"}
    PROVE  ~InHand(Served(p)) /\ Drives(p, Serving(p))
<1>1. PICK w : w = worker[p]
  OBVIOUS
<1>2. w \in WorkerType /\ WorkerInv(p, w) /\ w.pc \notin {"drain", "loop"}
  BY <1>1, WorkerFacts
<1>3. ~Hand(w, Head(w.ready))
  BY <1>1, <1>2, HandFacts
<1>4. /\ Served(p) \in ActionId /\ Part(Served(p)) = p
      /\ \A a \in ActionId : Part(a) = p => (InHand(a) <=> Hand(worker[p], a))
  BY WorkerFacts
<1> QED
  BY <1>1, <1>3, <1>4 DEF Served, Drives

\* The transaction of a served action.
LEMMA ServingSame ==
    ASSUME NEW r, Served(r)' = Served(r)
    PROVE  Serving(r)' = Serving(r)
  BY DEF Serving

\* A worker that still runs a rendezvous point.
LEMMA DriverKept ==
    ASSUME FlowInv, NEW r \in Partition, NEW y, y = Serving(r),
           worker'[r].pc \in {"dispatch", "notify"} =>
               /\ worker'[r].pc = worker[r].pc /\ Served(r)' = Served(r)
               /\ rvp'[y].phase = rvp[y].phase /\ rvp'[y].outcome = rvp[y].outcome,
           \A b \in ActionId : /\ Sent(b) => Sent(b)'
                               /\ Owns(b) /\ Open(b) => Owns(b)',
           worker'[r].pc = "dispatch" => Sending(y)',
           worker'[r].pc = "notify" =>
               rvp'[y].told < Len(ActionsUpTo[y][rvp'[y].phase]) /\ y \notin notifier'
    PROVE  DriverOK(r)'
<1>1. PICK s : s = Served(r)
  OBVIOUS
<1>2. DriverOK(r)
  BY DEF FlowInv, DriverInv
<1> SUFFICES ASSUME worker'[r].pc \in {"dispatch", "notify"} PROVE DriverOK(r)'
  BY DEF DriverOK
<1>3. /\ worker'[r].pc = worker[r].pc /\ Served(r)' = s /\ Serving(r)' = y
      /\ s \in ActionId /\ y \in Xct /\ y = XctOf[s]
  BY <1>1, ServingSame, WorkerFacts
<1>4. CASE worker'[r].pc = "dispatch"
  <2>1. /\ Sent(s) /\ Owns(s) /\ rvp[y].phase > 1
        /\ s[2] < rvp[y].phase /\ rvp[y].outcome = "none"
    BY <1>1, <1>2, <1>3, <1>4 DEF DriverOK
  <2>2. Sent(s)' /\ Owns(s)' /\ Sending(y)'
    BY <1>3, <1>4, <2>1 DEF Open
  <2>3. Sent(Served(r))' /\ Owns(Served(r))' /\ Sending(Serving(r))'
    BY <1>3, <2>2 DEF Sent, Owns, Sending
  <2> QED
    BY <1>3, <1>4, <2>1, <2>3 DEF DriverOK
<1>5. CASE worker'[r].pc = "notify"
  <2>1. Sent(s) /\ rvp[y].outcome # "none"
    BY <1>1, <1>2, <1>3, <1>5 DEF DriverOK
  <2>2. Sent(Served(r))'
    BY <1>3, <2>1 DEF Sent
  <2> QED
    BY <1>3, <1>5, <2>1, <2>2 DEF DriverOK
<1> QED
  BY <1>4, <1>5

\* Who drives after a step in which nobody begins to.
LEMMA DrivesLess ==
    ASSUME Turned
    PROVE  \A r \in Partition : \A y : Drives(r, y)' => Drives(r, y)
  BY ServingSame DEF Turned, Drives

\* Workers that are about to post do so, or still are.
Posting ==
    \A r \in Partition :
        /\ worker'[r].pc = "post" => worker[r].pc = "post" /\ Served(r)' = Served(r)
        /\ \A b \in ActionId :
              worker[r].pc = "post" /\ Served(r) = b /\ InHand(b)' => worker'[r] = worker[r]

\* Workers that only turn do not post for the first time.
LEMMA TurnedPosts == Turned => Posting
  BY DEF Turned, Posting

\* What ran stays true when nothing runs.
LEMMA RanKept ==
    ASSUME FlowInv, Posting, ran' = ran,
           \A b \in ActionId : /\ Sent(b) => Sent(b)'
                               /\ Sent(b) /\ Queued(b)' => Queued(b)
                               /\ Waits(b)' => Waits(b) \/ Queued(b)
                               /\ InHand(b)' => InHand(b) \/ Waits(b) \/ Queued(b),
           \A b \in ActionId : Sent(b)' /\ ~Pending(b)' /\ ~rvp'[XctOf[b]].aborted =>
               b \in ran \/ (Sent(b) /\ ~Pending(b)),
           \A y \in Xct : rvp[y].aborted => rvp'[y].aborted
    PROVE  RanInv'
<1>1. \A r \in Partition : worker'[r].pc = "post" =>
         /\ worker[r].pc = "post" /\ Served(r)' = Served(r) /\ Serving(r)' = Serving(r)
         /\ Serving(r) \in Xct
  BY WorkerFacts, ServingSame DEF Posting
<1>2. ran \subseteq ActionId /\ RanInv
  BY DEF FlowInv, OtherTypes
<1>3. \A b \in ran' : Sent(b)' /\ ~Queued(b)' /\ ~Waits(b)'
  BY <1>2 DEF RanInv
<1>4. ASSUME NEW b \in ran', InHand(b)'
      PROVE  worker'[Part(b)].pc = "post" /\ Served(Part(b))' = b
  <2>1. b \in ActionId /\ InHand(b) /\ Part(b) \in Partition
    BY <1>2, <1>4, ActionFacts DEF RanInv
  <2>2. worker[Part(b)].pc = "post" /\ Served(Part(b)) = b
    BY <1>2, <2>1 DEF RanInv
  <2>3. worker'[Part(b)] = worker[Part(b)]
    BY <1>4, <2>1, <2>2 DEF Posting
  <2>4. Served(Part(b))' = Served(Part(b))
    BY <2>3 DEF Served
  <2> QED
    BY <2>2, <2>3, <2>4
<1>5. ASSUME NEW b \in ActionId, Sent(b)', ~Pending(b)', ~rvp'[XctOf[b]].aborted
      PROVE  b \in ran'
  <2>1. ~rvp[XctOf[b]].aborted
    BY <1>5, ActionFacts
  <2> QED
    BY <1>2, <1>5, <2>1 DEF RanInv
<1>6. \A r \in Partition : worker'[r].pc = "post" /\ ~rvp'[Serving(r)'].aborted =>
         Served(r)' \in ran'
  BY <1>1, <1>2 DEF RanInv
<1> QED
  BY <1>3, <1>4, <1>5, <1>6 DEF RanInv

\* ClientDispatch and WorkerDispatch: an action is enqueued.
LEMMA SendsKeep ==
    ASSUME FlowInv, NEW x \in Xct, Enqueue(x), x \in submitted,
           UNCHANGED <<commitq, locks, notifier, history>>,
           Turned, \A b \in ActionId : InHand(b)' <=> InHand(b),
           \A r \in Partition : worker'[r].pc = "dispatch" /\ Serving(r) = x => Sending(x)'
    PROVE  FlowInv'
<1>1. PICK a : a = NextOf(x)
  OBVIOUS
<1>2. /\ a \in ActionId /\ XctOf[a] = x /\ Current(a) /\ ~Sent(a) /\ Open(a)
      /\ \A b \in ActionId : /\ Sent(b)' <=> Sent(b) \/ b = a
                             /\ Queued(b)' <=> Queued(b) \/ b = a
                             /\ Current(b)' <=> Current(b)
                             /\ Open(b)' <=> Open(b)
      /\ RvpTypes'
      /\ inq' \in [Partition -> Seq(ActionId)]
      /\ \A p \in Partition : Home(p, inq'[p]) /\ Once(inq'[p])
      /\ \A y \in Xct : y # x => rvp'[y] = rvp[y]
      /\ rvp'[x] = [rvp[x] EXCEPT !.sent = @ + 1]
  BY <1>1, Enqueued
<1>3. \A y \in Xct : /\ rvp'[y].phase = rvp[y].phase /\ rvp'[y].left = rvp[y].left
                     /\ rvp'[y].aborted = rvp[y].aborted
                     /\ rvp'[y].outcome = rvp[y].outcome /\ rvp'[y].told = rvp[y].told
  <2>1. rvp[x] \in RvpType
    BY DEF FlowInv, RvpTypes
  <2>2. /\ rvp'[x].phase = rvp[x].phase /\ rvp'[x].left = rvp[x].left
        /\ rvp'[x].aborted = rvp[x].aborted
        /\ rvp'[x].outcome = rvp[x].outcome /\ rvp'[x].told = rvp[x].told
    BY <1>2, <2>1 DEF RvpType
  <2> QED
    BY <1>2, <2>2
<1>4. \A b : /\ (Back(b)' <=> Back(b)) /\ (Waits(b)' <=> Waits(b))
             /\ (Owns(b)' <=> Owns(b)) /\ (Known(b)' <=> Known(b))
  BY Unmoved
<1>5. ~Queued(a) /\ ~Waits(a) /\ ~InHand(a) /\ ~Owns(a) /\ ~Back(a) /\ a \notin ran
  BY <1>2 DEF FlowInv, PlaceInv, RanInv
<1>6. QueueTypes' /\ OtherTypes' /\ LocksInv' /\ EndInv'
  <2>1. QueueTypes' /\ OtherTypes'
    BY <1>2 DEF FlowInv, QueueTypes, OtherTypes, Turned, history, newrun
  <2>2. LocksInv'
    BY DEF FlowInv, LocksInv
  <2>3. EndInv'
    BY <1>3 DEF FlowInv, EndInv, history
  <2> QED
    BY <2>1, <2>2, <2>3
<1>7. QueueInv'
  BY <1>2 DEF FlowInv, QueueInv, Turned
<1>8. DriverInv'
  <2>1. ASSUME NEW r \in Partition PROVE DriverOK(r)'
    <3>1. PICK y : y = Serving(r)
      OBVIOUS
    <3>2. worker'[r].pc \in {"dispatch", "notify"} =>
              /\ worker'[r].pc = worker[r].pc /\ Served(r)' = Served(r) /\ y \in Xct
      BY <3>1, WorkerFacts DEF Turned
    <3>3. worker'[r].pc = "dispatch" => Sending(y)'
      <4>1. ASSUME worker'[r].pc = "dispatch", y # x PROVE Sending(y)'
        <5>1. Sending(y) /\ y \in Xct
          BY <3>1, <3>2, <4>1 DEF FlowInv, DriverInv, DriverOK
        <5> QED
          BY <1>2, <4>1, <5>1 DEF Sending
      <4> QED
        BY <3>1, <4>1
    <3>4. worker'[r].pc = "notify" =>
              rvp'[y].told < Len(ActionsUpTo[y][rvp'[y].phase]) /\ y \notin notifier'
      BY <1>3, <3>1, <3>2 DEF FlowInv, DriverInv, DriverOK
    <3>5. \A b \in ActionId : /\ Sent(b) => Sent(b)'
                              /\ Owns(b) /\ Open(b) => Owns(b)'
      BY <1>2, <1>4
    <3> QED
      BY <1>3, <3>1, <3>2, <3>3, <3>4, <3>5, DriverKept
  <2>2. \A p, q \in Partition, y \in Xct : Drives(p, y)' /\ Drives(q, y)' => p = q
    BY DrivesLess DEF FlowInv, DriverInv
  <2>3. \A y \in notifier' : /\ rvp'[y].outcome # "none"
                             /\ rvp'[y].told < Len(ActionsUpTo[y][rvp'[y].phase])
    BY <1>3 DEF FlowInv, DriverInv, OtherTypes
  <2> QED
    BY <2>1, <2>2, <2>3 DEF DriverInv
<1>9. PlaceInv'
  <2>1. submitted' = submitted
    BY DEF history
  <2> QED
    BY <1>2, <1>4, <1>5, <2>1 DEF FlowInv, PlaceInv
<1>10. RanInv'
  <2>1. ran' = ran
    BY DEF history
  <2>2. \A b \in ActionId : Pending(b)' <=> Pending(b) \/ b = a
    BY <1>2, <1>4 DEF Pending
  <2> QED
    BY <1>2, <1>3, <1>4, <2>1, <2>2, RanKept, TurnedPosts
<1>11. CountInv'
  <2>1. \A b \in ActionId : Todo(b)' <=> Todo(b)
    BY <1>2, <1>4 DEF Todo
  <2>2. \A y \in Xct : Counted(y)'
    BY <1>3, <2>1, CountKept
  <2> QED
    BY <2>2 DEF CountInv, Counted
<1> QED
  BY <1>2, <1>6, <1>7, <1>8, <1>9, <1>10, <1>11 DEF FlowInv

\* A client dispatches an action of the first phase.
LEMMA ClientDispatchKeeps ==
    ASSUME FlowInv, NEW x \in Xct, ClientDispatch(x)
    PROVE  FlowInv'
<1>1. Turned /\ \A b \in ActionId : InHand(b)' <=> InHand(b)
  BY TurnedSame DEF ClientDispatch
<1>2. ASSUME NEW r \in Partition, worker'[r].pc = "dispatch", Serving(r) = x PROVE FALSE
  <2>1. worker[r].pc = "dispatch" /\ rvp[x].phase = 1
    BY <1>2 DEF ClientDispatch
  <2> QED
    BY <1>2, <2>1 DEF FlowInv, DriverInv, DriverOK
<1> QED
  BY <1>1, <1>2, SendsKeep DEF ClientDispatch

\* A worker that ran a midway RVP dispatches an action of the next phase.
LEMMA WorkerDispatchKeeps ==
    ASSUME FlowInv, NEW p \in Partition, WorkerDispatch(p)
    PROVE  FlowInv'
<1>1. PICK x : x = Serving(p)
  OBVIOUS
<1>2. /\ x \in Xct /\ x = XctOf[Served(p)] /\ Served(p) \in ActionId
      /\ worker[p].pc = "dispatch" /\ worker[p].pc \notin {"drain", "loop"}
  BY <1>1, WorkerFacts DEF WorkerDispatch
<1>3. ~InHand(Served(p)) /\ Drives(p, x)
  BY <1>1, <1>2, DriverLetGo
<1>4. x \in submitted
  BY <1>1, <1>2 DEF FlowInv, DriverInv, DriverOK, PlaceInv
<1>5. Enqueue(x) /\ UNCHANGED <<commitq, locks, notifier, history>>
  BY <1>1 DEF WorkerDispatch
<1>6. CASE SendsLast(x)
  <2>1. worker' = [worker EXCEPT ![p] = AfterServing(worker[p], commitq[p])]
    BY <1>1, <1>6 DEF WorkerDispatch
  <2>2. /\ Turned
        /\ \A b \in ActionId : InHand(b)' <=> InHand(b) /\ b # Served(p)
        /\ worker'[p].pc \notin {"post", "dispatch", "notify"}
    BY <1>2, <2>1, TurnedNext
  <2>3. \A b \in ActionId : InHand(b)' <=> InHand(b)
    BY <1>3, <2>2
  <2>4. ASSUME NEW r \in Partition, worker'[r].pc = "dispatch", Serving(r) = x PROVE FALSE
    <3>1. Drives(r, x)
      BY <2>2, <2>4 DEF Turned, Drives
    <3>2. r = p
      BY <1>2, <1>3, <3>1 DEF FlowInv, DriverInv
    <3> QED
      BY <2>2, <2>4, <3>2
  <2> QED
    BY <1>2, <1>4, <1>5, <2>2, <2>3, <2>4, SendsKeep
<1>7. CASE ~SendsLast(x)
  <2>1. worker' = [worker EXCEPT ![p] = worker[p]]
    BY <1>1, <1>7 DEF WorkerDispatch
  <2>2. worker' = worker
    BY <2>1 DEF FlowInv, QueueTypes
  <2>3. Turned /\ \A b \in ActionId : InHand(b)' <=> InHand(b)
    BY <2>2, TurnedSame
  <2>4. Sending(x)'
    <3>1. PICK n, m : n = rvp[x].sent /\ m = Len(Flow[x][rvp[x].phase])
      OBVIOUS
    <3>2. n \in Nat /\ m \in Nat /\ n < m /\ n + 1 # m
      BY <1>2, <1>5, <1>7, <3>1, RvpFacts DEF Enqueue, Sending, SendsLast
    <3>3. rvp'[x] = [rvp[x] EXCEPT !.sent = @ + 1]
      <4>1. PICK a : a = NextOf(x)
        OBVIOUS
      <4> QED
        BY <1>2, <1>5, <4>1, Enqueued
    <3>4. rvp'[x].sent = n + 1 /\ rvp'[x].phase = rvp[x].phase
      <4>1. rvp[x] \in RvpType
        BY <1>2 DEF FlowInv, RvpTypes
      <4> QED
        BY <3>1, <3>3, <4>1 DEF RvpType
    <3>5. n + 1 < m
      BY <3>2
    <3> QED
      BY <3>1, <3>4, <3>5 DEF Sending
  <2> QED
    BY <1>2, <1>4, <1>5, <2>3, <2>4, SendsKeep
<1> QED
  BY <1>6, <1>7

\* WorkerNotify and NotifierNotify: an action is sent back.
LEMMA SendsBackKeep ==
    ASSUME FlowInv, NEW x \in Xct, SendBack(x), rvp[x].outcome # "none",
           rvp[x].told < Len(ActionsUpTo[x][rvp[x].phase]),
           UNCHANGED <<inq, locks, history>>, notifier' \subseteq notifier,
           Turned, \A b \in ActionId : InHand(b)' <=> InHand(b),
           \A r \in Partition : worker'[r].pc = "notify" /\ Serving(r) = x => ~TellsLast(x),
           x \in notifier' => ~TellsLast(x)
    PROVE  FlowInv'
<1>1. PICK a : a = ToTell(x)
  OBVIOUS
<1>2. /\ a \in ActionId /\ XctOf[a] = x /\ Sent(a) /\ ~Open(a)
      /\ \A b \in ActionId : /\ Sent(b)' <=> Sent(b)
                             /\ Back(b)' <=> Back(b) \/ b = a
                             /\ Current(b)' <=> Current(b)
                             /\ Open(b)' <=> Open(b)
      /\ RvpTypes'
      /\ commitq' \in [Partition -> Seq(ActionId)]
      /\ \A p \in Partition : Home(p, commitq'[p])
      /\ \A y \in Xct : y # x => rvp'[y] = rvp[y]
      /\ rvp'[x] = [rvp[x] EXCEPT !.told = @ + 1]
  BY <1>1, SendsBack
<1>3. rvp[x] \in RvpType
  BY DEF FlowInv, RvpTypes
<1>4. \A y \in Xct : /\ rvp'[y].phase = rvp[y].phase /\ rvp'[y].left = rvp[y].left
                     /\ rvp'[y].aborted = rvp[y].aborted
                     /\ rvp'[y].outcome = rvp[y].outcome /\ rvp'[y].sent = rvp[y].sent
  <2>1. /\ rvp'[x].phase = rvp[x].phase /\ rvp'[x].left = rvp[x].left
        /\ rvp'[x].aborted = rvp[x].aborted
        /\ rvp'[x].outcome = rvp[x].outcome /\ rvp'[x].sent = rvp[x].sent
    BY <1>2, <1>3 DEF RvpType
  <2> QED
    BY <1>2, <2>1
<1>5. ~TellsLast(x) => rvp'[x].told < Len(ActionsUpTo[x][rvp[x].phase])
  <2>1. PICK n, m : n = rvp[x].told /\ m = Len(ActionsUpTo[x][rvp[x].phase])
    OBVIOUS
  <2>2. n \in Nat /\ m \in Nat /\ n < m
    <3>1. rvp[x].phase \in DOMAIN Flow[x] /\ n \in Nat
      BY <1>3, <2>1, RvpFacts DEF RvpType
    <3> QED
      BY <2>1, <3>1, UpTo
  <2>3. rvp'[x].told = n + 1
    BY <1>2, <1>3, <2>1 DEF RvpType
  <2>4. n + 1 # m => n + 1 < m
    BY <2>2
  <2> QED
    BY <2>1, <2>3, <2>4 DEF TellsLast
<1>6. \A b : (Queued(b)' <=> Queued(b)) /\ (Waits(b)' <=> Waits(b))
             /\ (Owns(b)' <=> Owns(b)) /\ (Known(b)' <=> Known(b))
  BY Unmoved
<1>7. QueueTypes' /\ OtherTypes' /\ LocksInv' /\ EndInv'
  <2>1. QueueTypes' /\ OtherTypes'
    BY <1>2 DEF FlowInv, QueueTypes, OtherTypes, Turned, history, newrun
  <2>2. LocksInv'
    BY DEF FlowInv, LocksInv
  <2>3. EndInv'
    BY <1>4 DEF FlowInv, EndInv, history
  <2> QED
    BY <2>1, <2>2, <2>3
<1>8. QueueInv'
  BY <1>2 DEF FlowInv, QueueInv, Turned
<1>9. DriverInv'
  <2>1. ASSUME NEW r \in Partition PROVE DriverOK(r)'
    <3>1. PICK y : y = Serving(r)
      OBVIOUS
    <3>2. worker'[r].pc \in {"dispatch", "notify"} =>
              /\ worker'[r].pc = worker[r].pc /\ Served(r)' = Served(r) /\ y \in Xct
      BY <3>1, WorkerFacts DEF Turned
    <3>3. worker'[r].pc = "dispatch" => Sending(y)'
      <4> SUFFICES ASSUME worker'[r].pc = "dispatch" PROVE Sending(y)'
        OBVIOUS
      <4>1. Sending(y) /\ y \in Xct
        BY <3>1, <3>2 DEF FlowInv, DriverInv, DriverOK
      <4> QED
        BY <1>4, <4>1 DEF Sending
    <3>4. worker'[r].pc = "notify" =>
              rvp'[y].told < Len(ActionsUpTo[y][rvp'[y].phase]) /\ y \notin notifier'
      <4> SUFFICES ASSUME worker'[r].pc = "notify"
                   PROVE  rvp'[y].told < Len(ActionsUpTo[y][rvp'[y].phase]) /\ y \notin notifier'
        OBVIOUS
      <4>1. /\ y \in Xct /\ y \notin notifier
            /\ rvp[y].told < Len(ActionsUpTo[y][rvp[y].phase])
        BY <3>1, <3>2 DEF FlowInv, DriverInv, DriverOK
      <4>2. CASE y = x
        BY <1>4, <1>5, <3>1, <4>1, <4>2
      <4>3. CASE y # x
        BY <1>2, <4>1, <4>3
      <4> QED
        BY <4>2, <4>3
    <3>5. \A b \in ActionId : /\ Sent(b) => Sent(b)'
                              /\ Owns(b) /\ Open(b) => Owns(b)'
      BY <1>2, <1>6
    <3> QED
      BY <1>4, <3>1, <3>2, <3>3, <3>4, <3>5, DriverKept
  <2>2. \A p, q \in Partition, y \in Xct : Drives(p, y)' /\ Drives(q, y)' => p = q
    BY DrivesLess DEF FlowInv, DriverInv
  <2>3. ASSUME NEW y \in notifier'
        PROVE  /\ rvp'[y].outcome # "none"
               /\ rvp'[y].told < Len(ActionsUpTo[y][rvp'[y].phase])
    <3>1. /\ y \in Xct /\ rvp[y].outcome # "none"
          /\ rvp[y].told < Len(ActionsUpTo[y][rvp[y].phase])
      BY DEF FlowInv, DriverInv, OtherTypes
    <3>2. CASE y = x
      BY <1>4, <1>5, <3>1, <3>2
    <3>3. CASE y # x
      BY <1>2, <3>1, <3>3
    <3> QED
      BY <3>2, <3>3
  <2> QED
    BY <2>1, <2>2, <2>3 DEF DriverInv
<1>10. PlaceInv'
  <2>1. submitted' = submitted
    BY DEF history
  <2> QED
    BY <1>2, <1>6, <2>1 DEF FlowInv, PlaceInv
<1>11. RanInv'
  <2>1. ran' = ran
    BY DEF history
  <2>2. \A b \in ActionId : Pending(b)' <=> Pending(b)
    BY <1>6 DEF Pending
  <2> QED
    BY <1>2, <1>4, <1>6, <2>1, <2>2, RanKept, TurnedPosts
<1>12. CountInv'
  <2>1. \A b \in ActionId : Todo(b)' <=> Todo(b)
    BY <1>2, <1>6 DEF Todo
  <2>2. \A y \in Xct : Counted(y)'
    BY <1>4, <2>1, CountKept
  <2> QED
    BY <2>2 DEF CountInv, Counted
<1> QED
  BY <1>2, <1>7, <1>8, <1>9, <1>10, <1>11, <1>12 DEF FlowInv

\* A worker that ran a terminal RVP tells a partition.
LEMMA WorkerNotifyKeeps ==
    ASSUME FlowInv, NEW p \in Partition, WorkerNotify(p)
    PROVE  FlowInv'
<1>1. PICK x : x = Serving(p)
  OBVIOUS
<1>2. /\ x \in Xct /\ x = XctOf[Served(p)] /\ Served(p) \in ActionId
      /\ worker[p].pc = "notify" /\ worker[p].pc \notin {"drain", "loop"}
  BY <1>1, WorkerFacts DEF WorkerNotify
<1>3. ~InHand(Served(p)) /\ Drives(p, x)
  BY <1>1, <1>2, DriverLetGo
<1>4. /\ rvp[x].outcome # "none" /\ x \notin notifier
      /\ rvp[x].told < Len(ActionsUpTo[x][rvp[x].phase])
  BY <1>1, <1>2 DEF FlowInv, DriverInv, DriverOK
<1>5. SendBack(x) /\ UNCHANGED <<inq, locks, history>> /\ notifier' = notifier
  BY <1>1 DEF WorkerNotify
<1>6. CASE TellsLast(x)
  <2>1. worker' = [worker EXCEPT ![p] = AfterServing(worker[p], commitq'[p])]
    BY <1>1, <1>6 DEF WorkerNotify
  <2>2. PICK q : q = commitq'[p]
    OBVIOUS
  <2>3. worker' = [worker EXCEPT ![p] = AfterServing(worker[p], q)]
    BY <2>1, <2>2
  <2>4. /\ Turned
        /\ \A b \in ActionId : InHand(b)' <=> InHand(b) /\ b # Served(p)
        /\ worker'[p].pc \notin {"post", "dispatch", "notify"}
    BY <1>2, <2>3, TurnedNext
  <2>5. \A b \in ActionId : InHand(b)' <=> InHand(b)
    BY <1>3, <2>4
  <2>6. ASSUME NEW r \in Partition, worker'[r].pc = "notify", Serving(r) = x PROVE FALSE
    <3>1. Drives(r, x)
      BY <2>4, <2>6 DEF Turned, Drives
    <3>2. r = p
      BY <1>2, <1>3, <3>1 DEF FlowInv, DriverInv
    <3> QED
      BY <2>4, <2>6, <3>2
  <2> QED
    BY <1>2, <1>4, <1>5, <2>4, <2>5, <2>6, SendsBackKeep
<1>7. CASE ~TellsLast(x)
  <2>1. worker' = [worker EXCEPT ![p] = worker[p]]
    BY <1>1, <1>7 DEF WorkerNotify
  <2>2. worker' = worker
    BY <2>1 DEF FlowInv, QueueTypes
  <2>3. Turned /\ \A b \in ActionId : InHand(b)' <=> InHand(b)
    BY <2>2, TurnedSame
  <2> QED
    BY <1>2, <1>4, <1>5, <1>7, <2>3, SendsBackKeep
<1> QED
  BY <1>6, <1>7

\* The notifier tells a partition.
LEMMA NotifierNotifyKeeps ==
    ASSUME FlowInv, NotifierNotify
    PROVE  FlowInv'
<1>1. PICK x \in notifier :
         /\ SendBack(x)
         /\ notifier' = IF TellsLast(x) THEN notifier \ {x} ELSE notifier
         /\ UNCHANGED <<inq, locks, worker, history>>
  BY DEF NotifierNotify
<1>2. /\ x \in Xct /\ rvp[x].outcome # "none"
      /\ rvp[x].told < Len(ActionsUpTo[x][rvp[x].phase])
  BY DEF FlowInv, OtherTypes, DriverInv
<1>3. Turned /\ \A b \in ActionId : InHand(b)' <=> InHand(b)
  BY <1>1, TurnedSame
<1>4. ASSUME NEW r \in Partition, worker'[r].pc = "notify", Serving(r) = x PROVE FALSE
  BY <1>1, <1>4 DEF FlowInv, DriverInv, DriverOK
<1>5. notifier' \subseteq notifier /\ (x \in notifier' => ~TellsLast(x))
  BY <1>1
<1>6. SendBack(x) /\ UNCHANGED <<inq, locks, history>>
  BY <1>1
<1> QED
  BY <1>2, <1>3, <1>4, <1>5, <1>6, SendsBackKeep

\* Execute and EarlyAbort: the action that is served is about to post.
LEMMA ServesKeep ==
    ASSUME FlowInv, NEW p \in Partition, worker[p].pc = "serve",
           worker' \in [Partition -> WorkerType],
           \A r \in Partition : r # p => worker'[r] = worker[r],
           worker'[p].pc = "post", worker'[p].ready = worker[p].ready,
           UNCHANGED <<rvp, inq, commitq, locks, notifier, submitted, newrun, ended>>,
           ran' \in {ran, ran \cup {Served(p)}}, prec' \subseteq Xct \X Xct,
           rvp[Serving(p)].aborted \/ Served(p) \in ran'
    PROVE  FlowInv'
<1>1. PICK a, x : a = Served(p) /\ x = Serving(p)
  OBVIOUS
<1>2. /\ a \in ActionId /\ Part(a) = p /\ InHand(a) /\ x \in Xct /\ x = XctOf[a]
  BY <1>1, WorkerFacts
<1>3. /\ \A r \in Partition : WorkerInv(r, worker'[r])
      /\ Served(p)' = a
      /\ \A b \in ActionId : InHand(b)' <=> InHand(b)
  <2>1. PICK w2 : w2 = worker'[p]
    OBVIOUS
  <2>2. worker[p].pc \in {"serve", "post"} /\ w2.pc = "post" /\ w2.ready = worker[p].ready
    BY <2>1
  <2> QED
    BY <1>1, <2>1, <2>2, StaysAt
<1>4. Serving(p)' = x
  BY <1>1, <1>3, ServingSame
<1>5. \A r \in Partition : r # p => Served(r)' = Served(r) /\ Serving(r)' = Serving(r)
  BY ServingSame DEF Served
<1>6. \A b : /\ (Queued(b)' <=> Queued(b)) /\ (Waits(b)' <=> Waits(b))
             /\ (Owns(b)' <=> Owns(b)) /\ (Known(b)' <=> Known(b))
             /\ (Sent(b)' <=> Sent(b)) /\ (Current(b)' <=> Current(b))
             /\ (Open(b)' <=> Open(b)) /\ (Back(b)' <=> Back(b))
  BY Unmoved
<1>7. Sent(a) /\ ~Queued(a) /\ ~Waits(a)
  BY <1>2 DEF FlowInv, PlaceInv
<1>8. RvpTypes' /\ LocksInv' /\ EndInv'
  BY DEF FlowInv, RvpTypes, LocksInv, EndInv
<1>9. QueueTypes' /\ OtherTypes'
  BY <1>1, <1>2 DEF FlowInv, QueueTypes, OtherTypes, newrun
<1>10. QueueInv'
  BY <1>3 DEF FlowInv, QueueInv
<1>11. DriverInv'
  <2>1. ASSUME NEW r \in Partition PROVE DriverOK(r)'
    <3>1. CASE r = p
      BY <3>1 DEF DriverOK
    <3>2. CASE r # p
      <4>1. PICK y : y = Serving(r)
        OBVIOUS
      <4>2. worker'[r] = worker[r] /\ Served(r)' = Served(r)
        BY <1>5, <3>2
      <4>3. worker'[r].pc = "dispatch" => Sending(y)'
        BY <4>1, <4>2 DEF FlowInv, DriverInv, DriverOK, Sending
      <4>4. worker'[r].pc = "notify" =>
                rvp'[y].told < Len(ActionsUpTo[y][rvp'[y].phase]) /\ y \notin notifier'
        BY <4>1, <4>2 DEF FlowInv, DriverInv, DriverOK
      <4>5. \A b \in ActionId : /\ Sent(b) => Sent(b)'
                                /\ Owns(b) /\ Open(b) => Owns(b)'
        BY <1>6
      <4> QED
        BY <4>1, <4>2, <4>3, <4>4, <4>5, DriverKept
    <3> QED
      BY <3>1, <3>2
  <2>2. \A r \in Partition : \A y : Drives(r, y)' => Drives(r, y)
    BY <1>5 DEF Drives
  <2>3. \A q, r \in Partition, y \in Xct : Drives(q, y)' /\ Drives(r, y)' => q = r
    BY <2>2 DEF FlowInv, DriverInv
  <2>4. \A y \in notifier' : /\ rvp'[y].outcome # "none"
                             /\ rvp'[y].told < Len(ActionsUpTo[y][rvp'[y].phase])
    BY DEF FlowInv, DriverInv
  <2> QED
    BY <2>1, <2>3, <2>4 DEF DriverInv
<1>12. PlaceInv'
  BY <1>3, <1>6 DEF FlowInv, PlaceInv
<1>13. RanInv'
  <2>1. ran \subseteq ActionId /\ RanInv /\ \A b \in ran' : b \in ran \/ b = a
    BY <1>1 DEF FlowInv, OtherTypes
  <2>2. \A b \in ran' : Sent(b)' /\ ~Queued(b)' /\ ~Waits(b)'
    BY <1>6, <1>7, <2>1 DEF RanInv
  <2>3. ASSUME NEW b \in ran', InHand(b)'
        PROVE  worker'[Part(b)].pc = "post" /\ Served(Part(b))' = b
    <3>1. CASE b = a
      BY <1>2, <1>3, <3>1
    <3>2. CASE b # a
      <4>1. b \in ran /\ b \in ActionId /\ InHand(b) /\ Part(b) \in Partition
        BY <1>3, <2>1, <2>3, <3>2, ActionFacts
      <4>2. worker[Part(b)].pc = "post" /\ Served(Part(b)) = b
        BY <2>1, <4>1 DEF RanInv
      <4> QED
        BY <1>5, <4>1, <4>2
    <3> QED
      BY <3>1, <3>2
  <2>4. \A b \in ActionId : Sent(b)' /\ ~Pending(b)' /\ ~rvp'[XctOf[b]].aborted => b \in ran'
    BY <1>3, <1>6, <2>1 DEF RanInv, Pending
  <2>5. ASSUME NEW r \in Partition, worker'[r].pc = "post", ~rvp'[Serving(r)'].aborted
        PROVE  Served(r)' \in ran'
    <3>1. CASE r = p
      BY <1>1, <1>3, <1>4, <2>5, <3>1
    <3>2. CASE r # p
      BY <1>5, <2>1, <2>5, <3>2 DEF RanInv
    <3> QED
      BY <3>1, <3>2
  <2> QED
    BY <2>2, <2>3, <2>4, <2>5 DEF RanInv
<1>14. CountInv'
  <2>1. \A b \in ActionId : Todo(b)' <=> Todo(b)
    BY <1>3, <1>6 DEF Todo
  <2>2. \A y \in Xct : Counted(y)'
    BY <2>1, CountKept
  <2> QED
    BY <2>2 DEF CountInv, Counted
<1> QED
  BY <1>8, <1>9, <1>10, <1>11, <1>12, <1>13, <1>14 DEF FlowInv

\* A worker runs an action.
LEMMA ExecuteKeeps ==
    ASSUME FlowInv, NEW p \in Partition, Execute(p)
    PROVE  FlowInv'
<1>1. PICK error \in {FALSE, Serving(p) \in MayFail} :
         worker' = [worker EXCEPT ![p].pc = "post", ![p].error = error]
  BY DEF Execute
<1>2. worker \in [Partition -> WorkerType] /\ worker[p].pc = "serve"
  BY DEF FlowInv, QueueTypes, Execute
<1>3. worker' \in [Partition -> WorkerType]
  <2>1. error \in BOOLEAN
    <3>1. PICK may : may = (Serving(p) \in MayFail)
      OBVIOUS
    <3>2. may \in BOOLEAN
      BY <3>1
    <3>3. error \in {FALSE, may}
      BY <3>1
    <3> QED
      BY <3>2, <3>3
  <2>2. PICK e \in BOOLEAN : e = error
    BY <2>1
  <2>3. worker' = [worker EXCEPT ![p] = [worker[p] EXCEPT !.pc = "post", !.error = e]]
    BY <1>1, <1>2, <2>2
  <2>4. [worker[p] EXCEPT !.pc = "post", !.error = e] \in WorkerType
    BY <1>2, <2>2 DEF WorkerType
  <2> QED
    BY <1>2, <2>3, <2>4
<1>4. /\ \A r \in Partition : r # p => worker'[r] = worker[r]
      /\ worker'[p].pc = "post" /\ worker'[p].ready = worker[p].ready
  BY <1>1, <1>2 DEF WorkerType
<1>5. prec' \subseteq Xct \X Xct
  <2>1. Serving(p) \in Xct /\ ran \subseteq ActionId /\ prec \subseteq Xct \X Xct
    BY <1>2, WorkerFacts DEF FlowInv, OtherTypes
  <2>2. \A b \in ran : XctOf[b] \in Xct
    BY <2>1, ActionFacts
  <2>3. prec' = prec \cup {<<XctOf[a], Serving(p)>> : a \in {b \in ran : Conflicts(b, Served(p))}}
    BY DEF Execute
  <2> QED
    BY <2>1, <2>2, <2>3
<1>6. /\ ran' = ran \cup {Served(p)}
      /\ UNCHANGED <<rvp, inq, commitq, locks, notifier, submitted, newrun, ended>>
  BY DEF Execute
<1> QED
  BY <1>2, <1>3, <1>4, <1>5, <1>6, ServesKeep

\* A worker skips an action of a transaction that was aborted.
LEMMA EarlyAbortKeeps ==
    ASSUME FlowInv, NEW p \in Partition, EarlyAbort(p)
    PROVE  FlowInv'
<1>1. worker \in [Partition -> WorkerType] /\ worker[p].pc = "serve"
  BY DEF FlowInv, QueueTypes, EarlyAbort
<1>2. worker' = [worker EXCEPT ![p].pc = "post"]
  BY DEF EarlyAbort
<1>3. worker' \in [Partition -> WorkerType]
  BY <1>1, <1>2 DEF WorkerType
<1>4. /\ \A r \in Partition : r # p => worker'[r] = worker[r]
      /\ worker'[p].pc = "post" /\ worker'[p].ready = worker[p].ready
  BY <1>1, <1>2 DEF WorkerType
<1>5. /\ ran' \in {ran, ran \cup {Served(p)}}
      /\ UNCHANGED <<rvp, inq, commitq, locks, notifier, submitted, newrun, ended>>
      /\ prec' \subseteq Xct \X Xct /\ rvp[Serving(p)].aborted
  BY DEF EarlyAbort, history, FlowInv, OtherTypes
<1> QED
  BY <1>1, <1>3, <1>4, <1>5, ServesKeep

\* PostNotLast and PostEnds: the action that is served posts, and its phase
\* counts down; the last one ends the transaction.
LEMMA PostsKeep ==
    ASSUME FlowInv, NEW p \in Partition, worker[p].pc = "post",
           NEW x, x = Serving(p), NEW a, a = Served(p),
           rvp' \in [Xct -> RvpType], \A y \in Xct : y # x => rvp'[y] = rvp[y],
           rvp'[x].phase = rvp[x].phase, rvp'[x].sent = rvp[x].sent,
           rvp'[x].told = rvp[x].told, rvp'[x].left = rvp[x].left - 1,
           rvp[x].aborted => rvp'[x].aborted,
           rvp'[x].outcome = "none" <=> rvp[x].left > 1,
           UNCHANGED <<inq, commitq, locks, submitted, newrun, ran, prec>>,
           ended' = IF rvp[x].left > 1 THEN ended ELSE Append(ended, x),
           worker' \in [Partition -> WorkerType],
           \A r \in Partition : WorkerInv(r, worker'[r]),
           \A r \in Partition : r # p => worker'[r] = worker[r],
           \A b \in ActionId : InHand(b)' <=> InHand(b) /\ b # a,
           worker'[p].pc \in {"drain", "loop", "serve", "notify"},
           worker'[p].pc = "notify" =>
               Served(p)' = a /\ rvp'[x].outcome # "none" /\ notifier' = notifier,
           notifier' \in {notifier, notifier \cup {x}},
           x \in notifier' => rvp'[x].outcome # "none"
    PROVE  FlowInv'
<1>1. /\ a \in ActionId /\ Part(a) = p /\ InHand(a) /\ x \in Xct /\ x = XctOf[a]
      /\ Sent(a) /\ Current(a) /\ Open(a)
  <2>1. a \in ActionId /\ Part(a) = p /\ InHand(a) /\ x \in Xct /\ x = XctOf[a]
    BY WorkerFacts
  <2> QED
    BY <2>1, TodoFacts
<1>2. /\ rvp[x] \in RvpType /\ rvp[x].outcome = "none" /\ x \notin notifier
      /\ rvp[x].told = 0 /\ rvp[x].left \in Nat /\ rvp[x].left > 0
  <2>1. rvp[x] \in RvpType /\ rvp[x].outcome = "none" /\ x \notin notifier
    BY <1>1 DEF FlowInv, RvpTypes, Open, DriverInv
  <2>2. rvp[x].told \in Nat /\ ~(rvp[x].told > 0) /\ rvp[x].left \in Nat
    BY <1>1, <2>1 DEF FlowInv, RvpTypes, RvpType
  <2>3. rvp[x].left > 0
    BY <1>1, TodoFacts
  <2> QED
    BY <2>1, <2>2, <2>3
<1>3. ASSUME ~(rvp[x].left > 1)
      PROVE  /\ \A b \in ActionId : XctOf[b] = x /\ Current(b) /\ Todo(b) => b = a
             /\ \A q \in Partition : ~Drives(q, x)
  <2>1. rvp[Serving(p)].left = 1
    BY <1>2, <1>3
  <2> QED
    BY <2>1, LastPost
<1>4. \A b : /\ (Queued(b)' <=> Queued(b)) /\ (Waits(b)' <=> Waits(b))
             /\ (Owns(b)' <=> Owns(b)) /\ (Known(b)' <=> Known(b))
             /\ (Back(b)' <=> Back(b))
  BY Unmoved
<1>5. \A y \in Xct : /\ rvp'[y].phase = rvp[y].phase /\ rvp'[y].sent = rvp[y].sent
                     /\ rvp'[y].told = rvp[y].told /\ (rvp[y].aborted => rvp'[y].aborted)
                     /\ (rvp'[y].outcome = "none" => rvp[y].outcome = "none")
  BY <1>2
<1>6. ASSUME NEW b \in ActionId
      PROVE  /\ Sent(b)' <=> Sent(b)
             /\ Current(b)' <=> Current(b)
             /\ Open(b)' => Open(b)
             /\ Open(b) /\ ~Open(b)' => XctOf[b] = x /\ ~(rvp[x].left > 1)
  <2>1. XctOf[b] \in Xct
    BY ActionFacts
  <2> QED
    BY <1>5, <2>1 DEF Sent, Current, Open
<1>7. \A r \in Partition : r # p => Served(r)' = Served(r) /\ Serving(r)' = Serving(r)
  BY ServingSame DEF Served
<1>8. ~Queued(a) /\ ~Waits(a)
  BY <1>1 DEF FlowInv, PlaceInv
<1>9. RvpTypes' /\ LocksInv' /\ QueueTypes' /\ QueueInv'
  <2>1. RvpTypes'
    <3>1. /\ rvp[x].phase \in DOMAIN Flow[x] /\ rvp[x].sent <= Len(Flow[x][rvp[x].phase])
          /\ rvp[x].told <= Len(ActionsUpTo[x][rvp[x].phase])
          /\ ~(rvp[x].told > 0)
      BY <1>1, <1>2 DEF FlowInv, RvpTypes
    <3> QED
      BY <1>1, <3>1, RvpUpdate DEF FlowInv
  <2>2. LocksInv' /\ QueueTypes' /\ QueueInv'
    BY DEF FlowInv, LocksInv, QueueTypes, QueueInv
  <2> QED
    BY <2>1, <2>2
<1>10. OtherTypes' /\ EndInv'
  <2>1. ended \in Seq(Xct) /\ EndInv
    BY DEF FlowInv, OtherTypes
  <2>2. /\ Append(ended, x) \in Seq(Xct)
        /\ \A c : Has(Append(ended, x), c) <=> Has(ended, c) \/ c = x
    BY <1>1, <2>1, Pushed
  <2>3. ended' \in Seq(Xct)
    BY <2>1, <2>2
  <2>4. OtherTypes'
    BY <1>1, <2>3 DEF FlowInv, OtherTypes, newrun
  <2>5. \A y \in Xct : rvp'[y].outcome # "none" <=> Has(ended', y)
    <3>1. \A y \in Xct : rvp[y].outcome # "none" <=> Has(ended, y)
      BY <2>1 DEF EndInv, Has
    <3>2. CASE rvp[x].left > 1
      BY <1>2, <3>1, <3>2
    <3>3. CASE ~(rvp[x].left > 1)
      BY <1>2, <2>2, <3>1, <3>3
    <3> QED
      BY <3>2, <3>3
  <2>6. EndInv'
    BY <2>5 DEF EndInv, Has
  <2> QED
    BY <2>4, <2>6
<1>11. DriverInv'
  <2>1. Len(ActionsUpTo[x][rvp[x].phase]) > 0
    <3>1. PICK s, i : i = rvp[x].phase /\ s = ActionsUpTo[x][i]
      OBVIOUS
    <3>2. i \in DOMAIN Flow[x]
      BY <1>1, <3>1, RvpFacts
    <3>3. Len(s) > 0
      BY <1>1, <3>1, <3>2, UpTo
    <3> QED
      BY <3>1, <3>3
  <2>2. ASSUME NEW r \in Partition PROVE DriverOK(r)'
    <3>1. CASE r = p
      <4>1. CASE worker'[p].pc = "notify"
        <5>1. Serving(p)' = x
          BY <1>1, <4>1 DEF Serving
        <5>2. Sent(a)' /\ Served(p)' = a /\ x \notin notifier'
          BY <1>1, <1>2, <1>6, <4>1
        <5>3. Sent(Served(p))'
          BY <5>2 DEF Sent
        <5>4. /\ rvp'[x].outcome # "none"
              /\ rvp'[x].told < Len(ActionsUpTo[x][rvp'[x].phase])
          BY <1>2, <2>1, <4>1
        <5> QED
          BY <3>1, <4>1, <5>1, <5>2, <5>3, <5>4 DEF DriverOK
      <4>2. CASE worker'[p].pc # "notify"
        BY <3>1, <4>2 DEF DriverOK
      <4> QED
        BY <4>1, <4>2
    <3>2. CASE r # p
      <4>1. PICK y : y = Serving(r)
        OBVIOUS
      <4>2. worker'[r] = worker[r] /\ Served(r)' = Served(r)
        BY <1>7, <3>2
      <4>3. worker'[r].pc \in {"dispatch", "notify"} => y \in Xct
        BY <4>1, <4>2, WorkerFacts
      <4>4. worker'[r].pc \in {"dispatch", "notify"} =>
               rvp'[y].phase = rvp[y].phase /\ rvp'[y].outcome = rvp[y].outcome
        <5>1. CASE rvp[x].left > 1
          BY <1>2, <4>3, <5>1
        <5>2. CASE ~(rvp[x].left > 1)
          <6>1. worker'[r].pc \in {"dispatch", "notify"} => y # x
            BY <1>3, <4>1, <4>2, <5>2 DEF Drives
          <6> QED
            BY <4>3, <6>1
        <5> QED
          BY <5>1, <5>2
      <4>5. worker'[r].pc = "dispatch" => Sending(y)'
        <5> SUFFICES ASSUME worker'[r].pc = "dispatch" PROVE Sending(y)'
          OBVIOUS
        <5>1. Sending(y) /\ y \in Xct
          BY <4>1, <4>2, <4>3 DEF FlowInv, DriverInv, DriverOK
        <5> QED
          BY <1>5, <5>1 DEF Sending
      <4>6. worker'[r].pc = "notify" =>
                rvp'[y].told < Len(ActionsUpTo[y][rvp'[y].phase]) /\ y \notin notifier'
        <5> SUFFICES ASSUME worker'[r].pc = "notify"
                     PROVE  rvp'[y].told < Len(ActionsUpTo[y][rvp'[y].phase]) /\ y \notin notifier'
          OBVIOUS
        <5>1. /\ y \in Xct /\ y \notin notifier /\ rvp[y].outcome # "none"
              /\ rvp[y].told < Len(ActionsUpTo[y][rvp[y].phase])
          BY <4>1, <4>2, <4>3 DEF FlowInv, DriverInv, DriverOK
        <5> QED
          BY <1>2, <1>5, <5>1
      <4>7. \A b \in ActionId : /\ Sent(b) => Sent(b)'
                                /\ Owns(b) /\ Open(b) => Owns(b)'
        BY <1>4, <1>6
      <4> QED
        BY <4>1, <4>2, <4>4, <4>5, <4>6, <4>7, DriverKept
    <3> QED
      BY <3>1, <3>2
  <2>3. ASSUME NEW q \in Partition, NEW r \in Partition, NEW y \in Xct, Drives(q, y)', Drives(r, y)'
        PROVE  q = r
    <3>1. \A t \in Partition : t # p /\ Drives(t, y)' => Drives(t, y)
      BY <1>7 DEF Drives
    <3>2. Drives(p, y)' => y = x /\ ~(rvp[x].left > 1)
      BY <1>1 DEF Drives, Serving
    <3> QED
      BY <1>3, <2>3, <3>1, <3>2 DEF FlowInv, DriverInv
  <2>4. ASSUME NEW y \in notifier'
        PROVE  /\ rvp'[y].outcome # "none"
               /\ rvp'[y].told < Len(ActionsUpTo[y][rvp'[y].phase])
    <3>1. CASE y = x
      BY <1>2, <2>1, <2>4, <3>1
    <3>2. CASE y # x
      <4>1. y \in notifier /\ y \in Xct
        BY <2>4, <3>2 DEF FlowInv, OtherTypes
      <4> QED
        BY <3>2, <4>1 DEF FlowInv, DriverInv
    <3> QED
      BY <3>1, <3>2
  <2> QED
    BY <2>2, <2>3, <2>4 DEF DriverInv
<1>12. PlaceInv'
  <2>1. submitted' = submitted
    OBVIOUS
  <2>2. ASSUME NEW b \in ActionId, Queued(b) \/ Waits(b) \/ InHand(b)', Open(b) PROVE Open(b)'
    <3> SUFFICES ASSUME ~Open(b)' PROVE FALSE
      OBVIOUS
    <3>1. XctOf[b] = x /\ ~(rvp[x].left > 1)
      BY <1>6, <2>2
    <3>2. Todo(b) /\ Current(b)
      BY <2>2, TodoFacts
    <3>3. b = a
      BY <1>3, <3>1, <3>2
    <3> QED
      BY <1>8, <2>2, <3>3
  <2> QED
    BY <1>4, <1>6, <2>1, <2>2 DEF FlowInv, PlaceInv
<1>13. RanInv'
  <2>1. ran' = ran
    OBVIOUS
  <2>2. Posting
    BY <1>1, <1>7 DEF Posting
  <2>3. ASSUME NEW b \in ActionId, Sent(b)', ~Pending(b)', ~rvp'[XctOf[b]].aborted
        PROVE  b \in ran \/ (Sent(b) /\ ~Pending(b))
    <3>1. CASE b = a
      <4>1. ~rvp[x].aborted
        BY <1>1, <1>5, <2>3, <3>1
      <4> QED
        BY <3>1, <4>1 DEF FlowInv, RanInv
    <3>2. CASE b # a
      BY <1>4, <1>6, <2>3, <3>2 DEF Pending
    <3> QED
      BY <3>1, <3>2
  <2>4. \A b \in ActionId : /\ Sent(b) => Sent(b)'
                            /\ Sent(b) /\ Queued(b)' => Queued(b)
                            /\ Waits(b)' => Waits(b) \/ Queued(b)
                            /\ InHand(b)' => InHand(b) \/ Waits(b) \/ Queued(b)
    BY <1>4, <1>6
  <2> QED
    BY <1>5, <2>1, <2>2, <2>3, <2>4, RanKept
<1>14. CountInv'
  <2>1. \A b \in ActionId : Todo(b)' <=> Todo(b) /\ b # a
    BY <1>1, <1>4, <1>6, <1>8 DEF Todo
  <2>2. Counted(x)'
    <3>1. \A b \in ActionId : XctOf[b] = x /\ Current(b) => (Todo(b)' <=> Todo(b) /\ b # a)
      BY <2>1
    <3> HIDE <2>1
    <3> QED
      BY <3>1, CountsDown
  <2>3. ASSUME NEW y \in Xct, y # x PROVE Counted(y)'
    <3>1. \A b \in ActionId : XctOf[b] = y /\ Current(b) => (Todo(b)' <=> Todo(b))
      BY <1>1, <2>1, <2>3
    <3> QED
      BY <2>3, <3>1, CountKept
  <2> QED
    BY <2>2, <2>3 DEF CountInv, Counted
<1> QED
  BY <1>9, <1>10, <1>11, <1>12, <1>13, <1>14 DEF FlowInv

\* The posts of the model: what they do to the rendezvous point ...
LEMMA PostNotLastKeeps ==
    ASSUME FlowInv, NEW p \in Partition, PostNotLast(p)
    PROVE  FlowInv'
<1>1. PICK x, a, doomed : x = Serving(p) /\ a = Served(p) /\ doomed = Aborting(p)
  OBVIOUS
<1>2. /\ worker[p].pc = "post" /\ worker[p].pc \notin {"drain", "loop"}
      /\ rvp[x].left > 1
      /\ rvp' = [rvp EXCEPT ![x].left = @ - 1, ![x].aborted = doomed]
      /\ worker' = [worker EXCEPT ![p] = AfterServing(worker[p], commitq[p])]
      /\ UNCHANGED <<inq, commitq, locks, notifier, history>>
  BY <1>1 DEF PostNotLast
<1>3. rvp \in [Xct -> RvpType] /\ x \in Xct /\ rvp[x].left \in Nat
  BY <1>1, <1>2, WorkerFacts DEF FlowInv, RvpTypes, RvpType
<1>4. doomed \in BOOLEAN /\ (rvp[x].aborted => doomed)
  BY <1>1 DEF Aborting
<1>5. rvp[x].outcome = "none"
  BY <1>1, <1>2, WorkerFacts, TodoFacts DEF Open
<1>6. rvp[x].left - 1 \in Nat
  BY <1>2, <1>3
<1>7. rvp' \in [Xct -> RvpType]
  <2>1. [rvp[x] EXCEPT !.left = rvp[x].left - 1, !.aborted = doomed] \in RvpType
    BY <1>3, <1>4, <1>6 DEF RvpType
  <2>2. rvp' = [rvp EXCEPT ![x] =
                   [rvp[x] EXCEPT !.left = rvp[x].left - 1, !.aborted = doomed]]
    BY <1>2, <1>3
  <2> HIDE DEF RvpType
  <2> QED
    BY <1>3, <2>1, <2>2
<1>8. /\ \A y \in Xct : y # x => rvp'[y] = rvp[y]
      /\ rvp'[x].phase = rvp[x].phase /\ rvp'[x].sent = rvp[x].sent
      /\ rvp'[x].told = rvp[x].told /\ rvp'[x].left = rvp[x].left - 1
      /\ rvp'[x].aborted = doomed /\ rvp'[x].outcome = "none"
  BY <1>2, <1>3, <1>5 DEF RvpType
<1>9. /\ worker' \in [Partition -> WorkerType]
      /\ \A r \in Partition : WorkerInv(r, worker'[r])
      /\ \A r \in Partition : r # p => worker'[r] = worker[r]
      /\ worker'[p].pc \in {"drain", "loop", "serve"}
      /\ \A b \in ActionId : InHand(b)' <=> InHand(b) /\ b # a
  BY <1>1, <1>2, TurnsToNext
<1>10. /\ UNCHANGED <<inq, commitq, locks, submitted, newrun, ran, prec>>
       /\ ended' = ended /\ notifier' = notifier
  BY <1>2 DEF history
<1>11. x \notin notifier
  BY <1>5 DEF FlowInv, DriverInv
<1> QED
  BY <1>1, <1>2, <1>4, <1>7, <1>8, <1>9, <1>10, <1>11, PostsKeep

\* The last post of a flow, or of a phase that failed, ends the transaction.
LEMMA PostEndsKeeps ==
    ASSUME FlowInv, NEW p \in Partition, PostEnds(p)
    PROVE  FlowInv'
<1>1. PICK x, a, doomed : x = Serving(p) /\ a = Served(p) /\ doomed = Aborting(p)
  OBVIOUS
<1>2. /\ worker[p].pc = "post" /\ worker[p].pc \notin {"drain", "loop"}
      /\ rvp[x].left = 1
      /\ ended' = Append(ended, x)
      /\ UNCHANGED <<inq, commitq, locks, submitted, newrun, ran, prec>>
  BY <1>1 DEF PostEnds
<1>3. PICK outcome \in {"aborted", "committed"} :
         /\ rvp' = [rvp EXCEPT ![x].left = 0, ![x].aborted = doomed, ![x].outcome = outcome]
         /\ IF Flusher /\ outcome = "committed"
            THEN /\ notifier' = notifier \cup {x}
                 /\ worker' = [worker EXCEPT ![p] = AfterServing(worker[p], commitq[p])]
            ELSE /\ worker' = [worker EXCEPT ![p].pc = "notify"]
                 /\ notifier' = notifier
  BY <1>1 DEF PostEnds
<1>4. rvp \in [Xct -> RvpType] /\ x \in Xct /\ worker \in [Partition -> WorkerType]
  BY <1>1, <1>2, WorkerFacts DEF FlowInv, RvpTypes, QueueTypes
<1>5. doomed \in BOOLEAN /\ (rvp[x].aborted => doomed)
  BY <1>1 DEF Aborting
<1>6. rvp[x].outcome = "none"
  BY <1>1, <1>2, WorkerFacts, TodoFacts DEF Open
<1>7. rvp' \in [Xct -> RvpType]
  <2>1. rvp' = [rvp EXCEPT ![x].left = 0, ![x].aborted = doomed, ![x].outcome = outcome]
    BY <1>3
  <2>2. outcome \in Outcome /\ 0 \in Nat
    BY DEF Outcome
  <2>3. rvp[x] \in RvpType
    BY <1>4
  <2> QED
    BY <1>4, <1>5, <2>1, <2>2, <2>3 DEF RvpType
<1>8. /\ \A y \in Xct : y # x => rvp'[y] = rvp[y]
      /\ rvp'[x].phase = rvp[x].phase /\ rvp'[x].sent = rvp[x].sent
      /\ rvp'[x].told = rvp[x].told /\ rvp'[x].left = 0
      /\ rvp'[x].aborted = doomed /\ rvp'[x].outcome # "none"
  BY <1>3, <1>4 DEF RvpType
<1>9. /\ worker' \in [Partition -> WorkerType]
      /\ \A r \in Partition : WorkerInv(r, worker'[r])
      /\ \A r \in Partition : r # p => worker'[r] = worker[r]
      /\ \A b \in ActionId : InHand(b)' <=> InHand(b) /\ b # a
      /\ worker'[p].pc \in {"drain", "loop", "serve", "notify"}
      /\ worker'[p].pc = "notify" => Served(p)' = a /\ notifier' = notifier
  <2>1. CASE Flusher /\ outcome = "committed"
    <3>1. worker' = [worker EXCEPT ![p] = AfterServing(worker[p], commitq[p])]
      BY <1>3, <2>1
    <3> QED
      BY <1>1, <1>2, <3>1, TurnsToNext
  <2>2. CASE ~(Flusher /\ outcome = "committed")
    <3>1. worker' = [worker EXCEPT ![p].pc = "notify"] /\ notifier' = notifier
      BY <1>3, <2>2
    <3>2. worker' \in [Partition -> WorkerType]
      BY <1>4, <3>1 DEF WorkerType
    <3>3. PICK w2 : w2 = worker'[p]
      OBVIOUS
    <3>4. /\ \A r \in Partition : r # p => worker'[r] = worker[r]
          /\ w2.pc = "notify" /\ w2.ready = worker[p].ready
      BY <1>4, <3>1, <3>3 DEF WorkerType
    <3>5. worker[p].pc \in {"serve", "post"} /\ w2.pc \in {"post", "dispatch", "notify"}
      BY <1>2, <3>4
    <3>6. /\ \A r \in Partition : WorkerInv(r, worker'[r])
          /\ Served(p)' = Served(p)
          /\ \A b \in ActionId :
                InHand(b)' <=> InHand(b) /\ (w2.pc # "post" => b # Served(p))
      BY <3>2, <3>3, <3>4, <3>5, StaysAt
    <3> QED
      BY <1>1, <3>1, <3>2, <3>3, <3>4, <3>6
  <2> QED
    BY <2>1, <2>2
<1>10. /\ rvp'[x].left = rvp[x].left - 1 /\ ~(rvp[x].left > 1)
       /\ notifier' \in {notifier, notifier \cup {x}}
  BY <1>2, <1>3, <1>8
<1>11. ended' = IF rvp[x].left > 1 THEN ended ELSE Append(ended, x)
  BY <1>2, <1>10
<1> QED
  BY <1>1, <1>2, <1>5, <1>7, <1>8, <1>9, <1>10, <1>11, PostsKeep

\* ... and a midway rendezvous point begins the next phase.
LEMMA PostRunsMidwayKeeps ==
    ASSUME FlowInv, NEW p \in Partition, PostRunsMidway(p)
    PROVE  FlowInv' /\ \A b \in ActionId : Sent(b)' <=> Sent(b)
<1>1. PICK x, a, m : x = Serving(p) /\ a = Served(p) /\ m = rvp[x].phase
  OBVIOUS
<1>2. /\ worker[p].pc = "post" /\ worker[p].pc \notin {"drain", "loop"}
      /\ rvp[x].left = 1 /\ m # Len(Flow[x])
      /\ rvp' = [rvp EXCEPT ![x].phase = @ + 1, ![x].sent = 0, ![x].left = Len(Flow[x][m + 1])]
      /\ worker' = [worker EXCEPT ![p].pc = "dispatch"]
      /\ UNCHANGED <<inq, commitq, locks, notifier, history>>
  BY <1>1 DEF PostRunsMidway, LastPhase
<1>3. /\ rvp \in [Xct -> RvpType] /\ rvp[x] \in RvpType /\ x \in Xct
      /\ worker \in [Partition -> WorkerType]
  BY <1>1, <1>2, WorkerFacts DEF FlowInv, RvpTypes, QueueTypes
<1>4. /\ a \in ActionId /\ Part(a) = p /\ InHand(a) /\ x = XctOf[a]
      /\ Sent(a) /\ Current(a) /\ Open(a)
  <2>1. a \in ActionId /\ Part(a) = p /\ InHand(a) /\ x = XctOf[a]
    BY <1>1, <1>2, WorkerFacts
  <2> QED
    BY <2>1, TodoFacts
<1>5. rvp[x].outcome = "none" /\ x \notin notifier /\ rvp[x].told = 0 /\ a[2] = m
  <2>1. rvp[x].outcome = "none" /\ x \notin notifier /\ a[2] = m
    BY <1>1, <1>4 DEF Open, Current, FlowInv, DriverInv
  <2>2. rvp[x].told \in Nat /\ ~(rvp[x].told > 0)
    BY <1>3, <2>1 DEF FlowInv, RvpTypes, RvpType
  <2> QED
    BY <2>1, <2>2
<1>6. m + 1 \in DOMAIN Flow[x] /\ m \in Nat /\ m > 0
  <2>1. m \in Nat /\ m > 0 /\ m <= Len(Flow[x]) /\ Len(Flow[x]) \in Nat
        /\ DOMAIN Flow[x] = 1 .. Len(Flow[x])
    BY <1>1, <1>3, RvpFacts
  <2> QED
    BY <1>2, <2>1
<1>7. Len(Flow[x][m + 1]) \in Nat /\ Len(Flow[x][m + 1]) > 0
  BY <1>3, <1>6, PhaseFacts
<1>8. /\ \A y \in Xct : y # x => rvp'[y] = rvp[y]
      /\ rvp'[x].phase = m + 1 /\ rvp'[x].sent = 0
      /\ rvp'[x].told = 0 /\ rvp'[x].left = Len(Flow[x][m + 1])
      /\ rvp'[x].aborted = rvp[x].aborted /\ rvp'[x].outcome = "none"
  BY <1>1, <1>2, <1>3, <1>5 DEF RvpType
<1>9. rvp' \in [Xct -> RvpType]
  <2>1. rvp' = [rvp EXCEPT ![x].phase = m + 1, ![x].sent = 0, ![x].left = Len(Flow[x][m + 1])]
    BY <1>1, <1>2
  <2>2. m + 1 \in Nat /\ 0 \in Nat
    BY <1>6
  <2> QED
    BY <1>3, <1>7, <2>1, <2>2 DEF RvpType
<1>10. /\ \A b \in ActionId : XctOf[b] = x /\ Current(b) /\ Todo(b) => b = a
       /\ \A b \in ActionId : XctOf[b] = x => (Sent(b) <=> b[2] <= m)
       /\ \A q \in Partition : ~Drives(q, x)
  <2>1. rvp[Serving(p)].left = 1
    BY <1>1, <1>2
  <2> QED
    BY <1>1, <1>2, <2>1, LastPost
<1>11. /\ worker' \in [Partition -> WorkerType]
       /\ \A r \in Partition : WorkerInv(r, worker'[r])
       /\ \A r \in Partition : r # p => worker'[r] = worker[r]
       /\ \A b \in ActionId : InHand(b)' <=> InHand(b) /\ b # a
       /\ worker'[p].pc = "dispatch" /\ Served(p)' = a
  <2>1. worker' \in [Partition -> WorkerType]
    BY <1>2, <1>3 DEF WorkerType
  <2>2. PICK w2 : w2 = worker'[p]
    OBVIOUS
  <2>3. /\ \A r \in Partition : r # p => worker'[r] = worker[r]
        /\ w2.pc = "dispatch" /\ w2.ready = worker[p].ready
    BY <1>2, <1>3, <2>2 DEF WorkerType
  <2>4. worker[p].pc \in {"serve", "post"} /\ w2.pc \in {"post", "dispatch", "notify"}
    BY <1>2, <2>3
  <2>5. /\ \A r \in Partition : WorkerInv(r, worker'[r])
        /\ Served(p)' = Served(p)
        /\ \A b \in ActionId :
              InHand(b)' <=> InHand(b) /\ (w2.pc # "post" => b # Served(p))
    BY <2>1, <2>2, <2>3, <2>4, StaysAt
  <2> QED
    BY <1>1, <2>1, <2>2, <2>3, <2>5
<1>12. \A b : /\ (Queued(b)' <=> Queued(b)) /\ (Waits(b)' <=> Waits(b))
              /\ (Owns(b)' <=> Owns(b)) /\ (Known(b)' <=> Known(b))
              /\ (Back(b)' <=> Back(b))
  BY <1>2, Unmoved
<1>13. ASSUME NEW b \in ActionId
       PROVE  /\ Sent(b)' <=> Sent(b)
              /\ Open(b)' <=> Open(b)
              /\ XctOf[b] # x => (Current(b)' <=> Current(b))
  <2>1. XctOf[b] \in Xct /\ b[2] \in Nat /\ b[3] \in Nat /\ b[3] > 0
    <3>1. /\ XctOf[b] \in Xct /\ b[2] \in Nat /\ b[3] \in Nat
          /\ XctOf[b] = b[1] /\ b[1] \in Xct /\ b[2] \in DOMAIN Flow[b[1]]
          /\ b[3] \in DOMAIN Flow[b[1]][b[2]]
      BY ActionFacts
    <3>2. /\ DOMAIN Flow[b[1]][b[2]] = 1 .. Len(Flow[b[1]][b[2]])
          /\ Len(Flow[b[1]][b[2]]) \in Nat
      BY <3>1, PhaseFacts
    <3> QED
      BY <3>1, <3>2
  <2>2. CASE XctOf[b] # x
    BY <1>8, <2>1, <2>2 DEF Sent, Open, Current
  <2>3. CASE XctOf[b] = x
    <3>1. Sent(b) <=> b[2] <= m
      BY <1>10, <2>3
    <3>2. Sent(b)' <=> b[2] < m + 1
      BY <1>8, <2>1, <2>3 DEF Sent
    <3>3. b[2] < m + 1 <=> b[2] <= m
      BY <1>6, <2>1
    <3>4. Open(b)' <=> Open(b)
      BY <1>5, <1>8, <2>3 DEF Open
    <3> QED
      BY <2>3, <3>1, <3>2, <3>3, <3>4
  <2> QED
    BY <2>2, <2>3
<1>14. ~Queued(a) /\ ~Waits(a) /\ Owns(a)
  BY <1>4 DEF FlowInv, PlaceInv
<1>15. \A b \in ActionId : XctOf[b] = x => ~Queued(b) /\ ~Waits(b) /\ ~InHand(b)'
  BY <1>10, <1>11, <1>14, TodoFacts
<1>16. \A r \in Partition : r # p => Served(r)' = Served(r) /\ Serving(r)' = Serving(r)
  BY <1>11, ServingSame DEF Served
<1>17. Serving(p)' = x
  BY <1>4, <1>11 DEF Serving
<1>18. RvpTypes' /\ LocksInv' /\ QueueTypes' /\ QueueInv' /\ OtherTypes' /\ EndInv'
  <2>1. RvpTypes'
    <3>1. PICK i, s : i = m + 1 /\ s = ActionsUpTo[x][i]
      OBVIOUS
    <3>2. Len(s) \in Nat
      BY <1>3, <1>6, <3>1, UpTo
    <3>3. 0 <= Len(Flow[x][i]) /\ 0 <= Len(s) /\ ~(0 > 0)
      BY <1>7, <3>1, <3>2
    <3> QED
      BY <1>3, <1>6, <1>8, <1>9, <3>1, <3>3, RvpUpdate DEF FlowInv
  <2>2. LocksInv' /\ QueueTypes' /\ QueueInv'
    BY <1>2, <1>11 DEF FlowInv, LocksInv, QueueTypes, QueueInv
  <2>3. OtherTypes'
    BY <1>2 DEF FlowInv, OtherTypes, history, newrun
  <2>4. \A y \in Xct : rvp'[y].outcome = rvp[y].outcome
    BY <1>5, <1>8
  <2>5. EndInv'
    BY <1>2, <2>4 DEF FlowInv, EndInv, history
  <2> QED
    BY <2>1, <2>2, <2>3, <2>5
<1>19. DriverInv'
  <2>1. ASSUME NEW r \in Partition PROVE DriverOK(r)'
    <3>1. CASE r = p
      <4>1. Sent(a)' /\ Owns(a)' /\ Sending(x)'
        <5>1. Sent(a)' /\ Owns(a)'
          BY <1>4, <1>12, <1>13, <1>14
        <5>2. Sending(x)'
          BY <1>7, <1>8 DEF Sending
        <5> QED
          BY <5>1, <5>2
      <4>2. Sent(Served(p))' /\ Owns(Served(p))' /\ Sending(Serving(p))'
        BY <1>11, <1>17, <4>1 DEF Sent, Owns, Sending
      <4>3. m + 1 > 1 /\ a[2] < m + 1
        BY <1>5, <1>6
      <4> QED
        BY <1>8, <1>11, <1>17, <3>1, <4>2, <4>3 DEF DriverOK
    <3>2. CASE r # p
      <4>1. PICK y : y = Serving(r)
        OBVIOUS
      <4>2. worker'[r] = worker[r] /\ Served(r)' = Served(r)
        BY <1>11, <1>16, <3>2
      <4>3. worker'[r].pc \in {"dispatch", "notify"} => y \in Xct /\ y # x
        BY <1>10, <4>1, <4>2, WorkerFacts DEF Drives
      <4>4. worker'[r].pc \in {"dispatch", "notify"} => rvp'[y] = rvp[y]
        BY <1>8, <4>3
      <4>5. worker'[r].pc = "dispatch" => Sending(y)'
        <5> SUFFICES ASSUME worker'[r].pc = "dispatch" PROVE Sending(y)'
          OBVIOUS
        <5>1. Sending(y)
          BY <4>1, <4>2 DEF FlowInv, DriverInv, DriverOK
        <5> QED
          BY <4>4, <5>1 DEF Sending
      <4>6. worker'[r].pc = "notify" =>
                rvp'[y].told < Len(ActionsUpTo[y][rvp'[y].phase]) /\ y \notin notifier'
        BY <1>2, <4>1, <4>2, <4>4 DEF FlowInv, DriverInv, DriverOK
      <4>7. \A b \in ActionId : /\ Sent(b) => Sent(b)'
                                /\ Owns(b) /\ Open(b) => Owns(b)'
        BY <1>12, <1>13
      <4> QED
        BY <4>1, <4>2, <4>4, <4>5, <4>6, <4>7, DriverKept
    <3> QED
      BY <3>1, <3>2
  <2>2. ASSUME NEW q \in Partition, NEW r \in Partition, NEW y \in Xct, Drives(q, y)', Drives(r, y)'
        PROVE  q = r
    <3>1. \A t \in Partition : t # p /\ Drives(t, y)' => Drives(t, y)
      BY <1>11, <1>16 DEF Drives
    <3>2. Drives(p, y)' => y = x
      BY <1>17 DEF Drives
    <3> QED
      BY <1>10, <2>2, <3>1, <3>2 DEF FlowInv, DriverInv
  <2>3. ASSUME NEW y \in notifier'
        PROVE  /\ rvp'[y].outcome # "none"
               /\ rvp'[y].told < Len(ActionsUpTo[y][rvp'[y].phase])
    <3>1. y \in notifier /\ y \in Xct /\ y # x
      BY <1>2, <1>5, <2>3 DEF FlowInv, OtherTypes
    <3> QED
      BY <1>8, <3>1 DEF FlowInv, DriverInv
  <2> QED
    BY <2>1, <2>2, <2>3 DEF DriverInv
<1>20. PlaceInv'
  <2>1. submitted' = submitted
    BY <1>2 DEF history
  <2>2. \A b \in ActionId : /\ Queued(b)' => Queued(b) /\ Current(b)'
                            /\ Waits(b)' => Waits(b) /\ Current(b)'
                            /\ InHand(b)' => InHand(b) /\ Current(b)'
    BY <1>11, <1>12, <1>13, <1>15 DEF FlowInv, PlaceInv
  <2> QED
    BY <1>12, <1>13, <2>1, <2>2 DEF FlowInv, PlaceInv
<1>21. RanInv'
  <2>1. ran' = ran
    BY <1>2 DEF history
  <2>2. Posting
    BY <1>4, <1>11, <1>16, <1>1 DEF Posting
  <2>3. ASSUME NEW b \in ActionId, Sent(b)', ~Pending(b)', ~rvp'[XctOf[b]].aborted
        PROVE  b \in ran \/ (Sent(b) /\ ~Pending(b))
    <3>1. CASE b = a
      <4>1. ~rvp[x].aborted
        BY <1>4, <1>8, <2>3, <3>1
      <4> QED
        BY <1>1, <1>2, <3>1, <4>1 DEF FlowInv, RanInv
    <3>2. CASE b # a
      BY <1>11, <1>12, <1>13, <2>3, <3>2 DEF Pending
    <3> QED
      BY <3>1, <3>2
  <2>4. \A b \in ActionId : /\ Sent(b) => Sent(b)'
                            /\ Sent(b) /\ Queued(b)' => Queued(b)
                            /\ Waits(b)' => Waits(b) \/ Queued(b)
                            /\ InHand(b)' => InHand(b) \/ Waits(b) \/ Queued(b)
    BY <1>11, <1>12, <1>13
  <2>5. \A y \in Xct : rvp[y].aborted => rvp'[y].aborted
    BY <1>8
  <2> QED
    BY <2>1, <2>2, <2>3, <2>4, <2>5, RanKept
<1>22. CountInv'
  <2>1. Counted(x)'
    BY <1>3, <1>6, <1>8, CountsPhase
  <2>2. ASSUME NEW y \in Xct, y # x PROVE Counted(y)'
    <3>1. \A b \in ActionId : XctOf[b] = y => (Todo(b)' <=> Todo(b))
      BY <1>4, <1>11, <1>12, <1>13, <2>2 DEF Todo
    <3> QED
      BY <1>8, <2>2, <3>1, CountKept
  <2> QED
    BY <2>1, <2>2 DEF CountInv, Counted
<1>23. FlowInv'
  BY <1>18, <1>19, <1>20, <1>21, <1>22 DEF FlowInv
<1> QED
  BY <1>13, <1>23

-----------------------------------------------------------------------------
(***************************************************************************)
(* The steps of a worker that change a lock.                               *)
(***************************************************************************)
\* One lock of a partition's table changes.
Relocked(t, k, ll, t2) ==
    /\ t2 = [l \in DOMAIN t2 |-> t2[l]]
    /\ DOMAIN t2 = DOMAIN t \cup {k}
    /\ \A l \in DOMAIN t2 : t2[l] = IF l = k THEN ll ELSE t[l]

\* When one lock of a partition changes, its actions have changed and no others.
LEMMA LockChanged ==
    ASSUME LocksInv, NEW p \in Partition, NEW k \in Key, NEW after, LockInv(p, k, after),
           DOMAIN locks' = Partition, \A q \in Partition : q # p => locks'[q] = locks[q],
           Relocked(locks[p], k, after, locks'[p])
    PROVE  /\ LocksInv'
           /\ \A b \in ActionId : Part(b) = p /\ KeyOf(b) = k =>
                 /\ Waits(b)' <=> Occurs(b, after.waiters)
                 /\ Owns(b)' <=> Occurs(b, after.owners)
                 /\ Known(b)'
           /\ \A b \in ActionId : Part(b) # p \/ KeyOf(b) # k =>
                 /\ Waits(b)' <=> Waits(b)
                 /\ Owns(b)' <=> Owns(b)
                 /\ Known(b)' <=> Known(b)
<1>0. PICK table : /\ table = locks'[p] /\ table = [l \in DOMAIN table |-> table[l]]
                   /\ DOMAIN table = DOMAIN locks[p] \cup {k}
                   /\ \A l \in DOMAIN table : table[l] = IF l = k THEN after ELSE locks[p][l]
  BY DEF Relocked
<1>1. k \in DOMAIN table /\ table[k] = after
  BY <1>0
<1>2. LocksInv'
  <2>1. ASSUME NEW q \in Partition
        PROVE  /\ DOMAIN locks'[q] \subseteq Key
               /\ locks'[q] = [l \in DOMAIN locks'[q] |-> locks'[q][l]]
               /\ \A l \in DOMAIN locks'[q] : LockInv(q, l, locks'[q][l])
    <3>1. CASE q # p
      <4>1. locks'[q] = locks[q]
        BY <3>1
      <4> QED
        BY <4>1 DEF LocksInv
    <3>2. CASE q = p
      <4>1. DOMAIN table \subseteq Key
        BY <1>0 DEF LocksInv
      <4>2. ASSUME NEW l \in DOMAIN table PROVE LockInv(p, l, table[l])
        <5>1. CASE l = k
          BY <1>1, <5>1
        <5>2. CASE l # k
          BY <1>0, <5>2 DEF LocksInv
        <5> QED
          BY <5>1, <5>2
      <4> QED
        BY <1>0, <3>2, <4>1, <4>2
    <3> QED
      BY <3>1, <3>2
  <2> QED
    BY <2>1 DEF LocksInv
<1>3. ASSUME NEW b \in ActionId, Part(b) = p, KeyOf(b) = k
      PROVE  /\ Waits(b)' <=> Occurs(b, after.waiters)
             /\ Owns(b)' <=> Occurs(b, after.owners)
             /\ Known(b)'
  <2>1. k \in DOMAIN locks'[p] /\ locks'[p][k] = after
    BY <1>0, <1>1
  <2> QED
    BY <1>3, <2>1 DEF Waits, Owns, Known
<1>4. ASSUME NEW b \in ActionId, Part(b) # p \/ KeyOf(b) # k
      PROVE  /\ Waits(b)' <=> Waits(b)
             /\ Owns(b)' <=> Owns(b)
             /\ Known(b)' <=> Known(b)
  <2>1. Part(b) \in Partition /\ KeyOf(b) \in Key
    BY ActionFacts
  <2>2. /\ KeyOf(b) \in DOMAIN locks'[Part(b)] <=> KeyOf(b) \in DOMAIN locks[Part(b)]
        /\ KeyOf(b) \in DOMAIN locks[Part(b)] =>
              locks'[Part(b)][KeyOf(b)] = locks[Part(b)][KeyOf(b)]
    <3>1. CASE Part(b) # p
      BY <2>1, <3>1
    <3>2. CASE Part(b) = p
      BY <1>0, <1>4, <2>1, <3>2
    <3> QED
      BY <3>1, <3>2
  <2> QED
    BY <2>2 DEF Waits, Owns, Known
<1> QED
  BY <1>2, <1>3, <1>4

\* A worker at the top of its loop gets actions to serve.
LEMMA TakesUp ==
    ASSUME FlowInv, NEW p \in Partition, worker[p].pc \in {"drain", "loop"},
           NEW R \in Seq(ActionId), Home(p, R), Once(R), NEW q,
           worker' \in [Partition -> WorkerType],
           \A r \in Partition : r # p => worker'[r] = worker[r],
           worker'[p].ready = R, worker'[p].pc = IF R = <<>> THEN Top(q) ELSE "serve"
    PROVE  /\ Turned
           /\ \A b \in ActionId : InHand(b)' <=> InHand(b) \/ Has(R, b)
<1>1. WorkerInv(p, worker[p]) /\ worker[p].ready = <<>>
  BY DEF FlowInv, QueueInv, WorkerInv
<1>2. PICK w2 : w2 = worker'[p]
  OBVIOUS
<1>3. /\ w2 \in WorkerType /\ WorkerInv(p, w2)
      /\ w2.pc \in {"drain", "loop", "serve"} /\ (R # <<>> => w2.pc = "serve")
  BY <1>2 DEF WorkerInv, Top
<1>4. \A a : Hand(w2, a) <=> Has(R, a)
  <2>1. CASE R = <<>>
    BY <1>2, <2>1 DEF Hand, Has
  <2>2. CASE R # <<>>
    BY <1>2, <1>3, <2>2 DEF Hand, Has
  <2> QED
    BY <2>1, <2>2
<1>5. \A a : ~Hand(worker[p], a)
  BY <1>1 DEF Hand
<1>6. \A b \in ActionId : /\ InHand(b) <=> Hand(worker[Part(b)], b)
                          /\ InHand(b)' <=> Hand(worker'[Part(b)], b)
  BY DEF InHand, Hand
<1>7. ASSUME NEW b \in ActionId PROVE InHand(b)' <=> InHand(b) \/ Has(R, b)
  <2>1. Part(b) \in Partition /\ (Has(R, b) => Part(b) = p)
    BY ActionFacts DEF Has, Home
  <2> QED
    BY <1>2, <1>4, <1>5, <1>6, <2>1
<1>8. \A r \in Partition : r # p => Served(r)' = Served(r)
  BY DEF Served
<1>9. \A r \in Partition : WorkerInv(r, worker'[r])
  BY <1>2, <1>3 DEF FlowInv, QueueInv
<1> QED
  BY <1>2, <1>3, <1>7, <1>8, <1>9 DEF Turned

\* A step moves actions from the queue to a lock, and along the lock, and takes
\* from the lock only actions that came back.
LEMMA MovesKeep ==
    ASSUME FlowInv, Turned, LocksInv', UNCHANGED <<rvp, notifier, submitted, ran, prec, ended>>,
           prepared' \subseteq Partition, victims' \subseteq Xct,
           inq' \in [Partition -> Seq(ActionId)], commitq' \in [Partition -> Seq(ActionId)],
           \A p \in Partition : Home(p, inq'[p]) /\ Once(inq'[p]) /\ Home(p, commitq'[p]),
           \A b \in ActionId :
               /\ Pending(b)' <=> Pending(b)
               /\ Queued(b)' => Queued(b) /\ ~Waits(b)' /\ ~Owns(b)'
               /\ Waits(b)' => (Waits(b) \/ Queued(b)) /\ ~Owns(b)'
               /\ InHand(b)' => (InHand(b) \/ Waits(b) \/ Queued(b)) /\ Owns(b)'
               /\ Owns(b)' => Owns(b) \/ Waits(b) \/ Queued(b)
               /\ Owns(b) /\ Open(b) => Owns(b)'
               /\ Queued(b) \/ Waits(b) => Queued(b)' \/ Waits(b)' \/ Owns(b)'
               /\ Known(b) => Known(b)'
               /\ Queued(b) => Queued(b)' \/ Known(b)'
               /\ Back(b)' => Back(b)
    PROVE  FlowInv'
<1>1. \A b : /\ (Sent(b)' <=> Sent(b)) /\ (Current(b)' <=> Current(b))
             /\ (Open(b)' <=> Open(b))
  BY Unmoved
<1>2. RvpTypes' /\ QueueTypes' /\ OtherTypes' /\ EndInv'
  BY DEF FlowInv, RvpTypes, QueueTypes, OtherTypes, EndInv, Turned
<1>3. QueueInv'
  BY DEF FlowInv, QueueInv, Turned
<1>4. DriverInv'
  <2>1. ASSUME NEW r \in Partition PROVE DriverOK(r)'
    <3>1. PICK y : y = Serving(r)
      OBVIOUS
    <3>2. worker'[r].pc \in {"dispatch", "notify"} =>
              worker'[r].pc = worker[r].pc /\ Served(r)' = Served(r)
      BY <3>1 DEF Turned
    <3>3. worker'[r].pc = "dispatch" => Sending(y)'
      BY <3>1, <3>2 DEF FlowInv, DriverInv, DriverOK, Sending
    <3>4. worker'[r].pc = "notify" =>
              rvp'[y].told < Len(ActionsUpTo[y][rvp'[y].phase]) /\ y \notin notifier'
      BY <3>1, <3>2 DEF FlowInv, DriverInv, DriverOK
    <3>5. \A b \in ActionId : /\ Sent(b) => Sent(b)'
                              /\ Owns(b) /\ Open(b) => Owns(b)'
      BY <1>1
    <3> QED
      BY <3>1, <3>2, <3>3, <3>4, <3>5, DriverKept
  <2>2. \A p, q \in Partition, y \in Xct : Drives(p, y)' /\ Drives(q, y)' => p = q
    BY DrivesLess DEF FlowInv, DriverInv
  <2>3. \A y \in notifier' : /\ rvp'[y].outcome # "none"
                             /\ rvp'[y].told < Len(ActionsUpTo[y][rvp'[y].phase])
    BY DEF FlowInv, DriverInv
  <2> QED
    BY <2>1, <2>2, <2>3 DEF DriverInv
<1>5. PlaceInv'
  <2>1. submitted' = submitted
    OBVIOUS
  <2> QED
    BY <1>1, <2>1 DEF FlowInv, PlaceInv
<1>6. RanInv'
  <2>1. ran' = ran
    OBVIOUS
  <2>2. \A b \in ActionId : /\ Sent(b) => Sent(b)'
                            /\ Sent(b) /\ Queued(b)' => Queued(b)
                            /\ Waits(b)' => Waits(b) \/ Queued(b)
                            /\ InHand(b)' => InHand(b) \/ Waits(b) \/ Queued(b)
    BY <1>1
  <2> QED
    BY <1>1, <2>1, <2>2, RanKept, TurnedPosts
<1>7. CountInv'
  <2>1. \A b \in ActionId : Todo(b)' <=> Todo(b)
    BY <1>1 DEF Todo, Pending
  <2>2. \A y \in Xct : Counted(y)'
    BY <2>1, CountKept
  <2> QED
    BY <2>2 DEF CountInv, Counted
<1> QED
  BY <1>2, <1>3, <1>4, <1>5, <1>6, <1>7 DEF FlowInv

\* Where the actions are after a step that changed one lock, from the lists of it.
LEMMA OnThatLock ==
    ASSUME NEW b \in ActionId, NEW p, NEW k, Part(b) = p, KeyOf(b) = k,
           NEW ll, k \in DOMAIN locks[p], ll = locks[p][k]
    PROVE  /\ Known(b) /\ (Waits(b) <=> Occurs(b, ll.waiters))
           /\ Owns(b) <=> Occurs(b, ll.owners)
  BY DEF Known, Waits, Owns

\* Action a gave its key back, and those that do not wait any more own it.
Freed(a) ==
    \A b \in ActionId :
        /\ Queued(b)' <=> Queued(b)
        /\ Waits(b)' => Waits(b)
        /\ Owns(b)' <=> (Owns(b) /\ b # a) \/ (Waits(b) /\ ~Waits(b)')

\* 2a-2c: a committed action gives its key back, and waiters get it.
LEMMA ReleaseCommittedKeeps ==
    ASSUME FlowInv, NEW p \in Partition, ReleaseCommitted(p)
    PROVE  /\ FlowInv'
           /\ Freed(Head(commitq[p]))
           /\ \A b \in ActionId : ~Open(b) => (Owns(b)' <=> Owns(b) /\ b # Head(commitq[p]))
<1>1. PICK a, k, ll : a = Head(commitq[p]) /\ k = KeyOf(a) /\ ll = locks[p][k]
  BY Zenon
<1>2. /\ worker[p].pc \in {"drain", "loop"} /\ commitq[p] # <<>>
      /\ commitq \in [Partition -> Seq(ActionId)] /\ worker \in [Partition -> WorkerType]
      /\ \A q \in Partition : Home(q, commitq[q])
      /\ commitq' = [commitq EXCEPT ![p] = Tail(commitq[p])]
      /\ UNCHANGED <<rvp, inq, notifier, history>>
  BY DEF ReleaseCommitted, FlowInv, QueueTypes, QueueInv
<1>3. /\ a \in ActionId /\ Part(a) = p /\ Tail(commitq[p]) \in Seq(ActionId)
      /\ Home(p, Tail(commitq[p])) /\ Has(commitq[p], a)
      /\ \A c : Has(commitq[p], c) <=> c = a \/ Has(Tail(commitq[p]), c)
  <2>1. commitq[p] \in Seq(ActionId) /\ Home(p, commitq[p])
    BY <1>2
  <2> QED
    BY <1>1, <1>2, <2>1, Popped
<1>4. PICK after, promoted :
         /\ after = Release(ll, XctOf[a]) /\ promoted = Promoted(ll, after)
         /\ locks' = [locks EXCEPT ![p][k] = after]
         /\ worker' = [worker EXCEPT
               ![p].ready = ReadyOf(promoted),
               ![p].pc = IF promoted = <<>> THEN Top(commitq'[p]) ELSE "serve"]
  <2>1. PICK after \in {Release(locks[p][KeyOf(Head(commitq[p]))], XctOf[Head(commitq[p])])} :
           /\ locks' = [locks EXCEPT ![p][KeyOf(Head(commitq[p]))] = after]
           /\ worker' = [worker EXCEPT
                 ![p].ready = ReadyOf(Promoted(locks[p][KeyOf(Head(commitq[p]))], after)),
                 ![p].pc = IF Promoted(locks[p][KeyOf(Head(commitq[p]))], after) = <<>>
                           THEN Top(commitq'[p]) ELSE "serve"]
    BY Zenon DEF ReleaseCommitted, Promoted, ReadyOf
  <2> QED
    BY <1>1, <2>1
<1>5. PICK R, q : R = ReadyOf(promoted) /\ q = commitq'[p]
  OBVIOUS
<1>6. Sent(a) /\ ~Open(a) /\ Known(a) /\ ~Queued(a) /\ ~Waits(a)
  <2>1. Back(a)
    BY <1>3 DEF Back
  <2> QED
    BY <1>3, <2>1 DEF FlowInv, PlaceInv
<1>7. /\ k \in Key /\ k \in DOMAIN locks[p] /\ LockInv(p, k, ll) /\ ~Occurs(a, ll.waiters)
  <2>1. k \in Key /\ k \in DOMAIN locks[p]
    BY <1>1, <1>3, <1>6, ActionFacts, Zenon DEF Known
  <2> QED
    BY <1>1, <1>3, <1>6, <2>1, OnThatLock DEF FlowInv, LocksInv
<1>8. /\ LockInv(p, k, after)
      /\ R \in Seq(ActionId) /\ Home(p, R) /\ Once(R) /\ (promoted = <<>> <=> R = <<>>)
      /\ \A b : Occurs(b, ll.waiters) <=> Occurs(b, after.waiters) \/ Has(R, b)
      /\ \A b : Has(R, b) => ~Occurs(b, after.waiters)
      /\ \A b : Occurs(b, after.owners) <=> (b # a /\ Occurs(b, ll.owners)) \/ Has(R, b)
  <2>1. LockInv(Part(a), KeyOf(a), ll) /\ after = Release(ll, XctOf[a])
    BY <1>1, <1>3, <1>4, <1>7
  <2>2. LET ready == ReadyOf(Promoted(ll, after))
        IN  /\ LockInv(Part(a), KeyOf(a), after)
            /\ ready \in Seq(ActionId) /\ Home(Part(a), ready) /\ Once(ready)
            /\ Promoted(ll, after) = <<>> <=> ready = <<>>
            /\ \A b : Occurs(b, ll.waiters) <=> Occurs(b, after.waiters) \/ Has(ready, b)
            /\ \A b : Has(ready, b) => ~Occurs(b, after.waiters)
            /\ \A b : Occurs(b, after.owners) <=>
                      (b # a /\ Occurs(b, ll.owners)) \/ Has(ready, b)
    BY <1>3, <1>7, <2>1, ReleaseKey, Zenon
  <2> QED
    BY <1>1, <1>3, <1>4, <1>5, <2>2, Zenon
<1>9. /\ commitq' \in [Partition -> Seq(ActionId)]
      /\ \A r \in Partition : Home(r, commitq'[r])
      /\ \A b \in ActionId : Back(b)' => Back(b)
  <2>1. /\ commitq' \in [Partition -> Seq(ActionId)]
        /\ \A r \in Partition : r # p => commitq'[r] = commitq[r]
        /\ commitq'[p] = Tail(commitq[p])
    BY <1>2, <1>3
  <2>2. \A b \in ActionId : Part(b) \in Partition
    BY ActionFacts
  <2> QED
    BY <1>2, <1>3, <2>1, <2>2 DEF Back
<1>10. /\ LocksInv'
       /\ \A b \in ActionId : Part(b) = p /\ KeyOf(b) = k =>
             /\ Waits(b)' <=> Occurs(b, after.waiters)
             /\ Owns(b)' <=> Occurs(b, after.owners)
             /\ Known(b)'
       /\ \A b \in ActionId : Part(b) # p \/ KeyOf(b) # k =>
             /\ Waits(b)' <=> Waits(b)
             /\ Owns(b)' <=> Owns(b)
             /\ Known(b)' <=> Known(b)
  <2>1. LocksInv
    BY DEF FlowInv
  <2>2. PICK table : table = locks'[p]
    OBVIOUS
  <2>3. DOMAIN locks = Partition /\ locks[p] = [l \in DOMAIN locks[p] |-> locks[p][l]]
    BY <2>1 DEF LocksInv
  <2>4. /\ DOMAIN locks' = Partition /\ \A r \in Partition : r # p => locks'[r] = locks[r]
        /\ table = [locks[p] EXCEPT ![k] = after]
    BY <1>4, <2>2, <2>3
  <2>5. Relocked(locks[p], k, after, locks'[p])
    BY <2>2, <1>7, <2>3, <2>4 DEF Relocked
  <2> QED
    BY <1>7, <1>8, <2>1, <2>4, <2>5, LockChanged
<1>11. /\ Turned
       /\ \A b \in ActionId : InHand(b)' <=> InHand(b) \/ Has(R, b)
  <2>1. /\ worker' \in [Partition -> WorkerType]
        /\ \A r \in Partition : r # p => worker'[r] = worker[r]
        /\ worker'[p].ready = R
        /\ worker'[p].pc = IF R = <<>> THEN Top(q) ELSE "serve"
    <3>1. PICK pc : pc = IF R = <<>> THEN Top(q) ELSE "serve"
      OBVIOUS
    <3>2. pc \in {"drain", "loop", "serve"}
      BY <3>1 DEF Top
    <3>3. worker' = [worker EXCEPT ![p].ready = R, ![p].pc = pc]
      BY <1>4, <1>5, <1>8, <3>1
    <3>4. worker[p] \in WorkerType
      BY <1>2
    <3>5. /\ worker'[p] = [pc |-> pc, ready |-> R, error |-> worker[p].error]
          /\ \A r \in Partition : r # p => worker'[r] = worker[r]
      BY <1>2, <3>3, <3>4 DEF WorkerType
    <3>6. [pc |-> pc, ready |-> R, error |-> worker[p].error] \in WorkerType
      BY <1>8, <3>2, <3>4 DEF WorkerType
    <3>7. worker' \in [Partition -> WorkerType]
      BY <1>2, <3>3, <3>5, <3>6
    <3> QED
      BY <3>1, <3>5, <3>7
  <2> QED
    BY <1>2, <1>8, <2>1, TakesUp
<1>12. \A b : /\ (Queued(b)' <=> Queued(b)) /\ (Open(b)' <=> Open(b))
  BY <1>2, Unmoved
<1>13. ASSUME NEW b \in ActionId
       PROVE  /\ Pending(b)' <=> Pending(b)
              /\ Queued(b)' => Queued(b) /\ ~Waits(b)' /\ ~Owns(b)'
              /\ Waits(b)' => (Waits(b) \/ Queued(b)) /\ ~Owns(b)'
              /\ InHand(b)' => (InHand(b) \/ Waits(b) \/ Queued(b)) /\ Owns(b)'
              /\ Owns(b)' => Owns(b) \/ Waits(b) \/ Queued(b)
              /\ Owns(b) /\ Open(b) => Owns(b)'
              /\ Queued(b) \/ Waits(b) => Queued(b)' \/ Waits(b)' \/ Owns(b)'
              /\ Known(b) => Known(b)'
              /\ Queued(b) => Queued(b)' \/ Known(b)'
  <2>1. /\ Queued(b) => ~Waits(b) /\ ~Owns(b)
        /\ Waits(b) => ~Owns(b)
        /\ InHand(b) => Owns(b) /\ Open(b)
    BY DEF FlowInv, PlaceInv
  <2>2. Has(R, b) => Part(b) = p /\ KeyOf(b) = k
    BY <1>7, <1>8, LockFacts
  <2>3. CASE Part(b) = p /\ KeyOf(b) = k
    <3>1. Known(b) /\ (Waits(b) <=> Occurs(b, ll.waiters)) /\ (Owns(b) <=> Occurs(b, ll.owners))
      BY <1>1, <1>7, <2>3, OnThatLock
    <3>2. Occurs(b, after.owners) => ~Occurs(b, after.waiters)
      BY <1>8, LockFacts
    <3> QED
      BY <1>6, <1>8, <1>10, <1>11, <1>12, <2>1, <2>3, <3>1, <3>2 DEF Pending
  <2>4. CASE Part(b) # p \/ KeyOf(b) # k
    BY <1>10, <1>11, <1>12, <2>1, <2>2, <2>4 DEF Pending
  <2> QED
    BY <2>3, <2>4
<1>14. /\ inq' \in [Partition -> Seq(ActionId)]
       /\ \A r \in Partition : Home(r, inq'[r]) /\ Once(inq'[r])
  BY <1>2 DEF FlowInv, QueueTypes, QueueInv
<1>15. /\ UNCHANGED <<submitted, ran, prec, ended>>
       /\ prepared' \subseteq Partition /\ victims' \subseteq Xct
  BY <1>2 DEF history, newrun, FlowInv, OtherTypes
<1>16. FlowInv'
  BY <1>2, <1>9, <1>10, <1>11, <1>13, <1>14, <1>15, MovesKeep
<1>17. ASSUME NEW b \in ActionId, ~Open(b) PROVE Owns(b)' <=> Owns(b) /\ b # a
  <2>1. ~Waits(b)
    BY <1>17 DEF FlowInv, PlaceInv
  <2>2. CASE Part(b) = p /\ KeyOf(b) = k
    <3>1. (Waits(b) <=> Occurs(b, ll.waiters)) /\ (Owns(b) <=> Occurs(b, ll.owners))
      BY <1>1, <1>7, <2>2, OnThatLock
    <3> QED
      BY <1>8, <1>10, <2>1, <2>2, <3>1
  <2>3. CASE Part(b) # p \/ KeyOf(b) # k
    BY <1>1, <1>3, <1>10, <2>3
  <2> QED
    BY <2>2, <2>3
<1>18. Freed(a)
  <2> SUFFICES ASSUME NEW b \in ActionId
               PROVE  /\ Queued(b)' <=> Queued(b)
                      /\ Waits(b)' => Waits(b)
                      /\ Owns(b)' <=> (Owns(b) /\ b # a) \/ (Waits(b) /\ ~Waits(b)')
    BY DEF Freed
  <2>1. CASE Part(b) = p /\ KeyOf(b) = k
    <3>1. (Waits(b) <=> Occurs(b, ll.waiters)) /\ (Owns(b) <=> Occurs(b, ll.owners))
      BY <1>1, <1>7, <2>1, OnThatLock
    <3>2. (Waits(b)' <=> Occurs(b, after.waiters)) /\ (Owns(b)' <=> Occurs(b, after.owners))
      BY <1>10, <2>1
    <3> QED
      BY <1>8, <1>12, <3>1, <3>2
  <2>2. CASE Part(b) # p \/ KeyOf(b) # k
    <3>1. b # a
      BY <1>1, <1>3, <2>2
    <3> QED
      BY <1>10, <1>12, <2>2, <3>1
  <2> QED
    BY <2>1, <2>2
<1> QED
  BY <1>1, <1>16, <1>17, <1>18

\* Action a left the input queue and waits for its key or owns it.
Asked(a, waits) ==
    \A b \in ActionId :
        /\ Queued(b)' <=> Queued(b) /\ b # a
        /\ Waits(b)' <=> Waits(b) \/ (b = a /\ waits)
        /\ Owns(b)' <=> Owns(b) \/ (b = a /\ ~waits)

\* Whether action a has to wait for its key.
HasToWait(a) ==
    KeyOf(a) \in DOMAIN locks[Part(a)] /\ MustWait(locks[Part(a)][KeyOf(a)], Req(a))

\* 3-4: an input action asks for its key.
LEMMA DequeueKeeps ==
    ASSUME FlowInv, NEW p \in Partition, Dequeue(p)
    PROVE  /\ FlowInv'
           /\ Head(inq[p]) \in ActionId /\ Part(Head(inq[p])) = p /\ Queued(Head(inq[p]))
           /\ Asked(Head(inq[p]), HasToWait(Head(inq[p])))
           /\ \A b \in ActionId : ~Open(b) => (Owns(b)' <=> Owns(b))
<1>1. PICK a, k : a = Head(inq[p]) /\ k = KeyOf(a)
  OBVIOUS
<1>2. /\ worker[p].pc = "loop" /\ inq[p] # <<>>
      /\ inq \in [Partition -> Seq(ActionId)] /\ worker \in [Partition -> WorkerType]
      /\ \A q \in Partition : Home(q, inq[q]) /\ Once(inq[q])
      /\ inq' = [inq EXCEPT ![p] = Tail(inq[p])]
      /\ UNCHANGED <<rvp, commitq, notifier, history>>
  BY DEF Dequeue, FlowInv, QueueTypes, QueueInv
<1>3. /\ a \in ActionId /\ Part(a) = p /\ Tail(inq[p]) \in Seq(ActionId)
      /\ Home(p, Tail(inq[p])) /\ Once(Tail(inq[p])) /\ Has(inq[p], a)
      /\ ~Has(Tail(inq[p]), a)
      /\ \A c : Has(inq[p], c) <=> c = a \/ Has(Tail(inq[p]), c)
  <2>1. inq[p] \in Seq(ActionId) /\ Home(p, inq[p]) /\ Once(inq[p])
    BY <1>2
  <2> QED
    BY <1>1, <1>2, <2>1, Popped
<1>30. PICK waits \in BOOLEAN : waits <=> k \in DOMAIN locks[p] /\ MustWait(locks[p][k], Req(a))
  OBVIOUS
<1>31. PICK ll : ll = IF k \in DOMAIN locks[p] THEN Acquire(locks[p][k], Req(a)) ELSE NewLock(Req(a))
  OBVIOUS
<1>5. /\ locks' = [locks EXCEPT ![p] =
            [l \in DOMAIN @ \cup {k} |-> IF l = k THEN ll ELSE @[l]]]
      /\ worker' = [worker EXCEPT
            ![p].ready = IF waits THEN <<>> ELSE <<a>>,
            ![p].pc = IF waits THEN Top(commitq[p]) ELSE "serve"]
  BY <1>1, <1>30, <1>31 DEF Dequeue
<1>6. Queued(a) /\ ~Waits(a) /\ ~Owns(a)
  <2>1. Queued(a)
    BY <1>3 DEF Queued, Has
  <2> QED
    BY <1>3, <2>1 DEF FlowInv, PlaceInv
<1>7. k \in Key /\ waits \in BOOLEAN
  BY <1>1, <1>3, <1>30, <1>31, ActionFacts
<1>8. /\ LockInv(p, k, ll)
      /\ \A b \in ActionId : Part(b) = p /\ KeyOf(b) = k =>
            /\ Occurs(b, ll.owners) <=> Owns(b) \/ (b = a /\ ~waits)
            /\ Occurs(b, ll.waiters) <=> Waits(b) \/ (b = a /\ waits)
  <2>1. CASE k \in DOMAIN locks[p]
    <3>1. PICK held : held = locks[p][k]
      OBVIOUS
    <3>2. k \in DOMAIN locks[p] /\ LockInv(p, k, held) /\ ll = Acquire(held, Req(a))
          /\ (waits <=> MustWait(held, Req(a)))
      BY <1>30, <1>31, <2>1, <3>1 DEF FlowInv, LocksInv
    <3>3. \A b \in ActionId : Part(b) = p /\ KeyOf(b) = k =>
             (Waits(b) <=> Occurs(b, held.waiters)) /\ (Owns(b) <=> Occurs(b, held.owners))
      BY <3>1, <3>2, OnThatLock
    <3>4. ~Occurs(a, held.owners) /\ ~Occurs(a, held.waiters)
      BY <1>1, <1>3, <1>6, <3>3
    <3>5. LockInv(Part(a), KeyOf(a), held) /\ ll = Acquire(held, Req(a))
      BY <1>1, <1>3, <3>2
    <3>6. /\ LockInv(Part(a), KeyOf(a), ll)
          /\ \A b : Occurs(b, ll.owners) <=>
                    Occurs(b, held.owners) \/ (b = a /\ ~MustWait(held, Req(a)))
          /\ \A b : Occurs(b, ll.waiters) <=>
                    Occurs(b, held.waiters) \/ (b = a /\ MustWait(held, Req(a)))
      BY <1>3, <3>4, <3>5, AcquireKey, Zenon
    <3> QED
      BY <1>1, <1>3, <3>2, <3>3, <3>6
  <2>2. CASE k \notin DOMAIN locks[p]
    <3>1. ll = NewLock(Req(a)) /\ ~waits /\ k \notin DOMAIN locks[p]
      BY <1>30, <1>31, <2>2
    <3>2. /\ LockInv(Part(a), KeyOf(a), ll)
          /\ \A b : Occurs(b, ll.owners) <=> b = a
          /\ \A b : ~Occurs(b, ll.waiters)
      BY <1>3, <3>1, NewKey, Zenon
    <3>3. \A b \in ActionId : Part(b) = p /\ KeyOf(b) = k => ~Waits(b) /\ ~Owns(b)
      BY <3>1 DEF Waits, Owns
    <3> QED
      BY <1>1, <1>3, <3>1, <3>2, <3>3
  <2> QED
    BY <2>1, <2>2
<1>9. /\ inq' \in [Partition -> Seq(ActionId)]
      /\ \A r \in Partition : Home(r, inq'[r]) /\ Once(inq'[r])
      /\ \A b \in ActionId : Queued(b)' <=> Queued(b) /\ b # a
  <2>1. /\ inq' \in [Partition -> Seq(ActionId)]
        /\ \A r \in Partition : r # p => inq'[r] = inq[r]
        /\ inq'[p] = Tail(inq[p])
    BY <1>2, <1>3
  <2>2. \A b \in ActionId : /\ Queued(b) <=> Has(inq[Part(b)], b)
                            /\ Queued(b)' <=> Has(inq'[Part(b)], b)
    BY DEF Queued, Has
  <2>3. \A b \in ActionId : Part(b) \in Partition
    BY ActionFacts
  <2> QED
    BY <1>2, <1>3, <2>1, <2>2, <2>3
<1>10. /\ LocksInv'
       /\ \A b \in ActionId : Part(b) = p /\ KeyOf(b) = k =>
             /\ Waits(b)' <=> Occurs(b, ll.waiters)
             /\ Owns(b)' <=> Occurs(b, ll.owners)
             /\ Known(b)'
       /\ \A b \in ActionId : Part(b) # p \/ KeyOf(b) # k =>
             /\ Waits(b)' <=> Waits(b)
             /\ Owns(b)' <=> Owns(b)
             /\ Known(b)' <=> Known(b)
  <2>1. LocksInv
    BY DEF FlowInv
  <2>2. PICK table : table = locks'[p]
    OBVIOUS
  <2>3. DOMAIN locks = Partition
    BY <2>1 DEF LocksInv
  <2>4. /\ DOMAIN locks' = Partition /\ \A r \in Partition : r # p => locks'[r] = locks[r]
        /\ table = [l \in DOMAIN locks[p] \cup {k} |-> IF l = k THEN ll ELSE locks[p][l]]
    BY <1>5, <2>2, <2>3
  <2>5. Relocked(locks[p], k, ll, locks'[p])
    BY <2>2, <2>4 DEF Relocked
  <2> QED
    BY <1>7, <1>8, <2>1, <2>4, <2>5, LockChanged
<1>11. /\ Turned
       /\ \A b \in ActionId : InHand(b)' <=> InHand(b) \/ (b = a /\ ~waits)
  <2>1. PICK R, q, pc : /\ R = IF waits THEN <<>> ELSE <<a>>
                        /\ q = commitq[p] /\ pc = IF waits THEN Top(q) ELSE "serve"
    OBVIOUS
  <2>2. /\ R \in Seq(ActionId) /\ Home(p, R) /\ Once(R) /\ (R = <<>> <=> waits)
        /\ \A b : Has(R, b) <=> b = a /\ ~waits
    <3>1. CASE waits
      BY <2>1, <3>1 DEF Home, Once, Has
    <3>2. CASE ~waits
      BY <1>3, <2>1, <3>2 DEF Home, Once, Has
    <3> QED
      BY <3>1, <3>2
  <2>3. pc \in {"drain", "loop", "serve"} /\ pc = IF R = <<>> THEN Top(q) ELSE "serve"
    BY <2>1, <2>2 DEF Top
  <2>4. /\ worker' \in [Partition -> WorkerType]
        /\ \A r \in Partition : r # p => worker'[r] = worker[r]
        /\ worker'[p].ready = R /\ worker'[p].pc = pc
    <3>1. worker' = [worker EXCEPT ![p].ready = R, ![p].pc = pc]
      BY <1>5, <2>1
    <3>2. worker[p] \in WorkerType
      BY <1>2
    <3>3. /\ worker'[p] = [pc |-> pc, ready |-> R, error |-> worker[p].error]
          /\ \A r \in Partition : r # p => worker'[r] = worker[r]
      BY <1>2, <3>1, <3>2 DEF WorkerType
    <3>4. [pc |-> pc, ready |-> R, error |-> worker[p].error] \in WorkerType
      BY <2>2, <2>3, <3>2 DEF WorkerType
    <3>5. worker' \in [Partition -> WorkerType]
      BY <1>2, <3>1, <3>3, <3>4
    <3> QED
      BY <3>3, <3>5
  <2>5. /\ Turned
        /\ \A b \in ActionId : InHand(b)' <=> InHand(b) \/ Has(R, b)
    BY <1>2, <2>2, <2>3, <2>4, TakesUp
  <2> QED
    BY <2>2, <2>5
<1>12. \A b : (Back(b)' <=> Back(b)) /\ (Open(b)' <=> Open(b))
  BY <1>2, Unmoved
<1>13. ASSUME NEW b \in ActionId
       PROVE  /\ Pending(b)' <=> Pending(b)
              /\ Queued(b)' => Queued(b) /\ ~Waits(b)' /\ ~Owns(b)'
              /\ Waits(b)' => (Waits(b) \/ Queued(b)) /\ ~Owns(b)'
              /\ InHand(b)' => (InHand(b) \/ Waits(b) \/ Queued(b)) /\ Owns(b)'
              /\ Owns(b)' => Owns(b) \/ Waits(b) \/ Queued(b)
              /\ Owns(b) /\ Open(b) => Owns(b)'
              /\ Queued(b) \/ Waits(b) => Queued(b)' \/ Waits(b)' \/ Owns(b)'
              /\ Known(b) => Known(b)'
              /\ Queued(b) => Queued(b)' \/ Known(b)'
  <2>1. /\ Queued(b) => ~Waits(b) /\ ~Owns(b)
        /\ Waits(b) => ~Owns(b)
        /\ InHand(b) => Owns(b)
    BY DEF FlowInv, PlaceInv
  <2>2. Queued(b)' <=> Queued(b) /\ b # a
    BY <1>9
  <2>3. InHand(b)' <=> InHand(b) \/ (b = a /\ ~waits)
    BY <1>11
  <2>4. CASE Part(b) = p /\ KeyOf(b) = k
    <3>1. /\ Waits(b)' <=> Waits(b) \/ (b = a /\ waits)
          /\ Owns(b)' <=> Owns(b) \/ (b = a /\ ~waits)
          /\ Known(b)'
      BY <1>8, <1>10, <2>4
    <3> QED
      BY <1>6, <1>7, <2>1, <2>2, <2>3, <3>1 DEF Pending
  <2>5. CASE Part(b) # p \/ KeyOf(b) # k
    <3>1. b # a
      BY <1>1, <1>3, <2>5
    <3>2. (Waits(b)' <=> Waits(b)) /\ (Owns(b)' <=> Owns(b)) /\ (Known(b)' <=> Known(b))
      BY <1>10, <2>5
    <3> QED
      BY <2>1, <2>2, <2>3, <3>1, <3>2 DEF Pending
  <2> QED
    BY <2>4, <2>5
<1>14. /\ commitq' \in [Partition -> Seq(ActionId)]
       /\ \A r \in Partition : Home(r, inq'[r]) /\ Once(inq'[r]) /\ Home(r, commitq'[r])
  BY <1>2, <1>9 DEF FlowInv, QueueTypes, QueueInv
<1>15. /\ UNCHANGED <<submitted, ran, prec, ended>>
       /\ prepared' \subseteq Partition /\ victims' \subseteq Xct
  BY <1>2 DEF history, newrun, FlowInv, OtherTypes
<1>16. FlowInv'
  BY <1>2, <1>9, <1>10, <1>11, <1>12, <1>13, <1>14, <1>15, MovesKeep
<1>17. ASSUME NEW b \in ActionId, ~Open(b) PROVE Owns(b)' <=> Owns(b)
  <2>1. b # a
    BY <1>3, <1>6, <1>17 DEF FlowInv, PlaceInv
  <2>2. CASE Part(b) = p /\ KeyOf(b) = k
    BY <1>8, <1>10, <2>1, <2>2
  <2>3. CASE Part(b) # p \/ KeyOf(b) # k
    BY <1>10, <2>3
  <2> QED
    BY <2>2, <2>3
<1>18. waits <=> HasToWait(a)
  BY <1>1, <1>3, <1>30, <1>31 DEF HasToWait
<1>19. ASSUME NEW b \in ActionId
       PROVE  /\ Queued(b)' <=> Queued(b) /\ b # a
              /\ Waits(b)' <=> Waits(b) \/ (b = a /\ waits)
              /\ Owns(b)' <=> Owns(b) \/ (b = a /\ ~waits)
  <2>1. CASE Part(b) = p /\ KeyOf(b) = k
    BY <1>8, <1>9, <1>10, <2>1
  <2>2. CASE Part(b) # p \/ KeyOf(b) # k
    <3>1. b # a
      BY <1>1, <1>3, <2>2
    <3> QED
      BY <1>9, <1>10, <2>2, <3>1
  <2> QED
    BY <2>1, <2>2
<1>20. Asked(a, HasToWait(a))
  BY <1>18, <1>19 DEF Asked
<1> QED
  BY <1>1, <1>3, <1>6, <1>16, <1>17, <1>20

\* prepareNewRun(), when every client waited for its transaction: everyone whose
\* keys may be taken has ended.
LEMMA PrepareNewRunKeeps ==
    ASSUME FlowInv, PrepareNewRun, Followed'
    PROVE  /\ FlowInv'
           /\ \A b \in ActionId : /\ Owns(b)' => Owns(b)
                                  /\ Part(b) \notin prepared' \ prepared => (Owns(b) => Owns(b)')
<1>1. PICK p : p = CHOOSE q \in Partition \ prepared : TRUE
  OBVIOUS
<1>2. /\ RunOver /\ prepared # Partition
      /\ locks' = [locks EXCEPT ![p] =
            [k \in DOMAIN @ |-> IF Clean(@[k]) THEN @[k] ELSE AbortAndReset]]
      /\ prepared' = prepared \cup {p} /\ victims' = victims \cup Owners(p)
      /\ UNCHANGED <<rvp, inq, commitq, worker, notifier, submitted, ran, prec, ended>>
  BY <1>1 DEF PrepareNewRun, ToPrepare
<1>3. p \in Partition /\ prepared' \subseteq Partition /\ prepared' # {}
  BY <1>1, <1>2 DEF FlowInv, OtherTypes
<1>4. ASSUME NEW b \in ActionId PROVE ~Queued(b) /\ ~Waits(b) /\ ~InHand(b) /\ ~(Owns(b) /\ Open(b))
  <2>1. PICK x : x = XctOf[b]
    OBVIOUS
  <2>2. submitted \subseteq Waited
    BY <1>2, <1>3 DEF Followed
  <2>3. x \in submitted => rvp[x].outcome # "none"
    BY <1>2, <2>2 DEF RunOver, Heard
  <2>4. Sent(b) => ~Open(b)
    BY <2>1, <2>3 DEF Open, FlowInv, PlaceInv
  <2> QED
    BY <2>4 DEF FlowInv, PlaceInv
<1>5. DOMAIN locks = Partition /\ DOMAIN locks' = Partition
      /\ \A q \in Partition : q # p => locks'[q] = locks[q]
  BY <1>2 DEF FlowInv, LocksInv
<1>6. PICK t, t2 : t = locks[p] /\ t2 = locks'[p]
  OBVIOUS
<1>7. t2 = [k \in DOMAIN t |-> IF Clean(t[k]) THEN t[k] ELSE AbortAndReset]
  BY <1>2, <1>3, <1>5, <1>6
<1>8. /\ DOMAIN t2 = DOMAIN t /\ t2 = [k \in DOMAIN t2 |-> t2[k]]
      /\ \A k \in DOMAIN t : t2[k] \in {t[k], AbortAndReset}
  BY <1>7
<1>9. DOMAIN t \subseteq Key /\ \A k \in DOMAIN t : LockInv(p, k, t[k])
  BY <1>3, <1>6 DEF FlowInv, LocksInv
<1>10. LocksInv'
  <2>1. ASSUME NEW q \in Partition
        PROVE  /\ DOMAIN locks'[q] \subseteq Key
               /\ locks'[q] = [l \in DOMAIN locks'[q] |-> locks'[q][l]]
               /\ \A l \in DOMAIN locks'[q] : LockInv(q, l, locks'[q][l])
    <3>1. CASE q # p
      <4>1. locks'[q] = locks[q]
        BY <1>5, <3>1
      <4> QED
        BY <4>1 DEF FlowInv, LocksInv
    <3>2. CASE q = p
      <4>1. \A l \in DOMAIN t2 : LockInv(p, l, t2[l])
        BY <1>8, <1>9, ResetKey
      <4> QED
        BY <1>6, <1>8, <1>9, <3>2, <4>1
    <3> QED
      BY <3>1, <3>2
  <2> QED
    BY <1>5, <2>1 DEF LocksInv
<1>11. ASSUME NEW b \in ActionId
       PROVE  (Waits(b)' => Waits(b)) /\ (Owns(b)' => Owns(b)) /\ (Known(b)' <=> Known(b))
  <2>1. PICK k, q : k = KeyOf(b) /\ q = Part(b) /\ q \in Partition
    BY ActionFacts
  <2>2. CASE q # p
    <3>1. locks'[q] = locks[q]
      BY <1>5, <2>1, <2>2
    <3> QED
      BY <2>1, <3>1 DEF Waits, Owns, Known
  <2>3. CASE q = p
    <3>1. ASSUME k \in DOMAIN t
          PROVE  /\ Occurs(b, t2[k].waiters) => Occurs(b, t[k].waiters)
                 /\ Occurs(b, t2[k].owners) => Occurs(b, t[k].owners)
      BY <1>8, <3>1, ResetKey
    <3> QED
      BY <1>6, <1>8, <2>1, <2>3, <3>1 DEF Waits, Owns, Known
  <2> QED
    BY <2>2, <2>3
<1>12. Turned /\ \A b : InHand(b)' <=> InHand(b)
  BY <1>2, TurnedSame
<1>13. \A b : (Queued(b)' <=> Queued(b)) /\ (Back(b)' <=> Back(b))
  BY <1>2, Unmoved
<1>14. /\ inq' \in [Partition -> Seq(ActionId)] /\ commitq' \in [Partition -> Seq(ActionId)]
       /\ \A r \in Partition : Home(r, inq'[r]) /\ Once(inq'[r]) /\ Home(r, commitq'[r])
  BY <1>2 DEF FlowInv, QueueTypes, QueueInv
<1>15. ASSUME NEW b \in ActionId
       PROVE  /\ Pending(b)' <=> Pending(b)
              /\ Queued(b)' => Queued(b) /\ ~Waits(b)' /\ ~Owns(b)'
              /\ Waits(b)' => (Waits(b) \/ Queued(b)) /\ ~Owns(b)'
              /\ InHand(b)' => (InHand(b) \/ Waits(b) \/ Queued(b)) /\ Owns(b)'
              /\ Owns(b)' => Owns(b) \/ Waits(b) \/ Queued(b)
              /\ Owns(b) /\ Open(b) => Owns(b)'
              /\ Queued(b) \/ Waits(b) => Queued(b)' \/ Waits(b)' \/ Owns(b)'
              /\ Known(b) => Known(b)'
              /\ Queued(b) => Queued(b)' \/ Known(b)'
              /\ Back(b)' => Back(b)
  BY <1>4, <1>11, <1>12, <1>13 DEF Pending
<1>16. victims' \subseteq Xct
  <2>1. ASSUME NEW k \in DOMAIN t, NEW i \in DOMAIN t[k].owners
        PROVE  XctOf[t[k].owners[i].action] \in Xct
    <3>1. t[k].owners[i].action \in ActionId
      BY <1>9 DEF LockInv, EntryAt
    <3> QED
      BY <3>1, ActionFacts
  <2>2. Owners(p) \subseteq Xct
    BY <1>6, <2>1 DEF Owners
  <2> QED
    BY <1>2, <2>2 DEF FlowInv, OtherTypes
<1>17. FlowInv'
  BY <1>2, <1>3, <1>10, <1>12, <1>14, <1>15, <1>16, MovesKeep
<1>18. ASSUME NEW b \in ActionId, Part(b) \notin prepared' \ prepared
       PROVE  Owns(b) => Owns(b)'
  <2>1. p \in prepared' \ prepared
    BY <1>1, <1>2, <1>3 DEF FlowInv, OtherTypes
  <2>2. Part(b) \in Partition /\ Part(b) # p
    BY <1>18, <2>1, ActionFacts
  <2>3. locks'[Part(b)] = locks[Part(b)]
    BY <1>5, <2>2
  <2> QED
    BY <2>3 DEF Owns
<1> QED
  BY <1>11, <1>17, <1>18

-----------------------------------------------------------------------------
\* At the start nothing was sent, and every phase is still to post.
LEMMA FlowStart == Init => FlowInv
<1> SUFFICES ASSUME Init PROVE FlowInv
  OBVIOUS
<1>1. /\ rvp = [x \in Xct |-> [phase |-> 1, sent |-> 0, left |-> Len(Flow[x][1]),
                               aborted |-> FALSE, outcome |-> "none", told |-> 0]]
      /\ inq = [p \in Partition |-> <<>>]
      /\ commitq = [p \in Partition |-> <<>>]
      /\ worker = [p \in Partition |-> [pc |-> "loop", ready |-> <<>>, error |-> FALSE]]
      /\ submitted \in Mix /\ notifier = {} /\ prepared = {} /\ victims = {}
      /\ ran = {} /\ prec = {} /\ ended = <<>>
  BY DEF Init
<1>2. /\ DOMAIN locks = Partition
      /\ \A p \in Partition : DOMAIN locks[p] = {} /\ locks[p] = [k \in DOMAIN locks[p] |-> locks[p][k]]
  BY DEF Init
<1>3. ASSUME NEW x \in Xct
      PROVE  /\ 1 \in DOMAIN Flow[x] /\ Len(Flow[x][1]) \in Nat /\ Len(Flow[x][1]) > 0
             /\ DOMAIN Flow[x][1] = 1 .. Len(Flow[x][1])
             /\ rvp[x].phase = 1 /\ rvp[x].sent = 0 /\ rvp[x].left = Len(Flow[x][1])
             /\ rvp[x].outcome = "none" /\ rvp[x].told = 0
  <2>1. PICK D : D = [part : Partition, key : Key, dlm : {SHARED, EXCL}]
    OBVIOUS
  <2>2. Flow[x] \in Seq(Seq(D)) /\ Flow[x] # <<>>
    BY <2>1, FlowAssumption
  <2>3. 1 \in DOMAIN Flow[x]
    BY <2>2, LenProperties, EmptySeq
  <2>4. PICK n, r : n = Len(Flow[x][1]) /\ r = rvp[x]
    OBVIOUS
  <2>5. r = [phase |-> 1, sent |-> 0, left |-> n, aborted |-> FALSE, outcome |-> "none", told |-> 0]
    BY <1>1, <2>4
  <2>6. r.phase = 1 /\ r.sent = 0 /\ r.left = n /\ r.outcome = "none" /\ r.told = 0
    BY <2>5
  <2> QED
    BY <2>3, <2>4, <2>6, PhaseFacts
<1>4. \A b \in ActionId : XctOf[b] \in Xct /\ b[2] \in Nat /\ b[2] > 0 /\ b[3] \in Nat /\ b[3] > 0
  <2> SUFFICES ASSUME NEW b \in ActionId
               PROVE  XctOf[b] \in Xct /\ b[2] \in Nat /\ b[2] > 0 /\ b[3] \in Nat /\ b[3] > 0
    OBVIOUS
  <2>1. PICK x, m : x = XctOf[b] /\ m = b[2]
    OBVIOUS
  <2>2. x \in Xct /\ m \in DOMAIN Flow[x] /\ b[3] \in DOMAIN Flow[x][m]
    BY <2>1, ActionFacts
  <2> QED
    BY <2>1, <2>2, PhaseFacts
<1>5. \A b \in ActionId : /\ ~Sent(b) /\ ~Queued(b) /\ ~Waits(b) /\ ~Owns(b) /\ ~InHand(b)
                          /\ ~Back(b)
  <2> SUFFICES ASSUME NEW b \in ActionId
               PROVE  /\ ~Sent(b) /\ ~Queued(b) /\ ~Waits(b) /\ ~Owns(b) /\ ~InHand(b)
                      /\ ~Back(b)
    OBVIOUS
  <2>1. Part(b) \in Partition
    BY ActionFacts
  <2>2. ~Sent(b)
    <3>1. rvp[XctOf[b]].phase = 1 /\ rvp[XctOf[b]].sent = 0
      BY <1>3, <1>4
    <3> QED
      BY <1>4, <3>1 DEF Sent
  <2>3. ~Queued(b) /\ ~InHand(b) /\ ~Back(b)
    BY <1>1, <2>1 DEF Queued, InHand, Back, Has
  <2>4. ~Waits(b) /\ ~Owns(b)
    BY <1>2, <2>1 DEF Waits, Owns
  <2> QED
    BY <2>2, <2>3, <2>4
<1>6. RvpTypes
  <2>1. ASSUME NEW x \in Xct
        PROVE  [phase |-> 1, sent |-> 0, left |-> Len(Flow[x][1]),
                aborted |-> FALSE, outcome |-> "none", told |-> 0] \in RvpType
    BY <1>3 DEF RvpType, Outcome
  <2>2. rvp \in [Xct -> RvpType]
    BY <1>1, <2>1
  <2>3. ASSUME NEW x \in Xct PROVE rvp[x].told <= Len(ActionsUpTo[x][rvp[x].phase])
    <3>1. PICK all : all = ActionsUpTo[x][1]
      OBVIOUS
    <3>2. Len(all) \in Nat
      BY <1>3, <3>1, UpTo
    <3> QED
      BY <1>3, <3>1, <3>2
  <2> QED
    BY <1>3, <2>2, <2>3 DEF RvpTypes
<1>7. QueueTypes /\ OtherTypes
  BY <1>1, EmptySeq DEF QueueTypes, OtherTypes, WorkerType
<1>8. LocksInv /\ QueueInv
  BY <1>1, <1>2 DEF LocksInv, QueueInv, Home, Once, WorkerInv
<1>9. DriverInv
  BY <1>1 DEF DriverInv, DriverOK, Drives
<1>10. PlaceInv
  BY <1>5 DEF PlaceInv
<1>11. RanInv
  BY <1>1, <1>5 DEF RanInv
<1>12. CountInv
  <2> SUFFICES ASSUME NEW x \in Xct
               PROVE  /\ rvp[x].left = Cardinality(ToPost(x))
                      /\ rvp[x].outcome = "none" <=> ToPost(x) # {}
    BY DEF CountInv
  <2>1. PICK n : n = Len(Flow[x][1]) /\ n \in Nat /\ n > 0
    BY <1>3
  <2>2. /\ rvp[x].phase = 1 /\ rvp[x].left = n /\ rvp[x].outcome = "none"
        /\ 1 \in DOMAIN Flow[x] /\ DOMAIN Flow[x][1] = 1 .. n
    BY <1>3, <2>1
  <2>3. \A j \in 1 .. n : Todo(<<x, 1, j>>)
    BY <1>5, <2>2, PhaseFacts DEF Todo
  <2>4. ToPost(x) = 1 .. n
    BY <2>2, <2>3 DEF ToPost
  <2>5. Cardinality(1 .. n) = n
    <3>1. 1 \in Int /\ n \in Int
      BY <2>1
    <3>2. Cardinality(1 .. n) = IF 1 > n THEN 0 ELSE n - 1 + 1
      BY <3>1, FS_Interval
    <3> QED
      BY <2>1, <3>2
  <2>6. 1 \in 1 .. n
    BY <2>1
  <2> QED
    BY <2>2, <2>4, <2>5, <2>6
<1>13. EndInv
  BY <1>1, <1>3 DEF EndInv
<1> QED
  BY <1>6, <1>7, <1>8, <1>9, <1>10, <1>11, <1>12, <1>13 DEF FlowInv

\* A late push() leaves a worker spinning and changes nothing else.
LEMMA OnlySpins ==
    ASSUME UNCHANGED vars \/ Finished \/ LatePush
    PROVE  UNCHANGED <<rvp, inq, commitq, locks, worker, notifier, submitted, prepared,
                       victims, ran, prec, ended>>
<1>1. CASE UNCHANGED vars \/ Finished
  BY <1>1 DEF vars, history, newrun, Finished
<1>2. CASE LatePush
  BY <1>2 DEF LatePush
<1> QED
  BY <1>1, <1>2

\* A step in which nothing changes, but for the worker that spins.
LEMMA StutterKeeps ==
    ASSUME FlowInv, UNCHANGED vars \/ Finished \/ LatePush
    PROVE  FlowInv'
<1>1. UNCHANGED <<rvp, inq, commitq, locks, worker, notifier, submitted, prepared, victims,
                 ran, prec, ended>>
  BY OnlySpins
<1>2. Turned /\ \A b : InHand(b)' <=> InHand(b)
  BY <1>1, TurnedSame
<1>3. \A b : /\ (Queued(b)' <=> Queued(b)) /\ (Waits(b)' <=> Waits(b))
             /\ (Owns(b)' <=> Owns(b)) /\ (Known(b)' <=> Known(b)) /\ (Back(b)' <=> Back(b))
  BY <1>1, Unmoved
<1>4. LocksInv'
  BY <1>1 DEF FlowInv, LocksInv
<1>5. /\ inq' \in [Partition -> Seq(ActionId)] /\ commitq' \in [Partition -> Seq(ActionId)]
      /\ \A r \in Partition : Home(r, inq'[r]) /\ Once(inq'[r]) /\ Home(r, commitq'[r])
      /\ prepared' \subseteq Partition /\ victims' \subseteq Xct
  BY <1>1 DEF FlowInv, QueueTypes, QueueInv, OtherTypes
<1>6. ASSUME NEW b \in ActionId
      PROVE  /\ Pending(b)' <=> Pending(b)
             /\ Queued(b)' => Queued(b) /\ ~Waits(b)' /\ ~Owns(b)'
             /\ Waits(b)' => (Waits(b) \/ Queued(b)) /\ ~Owns(b)'
             /\ InHand(b)' => (InHand(b) \/ Waits(b) \/ Queued(b)) /\ Owns(b)'
             /\ Owns(b)' => Owns(b) \/ Waits(b) \/ Queued(b)
             /\ Owns(b) /\ Open(b) => Owns(b)'
             /\ Queued(b) \/ Waits(b) => Queued(b)' \/ Waits(b)' \/ Owns(b)'
             /\ Known(b) => Known(b)'
             /\ Queued(b) => Queued(b)' \/ Known(b)'
             /\ Back(b)' => Back(b)
  BY <1>2, <1>3 DEF Pending, FlowInv, PlaceInv
<1> QED
  BY <1>1, <1>2, <1>4, <1>5, <1>6, MovesKeep

\* Every step of a worker.
LEMMA WorkKeeps ==
    ASSUME FlowInv, NEW p \in Partition, Work(p)
    PROVE  FlowInv'
<1>1. CASE ReleaseCommitted(p)
  BY <1>1, ReleaseCommittedKeeps
<1>2. CASE Dequeue(p)
  BY <1>2, DequeueKeeps
<1>3. CASE Execute(p)
  BY <1>3, ExecuteKeeps
<1>4. CASE EarlyAbort(p)
  BY <1>4, EarlyAbortKeeps
<1>5. CASE PostNotLast(p)
  BY <1>5, PostNotLastKeeps
<1>6. CASE PostRunsMidway(p)
  BY <1>6, PostRunsMidwayKeeps
<1>7. CASE PostEnds(p)
  BY <1>7, PostEndsKeeps
<1>8. CASE WorkerDispatch(p)
  BY <1>8, WorkerDispatchKeeps
<1>9. CASE WorkerNotify(p)
  BY <1>9, WorkerNotifyKeeps
<1> QED
  BY <1>1, <1>2, <1>3, <1>4, <1>5, <1>6, <1>7, <1>8, <1>9 DEF Work

\* Partitions are not un-prepared, and the clients of a run are given.
LEMMA PreparedGrows == [Next]_vars => prepared \subseteq prepared' /\ submitted' = submitted
<1> SUFFICES ASSUME [Next]_vars PROVE prepared \subseteq prepared' /\ submitted' = submitted
  OBVIOUS
<1>1. CASE UNCHANGED vars \/ Finished \/ LatePush
  BY <1>1, OnlySpins
<1>2. ASSUME NEW x \in Xct, ClientDispatch(x) PROVE UNCHANGED <<prepared, submitted>>
  BY <1>2 DEF ClientDispatch, history, newrun
<1>3. ASSUME NEW p \in Partition, Work(p) PROVE UNCHANGED <<prepared, submitted>>
  <2>1. CASE ReleaseCommitted(p) \/ Dequeue(p) \/ WorkerDispatch(p) \/ WorkerNotify(p)
    BY <2>1, Zenon DEF ReleaseCommitted, Dequeue, WorkerDispatch, WorkerNotify, history, newrun
  <2>2. CASE Execute(p) \/ EarlyAbort(p) \/ PostEnds(p)
    BY <2>2 DEF Execute, EarlyAbort, PostEnds, history, newrun
  <2>3. CASE PostNotLast(p) \/ PostRunsMidway(p)
    BY <2>3 DEF PostNotLast, PostRunsMidway, history, newrun
  <2> QED
    BY <1>3, <2>1, <2>2, <2>3, Zenon DEF Work
<1>4. CASE NotifierNotify
  BY <1>4 DEF NotifierNotify, history, newrun
<1>5. CASE PrepareNewRun
  BY <1>5 DEF PrepareNewRun
<1> QED
  BY <1>1, <1>2, <1>3, <1>4, <1>5 DEF Next

\* Every step.
LEMMA FlowStep == FollowedInv /\ [Next]_vars => FollowedInv'
<1> SUFFICES ASSUME FollowedInv, [Next]_vars, Followed' PROVE FlowInv'
  BY DEF FollowedInv
<1>1. FlowInv
  <2>1. Followed
    BY PreparedGrows DEF Followed
  <2> QED
    BY <2>1 DEF FollowedInv
<1>2. CASE UNCHANGED vars \/ Finished \/ LatePush
  BY <1>1, <1>2, StutterKeeps
<1>3. ASSUME NEW x \in Xct, ClientDispatch(x) PROVE FlowInv'
  BY <1>1, <1>3, ClientDispatchKeeps
<1>4. ASSUME NEW p \in Partition, Work(p) PROVE FlowInv'
  BY <1>1, <1>4, WorkKeeps
<1>5. CASE NotifierNotify
  BY <1>1, <1>5, NotifierNotifyKeeps
<1>6. CASE PrepareNewRun
  BY <1>1, <1>6, PrepareNewRunKeeps
<1> QED
  BY <1>2, <1>3, <1>4, <1>5, <1>6 DEF Next

\* The invariant of the flows, until the shell takes keys of running transactions.
THEOREM FlowsKeepTheirPlaces == Spec => [](Followed => FlowInv)
<1>1. Init => FollowedInv
  BY FlowStart DEF FollowedInv
<1>2. FollowedInv /\ [Next]_vars => FollowedInv'
  BY FlowStep
<1>3. FollowedInv <=> (Followed => FlowInv)
  BY DEF FollowedInv
<1> QED
  BY <1>1, <1>2, <1>3, PTL DEF Spec

\* When every transaction is the last of its client's batch, so that the client waits for
\* it, all states are followed, and with the flusher they are secured: the conditions of
\* the theorems below hold throughout the runs of such a system (shore_client.cpp:61-100).
THEOREM ClientsWhoWait ==
    ASSUME \A m \in Mix : m \subseteq Waited
    PROVE  Spec => [](Followed /\ (Flusher => Secured))
<1>1. Init => submitted \in Mix
  BY DEF Init
<1>2. submitted \in Mix /\ [Next]_vars => (submitted \in Mix)'
  BY PreparedGrows
<1>3. submitted \in Mix => Followed /\ (Flusher => Secured)
  BY DEF Followed, Secured
<1> QED
  BY <1>1, <1>2, <1>3, PTL DEF Spec

-----------------------------------------------------------------------------
(***************************************************************************)
(* What follows from it.                                                   *)
(***************************************************************************)
\* The countdown of a rendezvous point is the number of the actions of its phase
\* that have yet to post (rvp.h:101-103, worker.cpp:291-305).
THEOREM CountedExactly == Spec => [](Followed => CountdownExact)
<1>1. FlowInv => CountdownExact
  <2> SUFFICES ASSUME FlowInv, NEW x \in Xct
               PROVE  rvp[x].left = Cardinality({j \in DOMAIN Flow[x][rvp[x].phase] :
                          LET a == <<x, rvp[x].phase, j>>
                          IN  ~Sent(a) \/ Queued(a) \/ Waits(a) \/ InHand(a)})
    BY DEF CountdownExact
  <2>1. ToPost(x) = {j \in DOMAIN Flow[x][rvp[x].phase] :
                        LET a == <<x, rvp[x].phase, j>>
                        IN  ~Sent(a) \/ Queued(a) \/ Waits(a) \/ InHand(a)}
    BY DEF ToPost, Todo
  <2>2. rvp[x].left = Cardinality(ToPost(x))
    BY DEF FlowInv, CountInv
  <2> QED
    BY <2>1, <2>2
<1> QED
  BY <1>1, FlowsKeepTheirPlaces, PTL

\* Only workers of a partition are left spinning.
SpinsTyped == spins \subseteq Partition

\* No worker spins at the start.
LEMMA SpinsStart == Init => SpinsTyped
  BY DEF Init, SpinsTyped

\* A worker is left spinning by the push() of an action to its own partition.
LEMMA SpinsStep == SpinsTyped /\ [Next]_vars => SpinsTyped'
<1> SUFFICES ASSUME spins \subseteq Partition, [Next]_vars PROVE spins' \subseteq Partition
  BY DEF SpinsTyped
<1>1. CASE UNCHANGED vars \/ Finished
  BY <1>1 DEF vars, history, newrun, Finished
<1>2. ASSUME NEW x \in Xct, ClientDispatch(x) PROVE UNCHANGED spins
  BY <1>2 DEF ClientDispatch, history, newrun
<1>3. ASSUME NEW p \in Partition, Work(p) PROVE UNCHANGED spins
  <2>1. CASE ReleaseCommitted(p) \/ Dequeue(p) \/ WorkerDispatch(p) \/ WorkerNotify(p)
    BY <2>1, Zenon DEF ReleaseCommitted, Dequeue, WorkerDispatch, WorkerNotify, history, newrun
  <2>2. CASE Execute(p) \/ EarlyAbort(p) \/ PostEnds(p)
    BY <2>2 DEF Execute, EarlyAbort, PostEnds, history, newrun
  <2>3. CASE PostNotLast(p) \/ PostRunsMidway(p)
    BY <2>3 DEF PostNotLast, PostRunsMidway, history, newrun
  <2> QED
    BY <1>3, <2>1, <2>2, <2>3, Zenon DEF Work
<1>4. CASE NotifierNotify
  BY <1>4 DEF NotifierNotify, history, newrun
<1>5. CASE PrepareNewRun
  BY <1>5 DEF PrepareNewRun
<1>6. CASE LatePush
  <2>1. spins' = spins \cup {ToPrepare} /\ \E a \in ActionId : Part(a) = ToPrepare
    BY <1>6, Zenon DEF LatePush
  <2>2. PICK a \in ActionId : Part(a) = ToPrepare
    BY <2>1
  <2>3. ToPrepare \in Partition
    BY <2>2, ActionFacts
  <2> QED
    BY <2>1, <2>3
<1> QED
  BY <1>1, <1>2, <1>3, <1>4, <1>5, <1>6 DEF Next

\* Every variable has its type; no countdown exceeds its phase.
THEOREM FlowTypeCorrect == Spec => [](Followed => TypeOK)
<1>1. FlowInv /\ SpinsTyped => TypeOK
  <2> SUFFICES ASSUME FlowInv, SpinsTyped PROVE TypeOK
    OBVIOUS
  <2>1. ASSUME NEW x \in Xct
        PROVE  /\ rvp[x].phase \in DOMAIN Flow[x]
               /\ rvp[x].sent \in 0 .. Len(Flow[x][rvp[x].phase])
               /\ rvp[x].left \in 0 .. Len(Flow[x][rvp[x].phase])
               /\ rvp[x].aborted \in BOOLEAN
               /\ rvp[x].outcome \in Outcome
               /\ rvp[x].told \in 0 .. Len(ActionsUpTo[x][rvp[x].phase])
    <3>1. PICK n : n = Len(Flow[x][rvp[x].phase]) /\ n \in Nat
      BY RvpFacts
    <3>2. ToPost(x) \subseteq 1 .. n
      BY <3>1, RvpFacts DEF ToPost
    <3>3. IsFiniteSet(1 .. n) /\ Cardinality(1 .. n) = n
      <4>1. 1 \in Int /\ n \in Int
        BY <3>1
      <4>2. IsFiniteSet(1 .. n) /\ Cardinality(1 .. n) = IF 1 > n THEN 0 ELSE n - 1 + 1
        BY <4>1, FS_Interval
      <4> QED
        BY <3>1, <4>2
    <3>4. Cardinality(ToPost(x)) <= n
      BY <3>2, <3>3, FS_Subset
    <3>5. rvp[x].left \in 0 .. n
      BY <3>1, <3>4, RvpFacts DEF FlowInv, CountInv
    <3>6. rvp[x].told \in 0 .. Len(ActionsUpTo[x][rvp[x].phase])
      <4>1. PICK all : all = ActionsUpTo[x][rvp[x].phase] /\ Len(all) \in Nat
        BY RvpFacts, UpTo
      <4>2. rvp[x].told \in Nat /\ rvp[x].told <= Len(all)
        BY <4>1, RvpFacts DEF FlowInv, RvpTypes
      <4> QED
        BY <4>1, <4>2
    <3> QED
      BY <3>1, <3>5, <3>6, RvpFacts
  <2>2. ASSUME NEW p \in Partition
        PROVE  /\ inq[p] \in Seq(ActionId) /\ commitq[p] \in Seq(ActionId)
               /\ worker[p].pc \in {"drain", "loop", "serve", "post", "dispatch", "notify"}
               /\ worker[p].ready \in Seq(ActionId)
               /\ worker[p].error \in BOOLEAN
    BY DEF FlowInv, QueueTypes, WorkerType
  <2>3. ASSUME NEW p \in Partition
        PROVE  /\ DOMAIN locks[p] \subseteq Key
               /\ \A k \in DOMAIN locks[p] : locks[p][k] \in Lock(ActionId, Xct)
    BY LockFacts DEF FlowInv, LocksInv
  <2> QED
    BY <2>1, <2>2, <2>3 DEF TypeOK, FlowInv, OtherTypes, SpinsTyped
<1>2. Spec => []SpinsTyped
  BY SpinsStart, SpinsStep, PTL DEF Spec
<1> QED
  BY <1>1, <1>2, FlowsKeepTheirPlaces, PTL

-----------------------------------------------------------------------------
(***************************************************************************)
(* DORA keeps its promise: every step of the flows is a step of            *)
(* StrictExecution, or changes nothing there.                              *)
(***************************************************************************)
\* The worker is about to post an error.
Failing(r, x) == worker[r].pc = "post" /\ worker[r].error /\ Serving(r) = x

\* A transaction failed when its rendezvous point knows, or a worker will tell it.
LEMMA FailedAs ==
    ASSUME NEW x
    PROVE  Failed(x) <=> rvp[x].aborted \/ \E r \in Partition : Failing(r, x)
  BY DEF Failed, Failing

\* A worker that does not change has the same to tell.
LEMMA FailingSame ==
    ASSUME NEW r, worker'[r] = worker[r], NEW x
    PROVE  Failing(r, x)' <=> Failing(r, x)
<1>1. Served(r)' = Served(r)
  BY DEF Served
<1>2. Serving(r)' = Serving(r)
  BY <1>1, ServingSame
<1> QED
  BY <1>2 DEF Failing

\* Nobody is about to post, or posted.
LEMMA NobodyPosts ==
    ASSUME \A r \in Partition :
               worker'[r] = worker[r] \/ (worker'[r].pc # "post" /\ worker[r].pc # "post"),
           NEW x, rvp'[x].aborted <=> rvp[x].aborted
    PROVE  Failed(x)' <=> Failed(x)
<1>1. ASSUME NEW r \in Partition PROVE Failing(r, x)' <=> Failing(r, x)
  <2>1. CASE worker'[r] = worker[r]
    BY <2>1, FailingSame
  <2>2. CASE worker'[r].pc # "post" /\ worker[r].pc # "post"
    BY <2>2 DEF Failing
  <2> QED
    BY <2>1, <2>2
<1>2. Failed(x)' <=> rvp'[x].aborted \/ \E r \in Partition : Failing(r, x)'
  BY DEF Failed, Failing
<1> QED
  BY <1>1, <1>2, FailedAs

\* A step in which nothing runs and nothing ends is none of the promise.
LEMMA PromiseStutter ==
    ASSUME UNCHANGED <<ran, ended, prec>>,
           \A x \in Xct : /\ Failed(x)' <=> Failed(x)
                          /\ rvp'[x].outcome = rvp[x].outcome
    PROVE  UNCHANGED Promise!vars
<1>1. {x \in Xct : Failed(x)}' = {x \in Xct : Failed(x)}
  OBVIOUS
<1>2. {x \in Xct : rvp[x].outcome = "committed"}' = {x \in Xct : rvp[x].outcome = "committed"}
  OBVIOUS
<1> QED
  BY <1>1, <1>2 DEF Promise!vars

\* Serving the next action is not posting.
LEMMA NextIsNoPost ==
    ASSUME NEW w, NEW q
    PROVE  AfterServing(w, q).pc # "post"
  BY DEF AfterServing, Top

\* Dispatching, sending back, the lock steps and prepareNewRun() are silent.
LEMMA SilentSteps ==
    ASSUME FlowInv, [Next]_vars,
           ~\E p \in Partition : \/ Execute(p) \/ EarlyAbort(p) \/ PostNotLast(p)
                                 \/ PostRunsMidway(p) \/ PostEnds(p)
    PROVE  UNCHANGED Promise!vars
<1> DEFINE Silent ==
      /\ UNCHANGED <<ran, ended, prec>>
      /\ \A x \in Xct : /\ rvp'[x].aborted = rvp[x].aborted
                        /\ rvp'[x].outcome = rvp[x].outcome
      /\ \A r \in Partition :
            worker'[r] = worker[r] \/ (worker'[r].pc # "post" /\ worker[r].pc # "post")
<1>1. /\ rvp \in [Xct -> RvpType] /\ worker \in [Partition -> WorkerType]
  BY DEF FlowInv, RvpTypes, QueueTypes
<1>2. ASSUME NEW x \in Xct, Enqueue(x) \/ SendBack(x)
      PROVE  \A y \in Xct : /\ rvp'[y].aborted = rvp[y].aborted
                            /\ rvp'[y].outcome = rvp[y].outcome
  <2>1. PICK n, m : rvp' = [rvp EXCEPT ![x].sent = n] \/ rvp' = [rvp EXCEPT ![x].told = m]
    BY <1>2, Zenon DEF Enqueue, SendBack
  <2> QED
    BY <1>1, <2>1 DEF RvpType
<1>3. CASE UNCHANGED vars \/ Finished \/ LatePush \/ PrepareNewRun
  <2>1. Silent
    BY <1>3, OnlySpins DEF PrepareNewRun
  <2> QED
    BY <2>1, NobodyPosts, PromiseStutter
<1>4. ASSUME NEW x \in Xct, ClientDispatch(x) PROVE Silent
  BY <1>2, <1>4 DEF ClientDispatch, history
<1>5. CASE NotifierNotify
  <2>1. PICK x \in notifier : SendBack(x) /\ UNCHANGED <<inq, locks, worker, history>>
    BY <1>5 DEF NotifierNotify
  <2>2. x \in Xct
    BY DEF FlowInv, OtherTypes
  <2>3. Silent
    BY <1>2, <2>1, <2>2 DEF history
  <2> QED
    BY <2>3, NobodyPosts, PromiseStutter
<1>6. ASSUME NEW p \in Partition, ReleaseCommitted(p) \/ Dequeue(p) PROVE Silent
  <2>1. PICK R, pc : worker' = [worker EXCEPT ![p].ready = R, ![p].pc = pc]
                     /\ pc \in {"serve", "drain", "loop"}
    <3>1. CASE ReleaseCommitted(p)
      <4>1. PICK after \in {Release(locks[p][KeyOf(Head(commitq[p]))], XctOf[Head(commitq[p])])} :
               worker' = [worker EXCEPT
                   ![p].ready = ReadyOf(Promoted(locks[p][KeyOf(Head(commitq[p]))], after)),
                   ![p].pc = IF Promoted(locks[p][KeyOf(Head(commitq[p]))], after) = <<>>
                             THEN Top(commitq'[p]) ELSE "serve"]
        BY <3>1, Zenon DEF ReleaseCommitted, Promoted, ReadyOf
      <4>2. PICK R, m : /\ R = ReadyOf(Promoted(locks[p][KeyOf(Head(commitq[p]))], after))
                        /\ m = Promoted(locks[p][KeyOf(Head(commitq[p]))], after)
        OBVIOUS
      <4>3. PICK pc : pc = IF m = <<>> THEN Top(commitq'[p]) ELSE "serve"
        OBVIOUS
      <4>4. pc \in {"serve", "drain", "loop"}
        BY <4>3 DEF Top
      <4>5. worker' = [worker EXCEPT ![p].ready = R, ![p].pc = pc]
        BY <4>1, <4>2, <4>3
      <4> QED
        BY <4>4, <4>5, Zenon
    <3>2. CASE Dequeue(p)
      <4>1. PICK a, k : a = Head(inq[p]) /\ k = KeyOf(a)
        OBVIOUS
      <4>2. PICK waits \in BOOLEAN :
               waits <=> k \in DOMAIN locks[p] /\ MustWait(locks[p][k], Req(a))
        OBVIOUS
      <4>3. worker' = [worker EXCEPT
               ![p].ready = IF waits THEN <<>> ELSE <<a>>,
               ![p].pc = IF waits THEN Top(commitq[p]) ELSE "serve"]
        BY <3>2, <4>1, <4>2 DEF Dequeue
      <4>4. PICK R, pc : /\ R = IF waits THEN <<>> ELSE <<a>>
                         /\ pc = IF waits THEN Top(commitq[p]) ELSE "serve"
        OBVIOUS
      <4>5. pc \in {"serve", "drain", "loop"}
        BY <4>4 DEF Top
      <4>6. worker' = [worker EXCEPT ![p].ready = R, ![p].pc = pc]
        BY <4>3, <4>4, Zenon
      <4> QED
        BY <4>5, <4>6
    <3> QED
      BY <1>6, <3>1, <3>2
  <2>2. worker[p].pc \in {"drain", "loop"} /\ UNCHANGED <<rvp, ran, ended, prec>>
    BY <1>6, Zenon DEF ReleaseCommitted, Dequeue, history
  <2>3. \A r \in Partition :
           worker'[r] = worker[r] \/ (worker'[r].pc # "post" /\ worker[r].pc # "post")
    BY <1>1, <2>1, <2>2 DEF WorkerType
  <2> QED
    BY <2>2, <2>3
<1>7. ASSUME NEW p \in Partition, WorkerDispatch(p) \/ WorkerNotify(p) PROVE Silent
  <2>1. PICK x : x = Serving(p)
    OBVIOUS
  <2>2. worker[p].pc \in {"dispatch", "notify"} /\ (Enqueue(x) \/ SendBack(x))
        /\ UNCHANGED <<ran, ended, prec>>
    BY <1>7, <2>1 DEF WorkerDispatch, WorkerNotify, history
  <2>3. x \in Xct
    BY <2>1, <2>2, WorkerFacts
  <2>4. PICK q, w2 : worker' = [worker EXCEPT ![p] = w2]
                     /\ w2 \in {worker[p], AfterServing(worker[p], q)}
    <3>1. CASE WorkerDispatch(p)
      BY <3>1 DEF WorkerDispatch
    <3>2. CASE WorkerNotify(p)
      BY <3>2 DEF WorkerNotify
    <3> QED
      BY <1>7, <3>1, <3>2
  <2>5. w2.pc # "post"
    BY <2>2, <2>4, NextIsNoPost
  <2>6. \A r \in Partition :
           worker'[r] = worker[r] \/ (worker'[r].pc # "post" /\ worker[r].pc # "post")
    BY <1>1, <2>2, <2>4, <2>5
  <2> QED
    BY <1>2, <2>2, <2>3, <2>6
<1>8. Silent => UNCHANGED Promise!vars
  BY NobodyPosts, PromiseStutter
<1> HIDE DEF Silent
<1> QED
  BY <1>3, <1>4, <1>5, <1>6, <1>7, <1>8 DEF Next, Work

\* An action of an aborted transaction is skipped: nothing the client sees.
LEMMA EarlyAbortIsSilent ==
    ASSUME FlowInv, NEW p \in Partition, EarlyAbort(p)
    PROVE  UNCHANGED Promise!vars
<1>1. /\ worker \in [Partition -> WorkerType] /\ rvp[Serving(p)].aborted
      /\ worker[p].pc = "serve" /\ worker' = [worker EXCEPT ![p].pc = "post"]
      /\ UNCHANGED <<rvp, ran, ended, prec>>
  BY DEF FlowInv, QueueTypes, EarlyAbort, history
<1>2. ASSUME NEW x \in Xct PROVE Failed(x)' <=> Failed(x)
  <2>1. \A r \in Partition : r # p => (Failing(r, x)' <=> Failing(r, x))
    BY <1>1, FailingSame
  <2>2. Serving(p)' = Serving(p)
    <3>1. worker'[p].ready = worker[p].ready
      BY <1>1 DEF WorkerType
    <3>2. Served(p)' = Served(p)
      BY <3>1 DEF Served
    <3> QED
      BY <3>2, ServingSame
  <2>3. ~Failing(p, x) /\ (Failing(p, x)' => rvp[x].aborted)
    BY <1>1, <2>2 DEF Failing
  <2>4. Failed(x)' <=> rvp'[x].aborted \/ \E r \in Partition : Failing(r, x)'
    BY DEF Failed, Failing
  <2> QED
    BY <1>1, <2>1, <2>3, <2>4, FailedAs
<1> QED
  BY <1>1, <1>2, PromiseStutter

\* Posts that do not end a transaction: the failure moves from the worker to the
\* rendezvous point.
LEMMA PostsAreSilent ==
    ASSUME FlowInv, NEW p \in Partition, PostNotLast(p) \/ PostRunsMidway(p)
    PROVE  UNCHANGED Promise!vars
<1>1. PICK x, doomed : x = Serving(p) /\ doomed = Aborting(p)
  OBVIOUS
<1>2. worker[p].pc = "post" /\ UNCHANGED <<ran, ended, prec>>
  BY DEF PostNotLast, PostRunsMidway, history
<1>3. rvp \in [Xct -> RvpType] /\ worker \in [Partition -> WorkerType] /\ x \in Xct
  BY <1>1, <1>2, WorkerFacts DEF FlowInv, RvpTypes, QueueTypes
<1>4. /\ \A y \in Xct : y # x => rvp'[y] = rvp[y]
      /\ rvp'[x].outcome = rvp[x].outcome /\ (rvp'[x].aborted <=> doomed)
  <2>1. CASE PostNotLast(p)
    <3>1. rvp' = [rvp EXCEPT ![x].left = @ - 1, ![x].aborted = doomed]
      BY <1>1, <2>1 DEF PostNotLast
    <3> QED
      BY <1>3, <3>1 DEF RvpType
  <2>2. CASE PostRunsMidway(p)
    <3>1. PICK m, n : rvp' = [rvp EXCEPT ![x].phase = m, ![x].sent = 0, ![x].left = n]
      BY <1>1, <2>2 DEF PostRunsMidway
    <3>2. ~Aborting(p) /\ ~doomed
      BY <1>1, <2>2 DEF PostRunsMidway
    <3>3. ~rvp[x].aborted
      BY <1>1, <3>2 DEF Aborting
    <3>4. /\ \A y \in Xct : y # x => rvp'[y] = rvp[y]
          /\ rvp'[x].outcome = rvp[x].outcome /\ (rvp'[x].aborted <=> rvp[x].aborted)
      BY <1>3, <3>1 DEF RvpType
    <3> QED
      BY <3>2, <3>3, <3>4
  <2> QED
    BY <2>1, <2>2
<1>5. /\ \A r \in Partition : r # p => worker'[r] = worker[r]
      /\ worker'[p].pc # "post"
  <2>1. CASE PostNotLast(p)
    <3>1. worker' = [worker EXCEPT ![p] = AfterServing(worker[p], commitq[p])]
      BY <2>1 DEF PostNotLast
    <3> QED
      BY <1>3, <3>1, NextIsNoPost
  <2>2. CASE PostRunsMidway(p)
    <3>1. worker' = [worker EXCEPT ![p].pc = "dispatch"]
      BY <2>2 DEF PostRunsMidway
    <3> QED
      BY <1>3, <3>1 DEF WorkerType
  <2> QED
    BY <2>1, <2>2
<1>6. ASSUME NEW y \in Xct PROVE Failed(y)' <=> Failed(y)
  <2>1. \A r \in Partition : r # p => (Failing(r, y)' <=> Failing(r, y))
    BY <1>5, FailingSame
  <2>2. ~Failing(p, y)' /\ (Failing(p, y) <=> worker[p].error /\ y = x)
    BY <1>1, <1>2, <1>5 DEF Failing
  <2>3. Failed(y)' <=> rvp'[y].aborted \/ \E r \in Partition : Failing(r, y)'
    BY DEF Failed, Failing
  <2>4. doomed <=> rvp[x].aborted \/ worker[p].error
    BY <1>1 DEF Aborting
  <2>5. CASE y = x
    BY <1>4, <2>1, <2>2, <2>3, <2>4, <2>5, FailedAs
  <2>6. CASE y # x
    BY <1>4, <2>1, <2>2, <2>3, <2>6, FailedAs
  <2> QED
    BY <2>5, <2>6
<1> QED
  BY <1>2, <1>4, <1>6, PromiseStutter

\* Two owners of one key that belong to different transactions are compatible.
LEMMA OwnersAgree ==
    ASSUME FlowInv, NEW a \in ActionId, NEW b \in ActionId, Owns(a), Owns(b),
           Part(a) = Part(b), KeyOf(a) = KeyOf(b), a # b
    PROVE  Compatible(Datum(a).dlm, Datum(b).dlm)
<1>1. PICK p, k, ll : p = Part(a) /\ k = KeyOf(a) /\ ll = locks[p][k]
  OBVIOUS
<1>2. k \in DOMAIN locks[p] /\ Occurs(a, ll.owners) /\ Occurs(b, ll.owners)
  BY <1>1 DEF Owns
<1>3. LockInv(p, k, ll)
  BY <1>1, <1>2, ActionFacts DEF FlowInv, LocksInv
<1>4. PICK i \in DOMAIN ll.owners, j \in DOMAIN ll.owners :
         ll.owners[i].action = a /\ ll.owners[j].action = b
  BY <1>2 DEF Occurs
<1>5. ll.owners[i] = Req(a) /\ ll.owners[j] = Req(b) /\ i # j
  BY <1>3, <1>4 DEF LockInv, EntryAt
<1>6. L!AllShared(ll.owners)
  <2>1. PICK n : n = Len(ll.owners) /\ n \in Nat /\ i \in 1 .. n /\ j \in 1 .. n
    BY <1>3, LockFacts
  <2>2. ~(n <= 1)
    BY <1>5, <2>1
  <2> QED
    BY <1>3, <2>1, <2>2 DEF LockInv, L!LockOK
<1>7. Req(a).dlm = SHARED /\ Req(b).dlm = SHARED
  BY <1>5, <1>6 DEF L!AllShared, L!SHARED, SHARED
<1> QED
  BY <1>7, ReqFacts DEF Compatible

\* trx_exec(): the step runs for the first time, in its phase, and after the end of
\* every transaction it conflicts with.
LEMMA ExecuteRuns ==
    ASSUME FlowInv, NEW p \in Partition, Execute(p)
    PROVE  Promise!Run(Served(p))
<1>1. PICK s, x : s = Served(p) /\ x = Serving(p)
  OBVIOUS
<1>2. /\ worker[p].pc = "serve" /\ ~rvp[x].aborted
      /\ ran' = ran \cup {s}
      /\ prec' = prec \cup {<<XctOf[a], x>> : a \in {b \in ran : Conflicts(b, s)}}
      /\ UNCHANGED <<rvp, ended>>
  BY <1>1 DEF Execute
<1>3. /\ s \in ActionId /\ Part(s) = p /\ x \in Xct /\ x = XctOf[s] /\ InHand(s)
      /\ ran \subseteq ActionId /\ worker \in [Partition -> WorkerType]
  BY <1>1, <1>2, WorkerFacts DEF FlowInv, OtherTypes, QueueTypes
<1>4. Sent(s) /\ Current(s) /\ Open(s) /\ Owns(s)
  BY <1>3 DEF FlowInv, PlaceInv
<1>5. s \notin ran
  BY <1>1, <1>2, <1>3 DEF FlowInv, RanInv
<1>6. ~Promise!HasEnded(x)
  BY <1>3, <1>4 DEF FlowInv, EndInv, Open, Promise!HasEnded
<1>7. ASSUME NEW t \in ActionId, <<t, s>> \in FlowBefore PROVE t \in ran
  <2>1. XctOf[t] = x /\ t[2] < s[2] /\ s[2] = rvp[x].phase
    BY <1>3, <1>4, <1>7 DEF FlowBefore, Current
  <2>2. Sent(t) /\ ~Current(t)
    <3>1. t[2] \in Nat /\ s[2] \in Nat /\ t[2] # s[2]
      BY <1>3, <2>1, ActionFacts
    <3> QED
      BY <2>1, <3>1 DEF Sent, Current
  <2>3. ~Pending(t)
    BY <2>2 DEF FlowInv, PlaceInv, Pending
  <2> QED
    BY <1>2, <2>1, <2>2, <2>3 DEF FlowInv, RanInv
<1>8. ASSUME NEW t \in ran, <<t, s>> \in FlowClash PROVE Promise!HasEnded(XctOf[t])
  <2>1. t \in ActionId /\ Conflicts(t, s) /\ XctOf[t] \in Xct
    BY <1>3, <1>8, ActionFacts DEF FlowClash
  <2>2. Sent(t) /\ ~Queued(t) /\ ~Waits(t)
    BY DEF FlowInv, RanInv
  <2>3. ~Owns(t)
    BY <1>3, <1>4, <2>1, OwnersAgree DEF Conflicts
  <2>4. ~Open(t)
    BY <2>1, <2>2, <2>3 DEF FlowInv, PlaceInv
  <2> QED
    BY <2>1, <2>4 DEF FlowInv, EndInv, Open, Promise!HasEnded
<1>9. prec' = prec \cup {<<XctOf[t], XctOf[s]>> : t \in {u \in ran : <<u, s>> \in FlowClash}}
  <2>1. {b \in ran : Conflicts(b, s)} = {u \in ran : <<u, s>> \in FlowClash}
    BY <1>3 DEF FlowClash
  <2> QED
    BY <1>2, <1>3, <2>1
<1>10. PICK e : worker' = [worker EXCEPT ![p].pc = "post", ![p].error = e]
  BY DEF Execute
<1>11. /\ \A r \in Partition : r # p => worker'[r] = worker[r]
       /\ worker'[p].pc = "post" /\ worker'[p].ready = worker[p].ready
  BY <1>3, <1>10 DEF WorkerType
<1>12. Serving(p)' = x
  <2>1. Served(p)' = s
    BY <1>1, <1>11 DEF Served
  <2> QED
    BY <1>1, <2>1, ServingSame
<1>13. ASSUME NEW y \in Xct
       PROVE  Failed(y)' <=> Failed(y) \/ (worker'[p].error /\ y = x)
  <2>1. \A r \in Partition : r # p => (Failing(r, y)' <=> Failing(r, y))
    BY <1>11, FailingSame
  <2>2. ~Failing(p, y) /\ (Failing(p, y)' <=> worker'[p].error /\ y = x)
    BY <1>2, <1>11, <1>12 DEF Failing
  <2>3. Failed(y)' <=> rvp'[y].aborted \/ \E r \in Partition : Failing(r, y)'
    BY DEF Failed, Failing
  <2> QED
    BY <1>2, <2>1, <2>2, <2>3, FailedAs
<1>14. {y \in Xct : Failed(y)}' \in {{y \in Xct : Failed(y)}, {y \in Xct : Failed(y)} \cup {XctOf[s]}}
  <2>1. CASE worker'[p].error
    <3>1. {y \in Xct : Failed(y)}' = {y \in Xct : Failed(y)} \cup {x}
      BY <1>3, <1>13, <2>1
    <3> QED
      BY <1>3, <3>1
  <2>2. CASE ~worker'[p].error
    <3>1. {y \in Xct : Failed(y)}' = {y \in Xct : Failed(y)}
      BY <1>13, <2>2
    <3> QED
      BY <3>1
  <2> QED
    BY <2>1, <2>2
<1>15. /\ ended' = ended
       /\ {y \in Xct : rvp[y].outcome = "committed"}' = {y \in Xct : rvp[y].outcome = "committed"}
  BY <1>2
<1>16. Promise!Run(s)
  BY <1>2, <1>3, <1>5, <1>6, <1>7, <1>8, <1>9, <1>14, <1>15 DEF Promise!Run
<1> QED
  BY <1>1, <1>16

\* The terminal rendezvous point: a commit when everything ran and nothing failed,
\* an abort otherwise.
LEMMA PostEndsIt ==
    ASSUME FlowInv, NEW p \in Partition, PostEnds(p)
    PROVE  \E x \in Xct : Promise!Commit(x) \/ Promise!Abort(x)
<1>1. PICK x, s, doomed : x = Serving(p) /\ s = Served(p) /\ doomed = Aborting(p)
  OBVIOUS
<1>2. /\ worker[p].pc = "post" /\ rvp[x].left = 1
      /\ doomed \/ LastPhase(x)
      /\ ended' = Append(ended, x) /\ UNCHANGED <<ran, prec>>
  BY <1>1 DEF PostEnds
<1>3. PICK outcome \in {"aborted", "committed"} :
         /\ outcome = "committed" => ~doomed
         /\ rvp' = [rvp EXCEPT ![x].left = 0, ![x].aborted = doomed, ![x].outcome = outcome]
         /\ IF Flusher /\ outcome = "committed"
            THEN worker' = [worker EXCEPT ![p] = AfterServing(worker[p], commitq[p])]
            ELSE worker' = [worker EXCEPT ![p].pc = "notify"]
  BY <1>1 DEF PostEnds
<1>4. /\ rvp \in [Xct -> RvpType] /\ worker \in [Partition -> WorkerType]
      /\ x \in Xct /\ s \in ActionId /\ Part(s) = p /\ x = XctOf[s]
      /\ InHand(s) /\ Sent(s) /\ Current(s) /\ Open(s)
  <2>1. s \in ActionId /\ Part(s) = p /\ x \in Xct /\ x = XctOf[s] /\ InHand(s)
    BY <1>1, <1>2, WorkerFacts
  <2> QED
    BY <2>1, TodoFacts DEF FlowInv, RvpTypes, QueueTypes
<1>5. /\ \A y \in Xct : y # x => rvp'[y] = rvp[y]
      /\ rvp'[x].outcome = outcome /\ (rvp'[x].aborted <=> doomed) /\ rvp[x].outcome = "none"
  BY <1>3, <1>4 DEF RvpType, Open
<1>6. ~Promise!HasEnded(x)
  BY <1>4, <1>5 DEF FlowInv, EndInv, Promise!HasEnded
<1>7. \A c \in ActionId : XctOf[c] = x /\ Current(c) /\ Todo(c) => c = s
  BY <1>1, <1>2, LastPost
<1>8. ASSUME NEW r \in Partition, r # p PROVE ~Failing(r, x)
  <2> SUFFICES ASSUME Failing(r, x) PROVE FALSE
    OBVIOUS
  <2>1. PICK c : c = Served(r)
    OBVIOUS
  <2>2. worker[r].pc = "post" /\ Serving(r) = x
    BY DEF Failing
  <2>3. c \in ActionId /\ Part(c) = r /\ XctOf[c] = x /\ InHand(c)
    BY <2>1, <2>2, WorkerFacts
  <2>4. Todo(c) /\ Current(c)
    BY <2>3, TodoFacts
  <2> QED
    BY <1>4, <1>7, <1>8, <2>3, <2>4
<1>9. Failed(x) <=> doomed
  <2>1. doomed <=> rvp[x].aborted \/ worker[p].error
    BY <1>1 DEF Aborting
  <2>2. Failing(p, x) <=> worker[p].error
    BY <1>1, <1>2 DEF Failing
  <2> QED
    BY <1>8, <2>1, <2>2, FailedAs
<1>10. /\ \A r \in Partition : r # p => worker'[r] = worker[r]
       /\ worker'[p].pc # "post"
  <2>1. CASE Flusher /\ outcome = "committed"
    BY <1>3, <1>4, <2>1, NextIsNoPost
  <2>2. CASE ~(Flusher /\ outcome = "committed")
    BY <1>3, <1>4, <2>2 DEF WorkerType
  <2> QED
    BY <2>1, <2>2
<1>11. ASSUME NEW y \in Xct PROVE Failed(y)' <=> Failed(y)
  <2>1. \A r \in Partition : r # p => (Failing(r, y)' <=> Failing(r, y))
    BY <1>10, FailingSame
  <2>2. ~Failing(p, y)' /\ (Failing(p, y) => y = x)
    BY <1>1, <1>10 DEF Failing
  <2>3. Failed(y)' <=> rvp'[y].aborted \/ \E r \in Partition : Failing(r, y)'
    BY DEF Failed, Failing
  <2>4. CASE y = x
    BY <1>5, <1>8, <1>9, <2>1, <2>2, <2>3, <2>4
  <2>5. CASE y # x
    BY <1>5, <2>1, <2>2, <2>3, <2>5, FailedAs
  <2> QED
    BY <2>4, <2>5
<1>12. {y \in Xct : Failed(y)}' = {y \in Xct : Failed(y)}
  BY <1>11
<1>13. CASE outcome = "aborted"
  <2>1. {y \in Xct : rvp[y].outcome = "committed"}' = {y \in Xct : rvp[y].outcome = "committed"}
    BY <1>4, <1>5, <1>13
  <2>2. Promise!Abort(x)
    BY <1>2, <1>6, <1>12, <2>1 DEF Promise!Abort
  <2> QED
    BY <1>4, <2>2
<1>14. CASE outcome = "committed"
  <2>1. {y \in Xct : rvp[y].outcome = "committed"}' =
           {y \in Xct : rvp[y].outcome = "committed"} \cup {x}
    BY <1>4, <1>5, <1>14
  <2>2. ~doomed /\ LastPhase(x) /\ ~rvp[x].aborted
    <3>1. ~doomed
      BY <1>3, <1>14
    <3> QED
      BY <1>1, <1>2, <3>1 DEF Aborting
  <2>3. x \notin {y \in Xct : Failed(y)}
    BY <1>9, <2>2
  <2>4. ASSUME NEW c \in ActionId, XctOf[c] = x PROVE c \in ran
    <3>1. c[2] <= rvp[x].phase
      <4>1. PICK n : n = Len(Flow[x]) /\ n \in Nat /\ DOMAIN Flow[x] = 1 .. n /\ rvp[x].phase = n
        BY <1>4, <2>2, RvpFacts DEF LastPhase
      <4>2. c[2] \in DOMAIN Flow[x]
        BY <2>4, ActionFacts
      <4> QED
        BY <4>1, <4>2
    <3>2. Sent(c)
      BY <1>1, <1>2, <2>4, <3>1, LastPost
    <3>3. CASE c = s
      BY <1>1, <1>2, <2>2, <3>3 DEF FlowInv, RanInv
    <3>4. CASE c # s
      <4>1. ~Pending(c)
        <5>1. Pending(c) => Todo(c) /\ Current(c)
          BY TodoFacts DEF Pending
        <5> QED
          BY <1>7, <2>4, <3>4, <5>1
      <4> QED
        BY <2>2, <2>4, <3>2, <4>1 DEF FlowInv, RanInv
    <3> QED
      BY <3>3, <3>4
  <2>5. Promise!Commit(x)
    BY <1>2, <1>6, <1>12, <2>1, <2>3, <2>4 DEF Promise!Commit
  <2> QED
    BY <1>4, <2>5
<1> QED
  BY <1>13, <1>14

\* Every step of the flows is a step of the promise or silent.
LEMMA StepsKeepPromise == FlowInv /\ [Next]_vars => [Promise!Next]_(Promise!vars)
<1> SUFFICES ASSUME FlowInv, [Next]_vars PROVE Promise!Next \/ UNCHANGED Promise!vars
  OBVIOUS
<1>1. ASSUME NEW p \in Partition, Execute(p) PROVE Promise!Next
  <2>1. Promise!Run(Served(p))
    BY <1>1, ExecuteRuns
  <2>2. Served(p) \in ActionId
    BY <1>1, WorkerFacts DEF Execute
  <2> QED
    BY <2>1, <2>2 DEF Promise!Next
<1>2. ASSUME NEW p \in Partition, PostEnds(p) PROVE Promise!Next
  BY <1>2, PostEndsIt DEF Promise!Next
<1>3. ASSUME NEW p \in Partition, EarlyAbort(p) PROVE UNCHANGED Promise!vars
  BY <1>3, EarlyAbortIsSilent
<1>4. ASSUME NEW p \in Partition, PostNotLast(p) \/ PostRunsMidway(p)
      PROVE  UNCHANGED Promise!vars
  BY <1>4, PostsAreSilent
<1>5. CASE ~\E p \in Partition : \/ Execute(p) \/ EarlyAbort(p) \/ PostNotLast(p)
                                 \/ PostRunsMidway(p) \/ PostEnds(p)
  BY <1>5, SilentSteps
<1> QED
  BY <1>1, <1>2, <1>3, <1>4, <1>5

\* DORA keeps its promise, for any flows over any partitions and keys: conflicting
\* actions of two transactions are separated by the end of the first, phases come in
\* order, and only what ran completely and without error commits (worker.cpp:200-305,
\* rvp.cpp:237-320).  As long as no keys are taken from running transactions.
THEOREM DoraKeepsPromise == Spec /\ []Followed => KeepsPromise
<1>1. Init => Promise!Init
  <2> SUFFICES ASSUME Init PROVE Promise!Init
    OBVIOUS
  <2>1. ran = {} /\ prec = {} /\ ended = <<>>
    BY DEF Init
  <2>2. /\ rvp = [x \in Xct |-> [phase |-> 1, sent |-> 0, left |-> Len(Flow[x][1]),
                                 aborted |-> FALSE, outcome |-> "none", told |-> 0]]
        /\ worker = [p \in Partition |-> [pc |-> "loop", ready |-> <<>>, error |-> FALSE]]
    BY DEF Init
  <2>4. ASSUME NEW x \in Xct PROVE ~rvp[x].aborted /\ rvp[x].outcome # "committed"
    <3>1. PICK n : n = Len(Flow[x][1])
      OBVIOUS
    <3>2. rvp[x] = [phase |-> 1, sent |-> 0, left |-> n,
                    aborted |-> FALSE, outcome |-> "none", told |-> 0]
      BY <2>2, <3>1
    <3> QED
      BY <3>2
  <2>5. ASSUME NEW x \in Xct PROVE ~Failed(x)
    BY <2>2, <2>4 DEF Failed
  <2> QED
    BY <2>1, <2>4, <2>5 DEF Promise!Init
<1>2. FlowInv /\ [Next]_vars => [Promise!Next]_(Promise!vars)
  BY StepsKeepPromise
<1>3. Spec => [](Followed => FlowInv)
  BY FlowsKeepTheirPlaces
<1> QED
  BY <1>1, <1>2, <1>3, PTL DEF Spec, KeepsPromise, Promise!Spec

-----------------------------------------------------------------------------
(***************************************************************************)
(* The way back, and the next run.                                         *)
(***************************************************************************)
\* Actions that were sent back belong to transactions that ended.
LEMMA ToldFacts ==
    ASSUME FlowInv, NEW b \in ActionId
    PROVE  /\ Told(b) => ~Open(b)
           /\ rvp'[XctOf[b]].told = rvp[XctOf[b]].told /\
              (rvp'[XctOf[b]].phase = rvp[XctOf[b]].phase \/ Open(b)) => (Told(b)' <=> Told(b))
<1>1. PICK x, n : x = XctOf[b] /\ n = rvp[x].told /\ x \in Xct /\ n \in Nat
                  /\ (n > 0 => rvp[x].outcome # "none")
  BY ActionFacts DEF FlowInv, RvpTypes, RvpType
<1>2. Told(b) <=> \E i \in 1 .. n : ActionsUpTo[x][rvp[x].phase][i] = b
  BY <1>1 DEF Told
<1>3. rvp'[x].told = n => (Told(b)' <=> \E i \in 1 .. n : ActionsUpTo[x][rvp'[x].phase][i] = b)
  BY <1>1 DEF Told
<1>4. Open(b) => n = 0
  BY <1>1 DEF Open
<1>5. n = 0 => 1 .. n = {}
  BY <1>1
<1> QED
  BY <1>1, <1>2, <1>3, <1>4, <1>5

\* The committed queues stay, and an action owns its key when its transaction ends.
LEMMA BackStays ==
    ASSUME FlowInv, BackInv, commitq' = commitq,
           \A b \in ActionId :
               /\ Told(b)' <=> Told(b)
               /\ ~Open(b) => (Owns(b)' <=> Owns(b))
               /\ Sent(b)' /\ ~Open(b)' => (Sent(b) /\ ~Open(b)) \/ Owns(b)'
    PROVE  BackInv'
<1>1. \A b \in ActionId : (Back(b)' <=> Back(b)) /\ (Told(b) => ~Open(b))
  BY Unmoved, ToldFacts
<1> QED
  BY <1>1 DEF BackInv

\* A step that leaves the locks and committed queues alone.
LEMMA BackApart ==
    ASSUME FlowInv, FlowInv', BackInv, UNCHANGED <<commitq, locks>>,
           \A x \in Xct : /\ rvp'[x].told = rvp[x].told
                          /\ rvp'[x].phase = rvp[x].phase \/ rvp[x].outcome = "none",
           \A b \in ActionId : Sent(b)' /\ ~Open(b)' => Sent(b) /\ (~Open(b) \/ inq' = inq)
    PROVE  BackInv'
<1>1. ASSUME NEW b \in ActionId
      PROVE  /\ Told(b)' <=> Told(b)
             /\ Owns(b)' <=> Owns(b)
             /\ Sent(b)' /\ ~Open(b)' => (Sent(b) /\ ~Open(b)) \/ Owns(b)'
  <2>1. Told(b)' <=> Told(b)
    BY ActionFacts, ToldFacts DEF Open
  <2>2. (Owns(b)' <=> Owns(b)) /\ (Waits(b)' <=> Waits(b))
    BY Unmoved
  <2>3. ASSUME Sent(b)', ~Open(b)', Open(b) PROVE Owns(b)'
    <3>1. Sent(b) /\ (Queued(b)' <=> Queued(b))
      BY <2>3, Unmoved
    <3>2. Queued(b) \/ Waits(b) \/ Owns(b)
      BY <2>3, <3>1 DEF FlowInv, PlaceInv
    <3>3. ~Queued(b)' /\ ~Waits(b)'
      BY <2>3 DEF FlowInv, PlaceInv
    <3> QED
      BY <2>2, <3>1, <3>2, <3>3
  <2> QED
    BY <2>1, <2>2, <2>3
<1> QED
  BY <1>1, BackStays

\* Dispatching, serving and posting.
LEMMA ApartSteps ==
    ASSUME FlowInv, FlowInv', BackInv,
           \/ \E x \in Xct : ClientDispatch(x)
           \/ \E p \in Partition : \/ WorkerDispatch(p) \/ Execute(p) \/ EarlyAbort(p)
                                   \/ PostNotLast(p) \/ PostRunsMidway(p) \/ PostEnds(p)
    PROVE  BackInv'
<1>1. rvp \in [Xct -> RvpType]
  BY DEF FlowInv, RvpTypes
<1>2. ASSUME NEW x \in Xct, Enqueue(x), UNCHANGED <<commitq, locks>> PROVE BackInv'
  <2>1. PICK a : a = NextOf(x)
    OBVIOUS
  <2>2. /\ Open(a) /\ \A b \in ActionId : /\ Sent(b)' <=> Sent(b) \/ b = a
                                          /\ Open(b)' <=> Open(b)
    BY <1>2, <2>1, Enqueued
  <2>3. PICK n : rvp' = [rvp EXCEPT ![x].sent = n]
    BY <1>2 DEF Enqueue
  <2>4. \A y \in Xct : rvp'[y].told = rvp[y].told /\ rvp'[y].phase = rvp[y].phase
    BY <1>1, <2>3 DEF RvpType
  <2> QED
    BY <1>2, <2>2, <2>4, BackApart
<1>3. ASSUME NEW x \in Xct, ClientDispatch(x) PROVE BackInv'
  BY <1>2, <1>3 DEF ClientDispatch
<1>4. ASSUME NEW p \in Partition, WorkerDispatch(p) PROVE BackInv'
  <2>1. PICK x : x = Serving(p)
    OBVIOUS
  <2>2. Enqueue(x) /\ UNCHANGED <<commitq, locks>> /\ worker[p].pc = "dispatch"
    BY <1>4, <2>1 DEF WorkerDispatch
  <2>3. x \in Xct
    BY <2>1, <2>2, WorkerFacts
  <2> QED
    BY <1>2, <2>2, <2>3
<1>5. ASSUME NEW p \in Partition, Execute(p) \/ EarlyAbort(p) PROVE BackInv'
  <2>1. UNCHANGED <<rvp, inq, commitq, locks>>
    BY <1>5 DEF Execute, EarlyAbort
  <2> QED
    BY <2>1, Unmoved, BackApart
<1>6. ASSUME NEW p \in Partition, PostNotLast(p) \/ PostRunsMidway(p) \/ PostEnds(p)
      PROVE  BackInv'
  <2>1. PICK x : x = Serving(p)
    OBVIOUS
  <2>2. UNCHANGED <<inq, commitq, locks>> /\ worker[p].pc = "post"
    BY <1>6, Zenon DEF PostNotLast, PostRunsMidway, PostEnds
  <2>3. x \in Xct /\ rvp[x].outcome = "none"
    BY <2>1, <2>2, WorkerFacts, TodoFacts DEF Open
  <2>4. /\ \A y \in Xct : y # x => rvp'[y] = rvp[y]
        /\ rvp'[x].told = rvp[x].told
        /\ rvp'[x].outcome # "none" =>
              rvp'[x].phase = rvp[x].phase /\ rvp'[x].sent = rvp[x].sent
    <3>1. CASE PostNotLast(p)
      <4>1. PICK n, d : rvp' = [rvp EXCEPT ![x].left = n, ![x].aborted = d]
        BY <2>1, <3>1 DEF PostNotLast
      <4> QED
        BY <1>1, <2>3, <4>1 DEF RvpType
    <3>2. CASE PostRunsMidway(p)
      <4>1. PICK m, n : rvp' = [rvp EXCEPT ![x].phase = m, ![x].sent = 0, ![x].left = n]
        BY <2>1, <3>2 DEF PostRunsMidway
      <4> QED
        BY <1>1, <2>3, <4>1 DEF RvpType
    <3>3. CASE PostEnds(p)
      <4>1. PICK d : d = Aborting(p)
        OBVIOUS
      <4>2. PICK o : rvp' = [rvp EXCEPT ![Serving(p)].left = 0,
                                        ![Serving(p)].aborted = Aborting(p),
                                        ![Serving(p)].outcome = o]
        BY <3>3, Zenon DEF PostEnds
      <4>3. rvp' = [rvp EXCEPT ![x].left = 0, ![x].aborted = d, ![x].outcome = o]
        BY <2>1, <4>1, <4>2, Zenon
      <4> QED
        BY <1>1, <2>3, <4>3 DEF RvpType
    <3> QED
      BY <1>6, <3>1, <3>2, <3>3
  <2>5. ASSUME NEW b \in ActionId, Sent(b)', ~Open(b)' PROVE Sent(b)
    <3>1. XctOf[b] \in Xct
      BY ActionFacts
    <3> QED
      BY <2>4, <2>5, <3>1 DEF Sent, Open
  <2>6. \A y \in Xct : /\ rvp'[y].told = rvp[y].told
                       /\ rvp'[y].phase = rvp[y].phase \/ rvp[y].outcome = "none"
    BY <2>3, <2>4
  <2> QED
    BY <2>2, <2>5, <2>6, BackApart, Zenon
<1> QED
  BY <1>3, <1>4, <1>5, <1>6

\* notify_partitions(): an action goes back once.
LEMMA BackSends ==
    ASSUME FlowInv, BackInv, NEW x \in Xct, SendBack(x), rvp[x].outcome # "none",
           rvp[x].told < Len(ActionsUpTo[x][rvp[x].phase]), locks' = locks
    PROVE  BackInv'
<1>1. PICK a, m, n, all : /\ a = ToTell(x) /\ m = rvp[x].phase /\ n = rvp[x].told
                          /\ all = ActionsUpTo[x][m]
  OBVIOUS
<1>2. /\ a \in ActionId /\ XctOf[a] = x /\ Sent(a) /\ ~Open(a)
      /\ \A b \in ActionId : /\ Sent(b)' <=> Sent(b)
                             /\ Back(b)' <=> Back(b) \/ b = a
                             /\ Open(b)' <=> Open(b)
      /\ \A y \in Xct : y # x => rvp'[y] = rvp[y]
      /\ rvp'[x] = [rvp[x] EXCEPT !.told = @ + 1]
  BY <1>1, SendsBack
<1>3. rvp[x] \in RvpType /\ n \in Nat /\ m \in DOMAIN Flow[x]
  BY <1>1 DEF FlowInv, RvpTypes, RvpType
<1>4. Len(all) \in Nat /\ DOMAIN all = 1 .. Len(all) /\ Once(all)
  BY <1>1, <1>3, UpTo
<1>5. n < Len(all) /\ a = all[n + 1]
  BY <1>1 DEF ToTell
<1>6. rvp'[x].told = n + 1 /\ rvp'[x].phase = m
  BY <1>1, <1>2, <1>3 DEF RvpType
<1>7. ASSUME NEW b \in ActionId PROVE Told(b)' <=> Told(b) \/ b = a
  <2>1. XctOf[b] \in Xct
    BY ActionFacts
  <2>2. CASE XctOf[b] # x
    <3>1. rvp'[XctOf[b]] = rvp[XctOf[b]] /\ b # a
      BY <1>2, <2>1, <2>2
    <3> QED
      BY <3>1 DEF Told
  <2>3. CASE XctOf[b] = x
    <3>1. Told(b) <=> \E i \in 1 .. n : all[i] = b
      BY <1>1, <2>3 DEF Told
    <3>2. Told(b)' <=> \E i \in 1 .. n + 1 : all[i] = b
      BY <1>1, <1>6, <2>3 DEF Told
    <3>3. 1 .. n + 1 = (1 .. n) \cup {n + 1}
      BY <1>3
    <3> QED
      BY <1>5, <3>1, <3>2, <3>3
  <2> QED
    BY <2>2, <2>3
<1>8. ~Told(a)
  <2> SUFFICES ASSUME Told(a) PROVE FALSE
    OBVIOUS
  <2>1. PICK i \in 1 .. n : all[i] = a
    BY <1>1, <1>2 DEF Told
  <2>2. i \in DOMAIN all /\ n + 1 \in DOMAIN all /\ i # n + 1
    BY <1>3, <1>4, <1>5
  <2> QED
    BY <1>4, <1>5, <2>1, <2>2 DEF Once
<1>9. ~Back(a) /\ Owns(a)
  BY <1>2, <1>8 DEF BackInv
<1>10. \A b \in ActionId : Owns(b)' <=> Owns(b)
  BY Unmoved
<1>11. \A p \in Partition : Once(commitq'[p])
  <2>1. /\ commitq \in [Partition -> Seq(ActionId)]
        /\ \A p \in Partition : Home(p, commitq[p])
    BY Zenon DEF FlowInv, QueueTypes, QueueInv
  <2>2. commitq' = [commitq EXCEPT ![Part(a)] = Append(commitq[Part(a)], a)]
    BY <1>1, <2>1 DEF SendBack, ToTell
  <2>3. Grown(commitq, a, commitq')
    BY <1>2, <2>1, <2>2, PushedAt
  <2> QED
    BY <1>9, <2>3 DEF Grown, Back, BackInv
<1> QED
  BY <1>2, <1>7, <1>9, <1>10, <1>11 DEF BackInv

\* A released action has come back, and is gone then.
LEMMA BackReleased ==
    ASSUME FlowInv, BackInv, NEW p \in Partition, ReleaseCommitted(p)
    PROVE  BackInv'
<1>1. PICK a : a = Head(commitq[p])
  BY Zenon
<1>2. /\ commitq \in [Partition -> Seq(ActionId)] /\ commitq[p] # <<>>
      /\ commitq' = [commitq EXCEPT ![p] = Tail(commitq[p])] /\ rvp' = rvp
      /\ Home(p, commitq[p]) /\ Once(commitq[p])
  BY DEF ReleaseCommitted, FlowInv, QueueTypes, QueueInv, BackInv
<1>3. commitq[p] \in Seq(ActionId)
  BY <1>2
<1>4. /\ a \in ActionId /\ Part(a) = p /\ Once(Tail(commitq[p]))
      /\ Has(commitq[p], a) /\ ~Has(Tail(commitq[p]), a)
      /\ \A c : Has(commitq[p], c) <=> c = a \/ Has(Tail(commitq[p]), c)
  BY <1>1, <1>2, <1>3, Popped
<1>5. Told(a)
  BY <1>4 DEF BackInv, Back
<1>6. ASSUME NEW b \in ActionId
      PROVE  /\ Back(b)' <=> Back(b) /\ b # a
             /\ Told(b)' <=> Told(b)
             /\ Told(b) => ~Open(b)
             /\ (Sent(b)' <=> Sent(b)) /\ (Open(b)' <=> Open(b))
             /\ ~Open(b) => (Owns(b)' <=> Owns(b) /\ b # a)
  <2>1. Back(b)' <=> Back(b) /\ b # a
    <3>1. Part(b) \in Partition
      BY ActionFacts
    <3>2. CASE Part(b) = p
      <4>1. commitq'[p] = Tail(commitq[p])
        BY <1>2
      <4> QED
        BY <1>4, <3>2, <4>1 DEF Back
    <3>3. CASE Part(b) # p
      <4>1. commitq'[Part(b)] = commitq[Part(b)]
        BY <1>2, <3>1, <3>3
      <4> QED
        BY <1>4, <3>3, <4>1 DEF Back
    <3> QED
      BY <3>2, <3>3
  <2>2. (Sent(b)' <=> Sent(b)) /\ (Open(b)' <=> Open(b))
    BY <1>2, Unmoved
  <2>3. (Told(b)' <=> Told(b)) /\ (Told(b) => ~Open(b))
    BY <1>2, ToldFacts
  <2>4. ~Open(b) => (Owns(b)' <=> Owns(b) /\ b # a)
    BY <1>1, ReleaseCommittedKeeps
  <2> QED
    BY <2>1, <2>2, <2>3, <2>4
<1>7. \A q \in Partition : Once(commitq'[q])
  BY <1>2, <1>4 DEF BackInv
<1> QED
  BY <1>5, <1>6, <1>7 DEF BackInv

\* The steps of a run.
LEMMA BackStep ==
    ASSUME FlowInv, FlowInv', BackInv, [Next]_vars, ~PrepareNewRun
    PROVE  BackInv'
<1>1. CASE UNCHANGED vars \/ Finished \/ LatePush
  <2>1. UNCHANGED <<rvp, commitq, locks, inq>>
    BY <1>1, OnlySpins
  <2> QED
    BY <2>1, Unmoved, BackApart
<1>2. CASE \/ \E x \in Xct : ClientDispatch(x)
           \/ \E p \in Partition : \/ WorkerDispatch(p) \/ Execute(p) \/ EarlyAbort(p)
                                   \/ PostNotLast(p) \/ PostRunsMidway(p) \/ PostEnds(p)
  BY <1>2, ApartSteps
<1>3. ASSUME NEW p \in Partition, ReleaseCommitted(p) PROVE BackInv'
  BY <1>3, BackReleased
<1>4. ASSUME NEW p \in Partition, Dequeue(p) PROVE BackInv'
  <2>1. UNCHANGED <<rvp, commitq>>
    BY <1>4 DEF Dequeue
  <2>2. \A b \in ActionId : ~Open(b) => (Owns(b)' <=> Owns(b))
    BY <1>4, DequeueKeeps
  <2>3. \A b \in ActionId : /\ Told(b)' <=> Told(b)
                            /\ (Sent(b)' <=> Sent(b)) /\ (Open(b)' <=> Open(b))
    BY <2>1, ToldFacts, Unmoved
  <2> QED
    BY <2>1, <2>2, <2>3, BackStays
<1>5. ASSUME NEW p \in Partition, WorkerNotify(p) PROVE BackInv'
  <2>1. PICK x : x = Serving(p)
    OBVIOUS
  <2>2. worker[p].pc = "notify" /\ SendBack(x) /\ locks' = locks
    BY <1>5, <2>1 DEF WorkerNotify
  <2>3. /\ x \in Xct /\ rvp[x].outcome # "none"
        /\ rvp[x].told < Len(ActionsUpTo[x][rvp[x].phase])
    BY <2>1, <2>2, WorkerFacts DEF FlowInv, DriverInv, DriverOK
  <2> QED
    BY <2>2, <2>3, BackSends
<1>6. CASE NotifierNotify
  <2>1. PICK x \in notifier : SendBack(x) /\ locks' = locks
    BY <1>6 DEF NotifierNotify
  <2>2. /\ x \in Xct /\ rvp[x].outcome # "none"
        /\ rvp[x].told < Len(ActionsUpTo[x][rvp[x].phase])
    BY DEF FlowInv, DriverInv, OtherTypes
  <2> QED
    BY <2>1, <2>2, BackSends
<1> QED
  BY <1>1, <1>2, <1>3, <1>4, <1>5, <1>6 DEF Next, Work

-----------------------------------------------------------------------------
(***************************************************************************)
(* The run that is over.                                                   *)
(***************************************************************************)
\* Only the shell changes what is prepared, and for whom.
LEMMA OnlyShellPrepares ==
    ASSUME [Next]_vars, ~PrepareNewRun
    PROVE  UNCHANGED <<prepared, victims>>
<1>1. CASE UNCHANGED vars \/ Finished \/ LatePush
  BY <1>1, OnlySpins
<1>2. ASSUME NEW x \in Xct, ClientDispatch(x) PROVE UNCHANGED <<prepared, victims>>
  BY <1>2 DEF ClientDispatch, history, newrun
<1>3. ASSUME NEW p \in Partition, Work(p) PROVE UNCHANGED <<prepared, victims>>
  <2>1. CASE ReleaseCommitted(p) \/ Dequeue(p) \/ WorkerDispatch(p) \/ WorkerNotify(p)
    BY <2>1, Zenon DEF ReleaseCommitted, Dequeue, WorkerDispatch, WorkerNotify, history, newrun
  <2>2. CASE Execute(p) \/ EarlyAbort(p) \/ PostEnds(p)
    BY <2>2 DEF Execute, EarlyAbort, PostEnds, history, newrun
  <2>3. CASE PostNotLast(p) \/ PostRunsMidway(p)
    BY <2>3 DEF PostNotLast, PostRunsMidway, history, newrun
  <2> QED
    BY <1>3, <2>1, <2>2, <2>3, Zenon DEF Work
<1>4. CASE NotifierNotify
  BY <1>4 DEF NotifierNotify, history, newrun
<1> QED
  BY <1>1, <1>2, <1>3, <1>4 DEF Next

\* A list of actions has a length.
LEMMA ListLength ==
    ASSUME FlowInv, NEW x \in Xct
    PROVE  Len(ActionsUpTo[x][rvp[x].phase]) \in Nat
<1>1. PICK s : s = ActionsUpTo[x][rvp[x].phase]
  OBVIOUS
<1>2. rvp[x].phase \in DOMAIN Flow[x]
  BY RvpFacts
<1>3. Len(s) \in Nat
  BY <1>1, <1>2, UpTo
<1> QED
  BY <1>1, <1>3

\* When every client was told, every action was sent back.
LEMMA HeardFacts ==
    ASSUME FlowInv, Flusher, \A x \in submitted : Heard(x), NEW b \in ActionId
    PROVE  /\ ~Queued(b) /\ ~Waits(b) /\ ~InHand(b)
           /\ Sent(b) => Told(b) /\ ~Open(b) /\ AllTold(XctOf[b])
<1>1. PICK x, m, n, all : /\ x = XctOf[b] /\ x \in Xct /\ m = rvp[x].phase /\ n = rvp[x].told
                          /\ all = ActionsUpTo[x][m] /\ b[2] \in Nat
  BY ActionFacts
<1>2. Sent(b) => rvp[x].outcome # "none" /\ AllTold(x)
  <2>1. Sent(b) => x \in submitted
    BY <1>1 DEF FlowInv, PlaceInv
  <2> QED
    BY <2>1 DEF Heard
<1>3. m \in DOMAIN Flow[x] /\ m \in Nat
  BY <1>1, RvpFacts
<1>4. DOMAIN all = 1 .. Len(all) /\ (Has(all, b) <=> b[2] <= m)
  BY <1>1, <1>3, UpTo
<1>5. Sent(b) => b[2] <= m
  BY <1>1, <1>3 DEF Sent
<1>6. AllTold(x) => n = Len(all)
  BY <1>1 DEF AllTold
<1>7. Told(b) <=> \E i \in 1 .. n : all[i] = b
  BY <1>1 DEF Told
<1>8. Sent(b) => Told(b)
  BY <1>2, <1>4, <1>5, <1>6, <1>7 DEF Has
<1>9. Open(b) <=> rvp[x].outcome = "none"
  BY <1>1 DEF Open
<1> QED
  BY <1>1, <1>2, <1>8, <1>9 DEF FlowInv, PlaceInv

\* All that is left to do then is to release keys and to prepare partitions.
LEMMA RunEnded ==
    ASSUME FlowInv, Flusher, \A x \in submitted : Heard(x), [Next]_vars
    PROVE  \/ \E p \in Partition : ReleaseCommitted(p)
           \/ PrepareNewRun
           \/ UNCHANGED vars \/ LatePush
<1>1. ASSUME NEW x \in Xct, ClientDispatch(x) PROVE FALSE
  <2>1. PICK a : a = NextOf(x)
    OBVIOUS
  <2>2. x \in submitted /\ Enqueue(x)
    BY <1>1 DEF ClientDispatch
  <2>3. Open(a) /\ XctOf[a] = x
    BY <2>1, <2>2, Enqueued
  <2> QED
    BY <2>2, <2>3 DEF Open, Heard
<1>2. ASSUME NEW p \in Partition, worker[p].pc \in {"serve", "post", "dispatch", "notify"}
      PROVE  FALSE
  <2>1. PICK s, x : s = Served(p) /\ x = Serving(p)
    OBVIOUS
  <2>2. s \in ActionId /\ x = XctOf[s] /\ x \in Xct
    BY <1>2, <2>1, WorkerFacts
  <2>3. worker[p].pc \notin {"serve", "post"}
    BY <2>1, <2>2, WorkerFacts, HeardFacts
  <2>4. DriverOK(p)
    BY DEF FlowInv, DriverInv
  <2>5. Sent(s)
    BY <1>2, <2>1, <2>3, <2>4 DEF DriverOK
  <2>6. ~Open(s) /\ AllTold(x)
    BY <2>2, <2>5, HeardFacts
  <2>7. worker[p].pc # "dispatch"
    BY <2>1, <2>2, <2>4, <2>6 DEF DriverOK, Open
  <2>8. worker[p].pc # "notify"
    <3>1. PICK n : n = Len(ActionsUpTo[x][rvp[x].phase]) /\ n \in Nat
      BY <2>2, ListLength
    <3>2. rvp[x].told = n
      BY <2>6, <3>1 DEF AllTold
    <3> QED
      BY <2>1, <2>4, <3>1, <3>2 DEF DriverOK
  <2> QED
    BY <1>2, <2>3, <2>7, <2>8
<1>3. ASSUME NEW p \in Partition, Work(p) PROVE ReleaseCommitted(p)
  <2>1. CASE Dequeue(p)
    <3>1. PICK a : a = Head(inq[p])
      OBVIOUS
    <3>2. inq[p] \in Seq(ActionId) /\ inq[p] # <<>> /\ Home(p, inq[p])
      BY <2>1 DEF Dequeue, FlowInv, QueueTypes, QueueInv
    <3>3. a \in ActionId /\ Part(a) = p /\ Has(inq[p], a)
      BY <3>1, <3>2, Popped
    <3>4. Queued(a)
      BY <3>3 DEF Queued, Has
    <3> QED
      BY <3>3, <3>4, HeardFacts
  <2>2. CASE Execute(p) \/ EarlyAbort(p)
    BY <1>2, <2>2 DEF Execute, EarlyAbort
  <2>3. CASE PostNotLast(p) \/ PostRunsMidway(p) \/ PostEnds(p)
    BY <1>2, <2>3 DEF PostNotLast, PostRunsMidway, PostEnds
  <2>4. CASE WorkerDispatch(p) \/ WorkerNotify(p)
    BY <1>2, <2>4 DEF WorkerDispatch, WorkerNotify
  <2> QED
    BY <1>3, <2>1, <2>2, <2>3, <2>4 DEF Work
<1>4. CASE NotifierNotify
  <2>1. PICK x \in notifier : SendBack(x)
    BY <1>4 DEF NotifierNotify
  <2>2. /\ x \in Xct /\ rvp[x].outcome # "none"
        /\ rvp[x].told < Len(ActionsUpTo[x][rvp[x].phase])
    BY DEF FlowInv, DriverInv, OtherTypes
  <2>3. PICK a : a = ToTell(x)
    OBVIOUS
  <2>4. a \in ActionId /\ XctOf[a] = x /\ Sent(a)
    BY <2>1, <2>2, <2>3, SendsBack
  <2>5. AllTold(x)
    BY <2>4, HeardFacts
  <2>6. PICK n : n = Len(ActionsUpTo[x][rvp[x].phase]) /\ n \in Nat
    BY <2>2, ListLength
  <2>7. rvp[x].told = n
    BY <2>5, <2>6 DEF AllTold
  <2> QED
    BY <2>2, <2>6, <2>7
<1> QED
  BY <1>1, <1>3, <1>4 DEF Next, Finished

\* A partition whose committed queue is empty has no owners any more.
LEMMA NothingOwned ==
    ASSUME FlowInv, BackInv, Flusher, \A x \in submitted : Heard(x),
           NEW p \in Partition, commitq[p] = <<>>
    PROVE  /\ \A b \in ActionId : Part(b) = p => ~Owns(b)
           /\ Owners(p) = {}
<1>1. ASSUME NEW b \in ActionId, Part(b) = p, Owns(b) PROVE FALSE
  <2>1. Sent(b)
    BY <1>1 DEF FlowInv, PlaceInv
  <2>2. Told(b)
    BY <2>1, HeardFacts
  <2>3. Back(b)
    BY <1>1, <2>2 DEF BackInv
  <2> QED
    BY <1>1, <2>3 DEF Back, Has
<1>2. ASSUME NEW k \in DOMAIN locks[p], NEW i \in DOMAIN locks[p][k].owners PROVE FALSE
  <2>1. PICK b : b = locks[p][k].owners[i].action
    OBVIOUS
  <2>2. b \in ActionId /\ Part(b) = p /\ KeyOf(b) = k
    BY <2>1 DEF FlowInv, LocksInv, LockInv, EntryAt
  <2>3. Owns(b)
    BY <2>1, <2>2 DEF Owns, Occurs
  <2> QED
    BY <1>1, <2>2, <2>3
<1>3. Owners(p) = {}
  BY <1>2 DEF Owners
<1> QED
  BY <1>1, <1>3

\* The shell prepares a partition.
LEMMA PrepareCleans ==
    ASSUME FlowInv, BackInv, RunInv, NewRunIsClean, PrepareNewRun, Secured'
    PROVE  FlowInv' /\ BackInv' /\ RunInv' /\ NewRunIsClean'
<1>1. PICK p : p = CHOOSE q \in Partition \ prepared : TRUE
  OBVIOUS
<1>2. /\ RunOver /\ prepared # Partition /\ Sleeping(p)
      /\ locks' = [locks EXCEPT ![p] =
            [k \in DOMAIN @ |-> IF Clean(@[k]) THEN @[k] ELSE AbortAndReset]]
      /\ prepared' = prepared \cup {p} /\ victims' = victims \cup Owners(p)
      /\ UNCHANGED <<rvp, inq, commitq, worker, notifier, submitted, ran, prec, ended>>
  BY <1>1 DEF PrepareNewRun, ToPrepare
<1>3. p \in Partition /\ p \notin prepared /\ prepared' # {}
  BY <1>1, <1>2 DEF FlowInv, OtherTypes
<1>4. Flusher /\ submitted \subseteq Waited
  BY <1>2, <1>3 DEF Secured
<1>5. \A x \in submitted : Heard(x) /\ (Heard(x)' <=> Heard(x))
  BY <1>2, <1>4 DEF RunOver, Heard, AllTold
<1>6. RunInv'
  BY <1>2, <1>5 DEF RunInv
<1>7. commitq[p] = <<>>
  BY <1>2 DEF Sleeping, Idle
<1>8. Owners(p) = {} /\ \A b \in ActionId : Part(b) = p => ~Owns(b)
  BY <1>3, <1>4, <1>5, <1>7, NothingOwned
<1>9. /\ FlowInv'
      /\ \A b \in ActionId : /\ Owns(b)' => Owns(b)
                             /\ Part(b) \notin prepared' \ prepared => (Owns(b) => Owns(b)')
  <2>1. Followed'
    BY <1>2, <1>4 DEF Followed
  <2> QED
    BY <2>1, PrepareNewRunKeeps
<1>10. prepared' \ prepared = {p}
  BY <1>2, <1>3
<1>11. \A b \in ActionId : /\ Owns(b)' <=> Owns(b)
                           /\ Told(b)' <=> Told(b)
                           /\ (Sent(b)' <=> Sent(b)) /\ (Open(b)' <=> Open(b))
  BY <1>2, <1>8, <1>9, <1>10, ToldFacts, Unmoved
<1>12. BackInv'
  BY <1>2, <1>11, BackStays
<1>13. DOMAIN locks = Partition
  BY DEF FlowInv, LocksInv
<1>14. PICK t, t2 : t = locks[p] /\ t2 = locks'[p]
  OBVIOUS
<1>15. t2 = [k \in DOMAIN t |-> IF Clean(t[k]) THEN t[k] ELSE AbortAndReset]
  BY <1>2, <1>3, <1>13, <1>14
<1>16. Clean(AbortAndReset)
  BY DEF Clean, AbortAndReset
<1>17. \A k \in DOMAIN t2 : Clean(t2[k])
  BY <1>15, <1>16
<1>18. ASSUME NEW q \in prepared'
       PROVE  Idle(q)' /\ \A k \in DOMAIN locks'[q] : Clean(locks'[q][k])
  <2>1. Idle(q)' <=> Idle(q)
    BY <1>2 DEF Idle
  <2>2. CASE q = p
    BY <1>2, <1>14, <1>17, <2>1, <2>2 DEF Sleeping
  <2>3. CASE q # p
    <3>1. q \in prepared /\ q \in Partition
      BY <1>2, <2>3 DEF FlowInv, OtherTypes
    <3>2. locks'[q] = locks[q]
      BY <1>2, <1>13, <2>3, <3>1
    <3> QED
      BY <2>1, <3>1, <3>2 DEF NewRunIsClean
  <2> QED
    BY <2>2, <2>3
<1>19. victims' = {}
  BY <1>2, <1>8 DEF NewRunIsClean
<1>20. NewRunIsClean'
  BY <1>18, <1>19 DEF NewRunIsClean, Clean
<1> QED
  BY <1>6, <1>9, <1>12, <1>20

\* Every step.
LEMMA SecuredStep == SecuredInv /\ [Next]_vars => SecuredInv'
<1> SUFFICES ASSUME SecuredInv, [Next]_vars, Secured'
             PROVE  FlowInv' /\ BackInv' /\ RunInv' /\ NewRunIsClean'
  BY DEF SecuredInv
<1>1. Secured /\ FlowInv /\ BackInv /\ RunInv /\ NewRunIsClean
  BY PreparedGrows DEF Secured, SecuredInv
<1>2. CASE PrepareNewRun
  BY <1>1, <1>2, PrepareCleans
<1>3. CASE ~PrepareNewRun
  <2>1. UNCHANGED <<prepared, victims, submitted>>
    BY <1>3, OnlyShellPrepares, PreparedGrows
  <2>2. FlowInv'
    <3>1. Followed'
      BY DEF Secured, Followed
    <3> QED
      BY <1>1, <3>1, FlowStep DEF FollowedInv
  <2>3. BackInv'
    BY <1>1, <1>3, <2>2, BackStep
  <2>4. CASE prepared = {}
    BY <1>1, <2>1, <2>2, <2>3, <2>4 DEF RunInv, NewRunIsClean
  <2>5. CASE prepared # {}
    <3>1. Flusher /\ \A x \in submitted : Heard(x)
      BY <1>1, <2>5 DEF Secured, RunInv
    <3>2. (\E q \in Partition : ReleaseCommitted(q)) \/ UNCHANGED vars \/ LatePush
      BY <1>1, <1>3, <3>1, RunEnded
    <3>3. CASE UNCHANGED vars \/ LatePush
      <4>1. UNCHANGED <<rvp, inq, commitq, worker, locks>>
        BY <3>3, OnlySpins
      <4>2. RunInv' <=> RunInv
        BY <2>1, <4>1 DEF RunInv, Heard, AllTold
      <4>3. NewRunIsClean' <=> NewRunIsClean
        BY <2>1, <4>1 DEF NewRunIsClean, Idle, Clean
      <4> QED
        BY <1>1, <2>2, <2>3, <4>2, <4>3
    <3>4. ASSUME NEW q \in Partition, ReleaseCommitted(q)
          PROVE  RunInv' /\ NewRunIsClean'
      <4>1. PICK k, after, w : /\ commitq[q] # <<>> /\ UNCHANGED <<rvp, inq>>
                               /\ commitq' = [commitq EXCEPT ![q] = Tail(commitq[q])]
                               /\ locks' = [locks EXCEPT ![q][k] = after]
                               /\ \A r \in Partition : r # q => worker'[r] = worker[r]
        <5>1. worker \in [Partition -> WorkerType]
          BY <1>1 DEF FlowInv, QueueTypes
        <5> QED
          BY <3>4, <5>1, Zenon DEF ReleaseCommitted
      <4>2. RunInv'
        BY <1>1, <2>1, <4>1 DEF RunInv, Heard, AllTold
      <4>3. ASSUME NEW r \in prepared
            PROVE  Idle(r)' /\ \A l \in DOMAIN locks'[r] : Clean(locks'[r][l])
        <5>1. Idle(r) /\ \A l \in DOMAIN locks[r] : Clean(locks[r][l])
          BY <1>1 DEF NewRunIsClean
        <5>2. r # q /\ r \in Partition
          BY <1>1, <4>1, <5>1 DEF Idle, FlowInv, OtherTypes
        <5>3. worker'[r] = worker[r] /\ inq'[r] = inq[r] /\ commitq'[r] = commitq[r]
              /\ locks'[r] = locks[r]
          <6>1. DOMAIN locks = Partition /\ DOMAIN commitq = Partition
            BY <1>1 DEF FlowInv, LocksInv, QueueTypes
          <6> QED
            BY <4>1, <5>2, <6>1
        <5> QED
          BY <5>1, <5>3 DEF Idle
      <4>4. NewRunIsClean'
        BY <1>1, <2>1, <4>3 DEF NewRunIsClean, Clean
      <4> QED
        BY <4>2, <4>4, Zenon
    <3> QED
      BY <2>2, <2>3, <3>2, <3>3, <3>4
  <2> QED
    BY <2>4, <2>5
<1> QED
  BY <1>2, <1>3

\* At the start nothing was sent back.
LEMMA SecuredStart == Init => SecuredInv
<1> SUFFICES ASSUME Init PROVE FlowInv /\ BackInv /\ RunInv /\ NewRunIsClean
  BY DEF SecuredInv
<1>1. FlowInv
  BY FlowStart
<1>2. /\ commitq = [p \in Partition |-> <<>>] /\ prepared = {} /\ victims = {}
      /\ rvp = [x \in Xct |-> [phase |-> 1, sent |-> 0, left |-> Len(Flow[x][1]),
                               aborted |-> FALSE, outcome |-> "none", told |-> 0]]
  BY DEF Init
<1>3. ASSUME NEW x \in Xct PROVE rvp[x].outcome = "none"
  <2>1. PICK r, n : r = rvp[x] /\ n = Len(Flow[x][1])
    OBVIOUS
  <2>2. r = [phase |-> 1, sent |-> 0, left |-> n, aborted |-> FALSE, outcome |-> "none", told |-> 0]
    BY <1>2, <2>1
  <2>3. r.outcome = "none"
    BY <2>2
  <2> QED
    BY <2>1, <2>3
<1>4. \A b \in ActionId : Open(b) /\ ~Told(b) /\ ~Back(b)
  <2>1. \A b \in ActionId : Open(b)
    BY <1>3, ActionFacts DEF Open
  <2>2. \A b \in ActionId : ~Told(b)
    BY <1>1, <2>1, ToldFacts
  <2>3. \A b \in ActionId : ~Back(b)
    BY <1>2, ActionFacts DEF Back, Has
  <2> QED
    BY <2>1, <2>2, <2>3
<1>5. BackInv
  BY <1>2, <1>4 DEF BackInv, Once
<1>6. RunInv /\ NewRunIsClean
  BY <1>2 DEF RunInv, NewRunIsClean
<1> QED
  BY <1>1, <1>5, <1>6

\* The invariant of the way back.
LEMMA SecuredAlways == Spec => []SecuredInv
<1>1. Init => SecuredInv
  BY SecuredStart
<1>2. SecuredInv /\ [Next]_vars => SecuredInv'
  BY SecuredStep
<1> QED
  BY <1>1, <1>2, PTL DEF Spec

\* An action in a committed queue is there once, owns its key, and its transaction
\* ended: trx_rel_locks() is never called too early or twice (worker.cpp:139-172,
\* rvp.cpp:330-360).
THEOREM KeysComeBackOnce == Spec => [](Secured => ComesBackOnce)
<1>1. FlowInv /\ BackInv => ComesBackOnce
  <2> SUFFICES ASSUME FlowInv, BackInv, NEW p \in Partition, NEW i \in DOMAIN commitq[p],
                      NEW a, a = commitq[p][i]
               PROVE  /\ Part(a) = p /\ Owns(a) /\ ~InHand(a)
                      /\ rvp[XctOf[a]].outcome # "none"
                      /\ \A j \in DOMAIN commitq[p] : commitq[p][j] = a => i = j
    BY DEF ComesBackOnce
  <2>1. commitq[p] \in Seq(ActionId) /\ Home(p, commitq[p]) /\ Once(commitq[p])
    BY DEF FlowInv, QueueTypes, QueueInv, BackInv
  <2>2. a \in ActionId /\ Part(a) = p
    BY <2>1, ElementOfSeq, LenProperties DEF Home
  <2>3. Back(a)
    BY <2>2 DEF Back, Has
  <2>4. Owns(a) /\ ~Open(a)
    BY <2>2, <2>3 DEF BackInv, FlowInv, PlaceInv
  <2>5. ~InHand(a)
    BY <2>2, <2>4 DEF FlowInv, PlaceInv
  <2> QED
    BY <2>1, <2>2, <2>4, <2>5 DEF Open, Once
<1>2. SecuredInv => (Secured => ComesBackOnce)
  BY <1>1 DEF SecuredInv
<1> QED
  BY <1>2, SecuredAlways, PTL

\* With the flusher, and clients that wait for all their transactions, no key is taken
\* from anybody between two runs, and a partition that was prepared stays untouched
\* (partition.h:437-480).
THEOREM NewRunsStartClean == Spec => [](Secured => NewRunIsClean)
<1>1. SecuredInv => (Secured => NewRunIsClean)
  BY DEF SecuredInv
<1> QED
  BY <1>1, SecuredAlways, PTL

-----------------------------------------------------------------------------
(***************************************************************************)
(* What a client sees: the facts about strict executions, for the flows.   *)
(***************************************************************************)
S == INSTANCE StrictExecutionProofs WITH
    Step      <- ActionId,
    Clash     <- FlowClash,
    Before    <- FlowBefore,
    doomed    <- {x \in Xct : Failed(x)},
    committed <- {x \in Xct : rvp[x].outcome = "committed"}

\* What StrictExecution assumes of steps and conflicts.
LEMMA StepConstants == S!StepAssumption
<1>1. XctOf \in [ActionId -> Xct]
  BY ActionFacts DEF XctOf
<1> QED
  BY <1>1 DEF S!StepAssumption, FlowClash, FlowBefore, Conflicts

\* The promise is the specification of strict executions.
LEMMA SamePromise == KeepsPromise => S!Spec
<1>1. Promise!Init => S!Init
  BY DEF Promise!Init, S!Init
<1>2. [Promise!Next]_(Promise!vars) => [S!Next]_(S!vars)
  BY DEF Promise!Next, S!Next, Promise!vars, S!vars, Promise!Run, S!Run, Promise!Commit,
         S!Commit, Promise!Abort, S!Abort, Promise!HasEnded, S!HasEnded
<1> QED
  BY <1>1, <1>2, PTL DEF KeepsPromise, Promise!Spec, S!Spec

\* The executions of DORA are serializable, in the order of the terminal rendezvous
\* points (rvp.cpp:237-320).
THEOREM FlowsAreSerializable == Spec /\ []Followed => []Promise!EndOrderSerializes
<1>1. Spec /\ []Followed => S!Spec
  BY DoraKeepsPromise, SamePromise, PTL
<1>2. S!Spec => []S!EndOrderSerializes
  BY StepConstants, S!Serializable
<1>3. S!EndOrderSerializes => Promise!EndOrderSerializes
  BY DEF S!EndOrderSerializes, Promise!EndOrderSerializes
<1> QED
  BY <1>1, <1>2, <1>3, PTL

\* A transaction commits only when every action of every phase ran, and none failed
\* (rvp.cpp:96-140, 237-320).
THEOREM FlowsAreAtomic == Spec /\ []Followed => []Promise!AllOrNothing
<1>1. Spec /\ []Followed => S!Spec
  BY DoraKeepsPromise, SamePromise, PTL
<1>2. S!Spec => []S!AllOrNothing
  BY StepConstants, S!Atomic
<1>3. S!AllOrNothing => Promise!AllOrNothing
  BY DEF S!AllOrNothing, Promise!AllOrNothing
<1> QED
  BY <1>1, <1>2, <1>3, PTL

-----------------------------------------------------------------------------
(***************************************************************************)
(* Every partition uses its lock manager as LockManager says.              *)
(***************************************************************************)
\* The state of the lock manager of a partition, read off the flows.
Cycle(a) == IF ~Sent(a) \/ Queued(a) THEN "new"
            ELSE IF Waits(a) THEN "waiting"
            ELSE IF Owns(a) THEN "ready" ELSE "released"

NeededIn(p) == [a \in PartActions[p] |-> IF Waits(a) THEN 1 ELSE 0]
CyclesIn(p) == [a \in PartActions[p] |-> Cycle(a)]
TidsIn(p)   == [a \in PartActions[p] |-> XctOf[a]]
KeysIn(p)   == [a \in PartActions[p] |-> {KeyOf(a)}]

LMVars(p) == <<locks[p], NeededIn(p), CyclesIn(p)>>

Goes(p) == LM(p)!Next \/ LMVars(p)' = LMVars(p)

\* The lock manager of a partition knows the actions and requests of the flows.
LEMMA PartFacts ==
    ASSUME NEW p \in Partition
    PROVE  /\ \A a : a \in PartActions[p] <=> a \in ActionId /\ Part(a) = p
           /\ \A a \in PartActions[p] : LM(p)!Req(a) = Req(a)
           /\ \A ll, r : /\ LM(p)!Acquire(ll, r) = Acquire(ll, r)
                         /\ LM(p)!NewLock(r) = NewLock(r)
                         /\ LM(p)!MustWait(ll, r) <=> MustWait(ll, r)
                         /\ LM(p)!CanAcquire(ll, r) <=> CanAcquire(ll, r)
           /\ \A ll, t : /\ LM(p)!Release(ll, t) = Release(ll, t)
                         /\ LM(p)!CanRelease(ll, t) <=> CanRelease(ll, t)
           /\ \A T : LM(p)!Cardinality(T) = Cardinality(T)
<1>1. \A a : a \in PartActions[p] <=> a \in ActionId /\ Part(a) = p
  BY DEF PartActions
<1>2. ASSUME NEW a \in PartActions[p] PROVE LM(p)!Req(a) = Req(a)
  <2>1. a \in ActionId /\ Datum(a).dlm \in {SHARED, EXCL}
    BY <1>1, ActionFacts
  <2> QED
    BY <2>1 DEF LM!Req, Req, LM!SHARED, LM!EXCL, SHARED, EXCL
<1>3. \A ll, t : LM(p)!OwnedBy(ll, t) = OwnedBy(ll, t)
  BY DEF LM!OwnedBy, OwnedBy
<1>4. \A ll, r : /\ LM(p)!NewLock(r) = NewLock(r)
                 /\ LM(p)!CanAcquire(ll, r) <=> CanAcquire(ll, r)
                 /\ LM(p)!CanRelease(ll, r) <=> CanRelease(ll, r)
  BY <1>3 DEF LM!NewLock, NewLock, LM!CanAcquire, CanAcquire, LM!CanRelease, CanRelease,
              LM!NOLOCK, NOLOCK
<1>5. \A m, n : LM(p)!Compatible(m, n) <=> Compatible(m, n)
  BY DEF LM!Compatible, Compatible, LM!NOLOCK, NOLOCK, LM!SHARED, SHARED
<1>6. \A ll, r : LM(p)!MustWait(ll, r) <=> MustWait(ll, r)
  BY <1>3, <1>5 DEF LM!MustWait, MustWait
<1>7. \A ll, r : LM(p)!Acquire(ll, r) = Acquire(ll, r)
  BY <1>3, <1>6 DEF LM!Acquire, Acquire, LM!NOLOCK, NOLOCK
<1>8. \A o : LM(p)!Watermark(o) = Watermark(o)
  BY DEF LM!Watermark, Watermark, LM!NOLOCK, NOLOCK
<1>9. \A ll, n : LM(p)!DlmAfter(ll, n) = DlmAfter(ll, n)
  BY <1>8 DEF LM!DlmAfter, DlmAfter
<1>10. \A ll : LM(p)!PromotedCount(ll) = PromotedCount(ll)
  BY <1>5, <1>9 DEF LM!PromotedCount, PromotedCount
<1>11. \A ll : LM(p)!Promote(ll) = Promote(ll)
  BY <1>9, <1>10 DEF LM!Promote, Promote
<1>12. \A ll, t : LM(p)!EraseOwner(ll, t) = EraseOwner(ll, t)
  BY <1>3 DEF LM!EraseOwner, EraseOwner
<1>13. \A ll, t : LM(p)!Release(ll, t) = Release(ll, t)
  BY <1>3, <1>8, <1>11, <1>12 DEF LM!Release, Release
<1>14. \A T : LM(p)!Cardinality(T) = Cardinality(T)
  BY DEF LM!Cardinality, Cardinality
<1> QED
  BY <1>1, <1>2, <1>4, <1>6, <1>7, <1>13, <1>14

\* Nothing changes for the lock manager of a partition.
LEMMA PartSame ==
    ASSUME NEW p \in Partition, locks'[p] = locks[p],
           \A a \in ActionId : Part(a) = p =>
               /\ Waits(a)' <=> Waits(a)
               /\ Owns(a)' <=> Owns(a)
               /\ Sent(a)' /\ ~Queued(a)' <=> Sent(a) /\ ~Queued(a)
    PROVE  LMVars(p)' = LMVars(p)
<1>1. \A a \in PartActions[p] : Cycle(a)' = Cycle(a) /\ (Waits(a)' <=> Waits(a))
  BY PartFacts DEF Cycle
<1> QED
  BY <1>1 DEF LMVars, NeededIn, CyclesIn

\* At the start no action was sent.
LEMMA NothingSent ==
    ASSUME Init, NEW b \in ActionId
    PROVE  ~Sent(b) /\ ~Queued(b) /\ ~Waits(b) /\ ~Owns(b)
<1>1. rvp = [x \in Xct |-> [phase |-> 1, sent |-> 0, left |-> Len(Flow[x][1]),
                            aborted |-> FALSE, outcome |-> "none", told |-> 0]]
  BY DEF Init
<1>2. PICK x, m, j, n : x = XctOf[b] /\ m = b[2] /\ j = b[3] /\ n = Len(Flow[x][1])
  OBVIOUS
<1>3. x \in Xct /\ m \in DOMAIN Flow[x] /\ j \in DOMAIN Flow[x][m]
  BY <1>2, ActionFacts
<1>4. m \in Nat /\ m > 0 /\ j \in 1 .. Len(Flow[x][m]) /\ Len(Flow[x][m]) \in Nat
  BY <1>3, PhaseFacts
<1>5. rvp[x].phase = 1 /\ rvp[x].sent = 0
  <2>1. PICK r : r = rvp[x]
    OBVIOUS
  <2>2. r = [phase |-> 1, sent |-> 0, left |-> n, aborted |-> FALSE, outcome |-> "none", told |-> 0]
    BY <1>1, <1>2, <1>3, <2>1
  <2>3. r.phase = 1 /\ r.sent = 0
    BY <2>2
  <2> QED
    BY <2>1, <2>3
<1>6. ~Sent(b)
  BY <1>2, <1>4, <1>5 DEF Sent
<1> QED
  BY <1>6, FlowStart DEF FlowInv, PlaceInv

\* At the start no partition has seen a key.
LEMMA PartStart ==
    ASSUME Init, NEW p \in Partition
    PROVE  LM(p)!Init
<1>1. \A a \in PartActions[p] : ~Sent(a) /\ ~Queued(a) /\ ~Waits(a) /\ ~Owns(a)
  BY PartFacts, NothingSent
<1>2. DOMAIN locks[p] = {} /\ locks[p] = [k \in DOMAIN locks[p] |-> locks[p][k]]
  BY DEF Init
<1>3. locks[p] = [k \in {} |-> LM(p)!NewLock(LM(p)!Req(CHOOSE a \in PartActions[p] : TRUE))]
  BY <1>2
<1> QED
  BY <1>1, <1>3 DEF LM!Init

\* Dequeue: the action asks for its key.
LEMMA PartAcquires ==
    ASSUME FlowInv, NEW p \in Partition, Dequeue(p)
    PROVE  Goes(p)
<1>1. PICK a, k : a = Head(inq[p]) /\ k = KeyOf(a)
  OBVIOUS
<1>2. PICK ll, t, waits : /\ t = locks[p] /\ waits \in BOOLEAN /\ (waits <=> HasToWait(a))
                          /\ ll = IF k \in DOMAIN t THEN Acquire(t[k], Req(a)) ELSE NewLock(Req(a))
  OBVIOUS
<1>3. /\ a \in ActionId /\ Part(a) = p /\ Queued(a) /\ Asked(a, waits)
      /\ (waits <=> k \in DOMAIN t /\ MustWait(t[k], Req(a)))
  <2>1. a \in ActionId /\ Part(a) = p /\ Queued(a) /\ Asked(a, HasToWait(a))
    BY <1>1, DequeueKeeps
  <2> QED
    BY <1>1, <1>2, <2>1 DEF HasToWait, Asked
<1>4. /\ k \in DOMAIN t => CanAcquire(t[k], Req(a))
      /\ locks' = [locks EXCEPT ![p] =
            [l \in DOMAIN @ \cup {k} |-> IF l = k THEN ll ELSE @[l]]]
      /\ rvp' = rvp
  BY <1>1, <1>2 DEF Dequeue
<1>5. locks'[p] = [l \in DOMAIN t \cup {k} |-> IF l = k THEN ll ELSE t[l]]
  BY <1>2, <1>4 DEF FlowInv, LocksInv
<1>6. a \in PartActions[p] /\ LM(p)!Req(a) = Req(a)
  BY <1>3, PartFacts
<1>7. LM(p)!Refused(a) = {l \in {k} \cap DOMAIN t : MustWait(t[l], Req(a))}
  BY <1>1, <1>2, <1>6, PartFacts DEF LM!Refused, LM!Known
<1>8. /\ LM(p)!Refused(a) = IF waits THEN {k} ELSE {}
      /\ Cardinality(LM(p)!Refused(a)) = IF waits THEN 1 ELSE 0
  <2>1. LM(p)!Refused(a) = IF waits THEN {k} ELSE {}
    BY <1>3, <1>7
  <2>2. Cardinality({k}) = 1 /\ Cardinality({}) = 0
    BY FS_Singleton, FS_EmptySet
  <2> QED
    BY <1>2, <2>1, <2>2
<1>9. ASSUME NEW b \in PartActions[p]
       PROVE  /\ Waits(b)' <=> IF b = a THEN waits ELSE Waits(b)
              /\ Cycle(b)' = IF b = a THEN (IF waits THEN "waiting" ELSE "ready") ELSE Cycle(b)
  <2>1. b \in ActionId
    BY PartFacts
  <2>2. /\ Queued(b)' <=> Queued(b) /\ b # a
        /\ Waits(b)' <=> Waits(b) \/ (b = a /\ waits)
        /\ Owns(b)' <=> Owns(b) \/ (b = a /\ ~waits)
        /\ Sent(b)' <=> Sent(b)
    BY <1>3, <1>4, <2>1, Unmoved DEF Asked
  <2>3. Sent(a) /\ ~Waits(a) /\ ~Owns(a)
    BY <1>3 DEF FlowInv, PlaceInv
  <2>4. CASE b = a
    BY <1>2, <2>2, <2>3, <2>4 DEF Cycle
  <2>5. CASE b # a
    BY <2>2, <2>5 DEF Cycle
  <2> QED
    BY <2>4, <2>5
<1>10. Cycle(a) = "new"
  BY <1>3 DEF Cycle
<1>11. LM(p)!AcquireAll(a)
  <2>1. PICK N, P, N2, P2 : /\ N = [b \in PartActions[p] |-> IF Waits(b) THEN 1 ELSE 0]
                            /\ P = [b \in PartActions[p] |-> Cycle(b)]
                            /\ N2 = [b \in PartActions[p] |-> IF Waits(b)' THEN 1 ELSE 0]
                            /\ P2 = [b \in PartActions[p] |-> Cycle(b)']
    OBVIOUS
  <2>2. P[a] = "new"
    BY <1>6, <1>10, <2>1
  <2>3. N2 = [N EXCEPT ![a] = IF waits THEN 1 ELSE 0]
    BY <1>6, <1>9, <2>1
  <2>4. P2 = [P EXCEPT ![a] = IF waits THEN "waiting" ELSE "ready"]
    BY <1>6, <1>9, <2>1
  <2>5. \A l \in {k} \cap DOMAIN t : LM(p)!CanAcquire(t[l], LM(p)!Req(a))
    BY <1>4, <1>6, PartFacts
  <2>6. locks'[p] = [l \in DOMAIN t \cup {k} |->
                        IF l \notin {k} THEN t[l]
                        ELSE IF l \in DOMAIN t THEN LM(p)!Acquire(t[l], LM(p)!Req(a))
                        ELSE LM(p)!NewLock(LM(p)!Req(a))]
    <3>1. LM(p)!NewLock(Req(a)) = NewLock(Req(a))
          /\ \A l \in DOMAIN t : LM(p)!Acquire(t[l], Req(a)) = Acquire(t[l], Req(a))
      BY PartFacts
    <3> QED
      BY <1>2, <1>5, <1>6, <3>1
  <2>7. [b \in PartActions[p] |-> {KeyOf(b)}][a] = {k}
    BY <1>1, <1>6
  <2>8. LM(p)!Cardinality(LM(p)!Refused(a)) = (IF waits THEN 1 ELSE 0) /\ (LM(p)!Refused(a) = {} <=> ~waits)
    BY <1>8, PartFacts
  <2> QED
    BY <1>2, <2>1, <2>2, <2>3, <2>4, <2>5, <2>6, <2>7, <2>8 DEF LM!AcquireAll, LM!Known, Cycle
<1> QED
  BY <1>6, <1>11 DEF Goes, LM!Next

\* An action waits for its own key only.
LEMMA WaitsForOne ==
    ASSUME FlowInv, NEW p \in Partition, NEW b \in PartActions[p]
    PROVE  \A k \in DOMAIN locks[p] : LM(p)!WaitsFor(b, k) <=> Waits(b) /\ k = KeyOf(b)
<1>1. Part(b) = p
  BY PartFacts
<1>2. ASSUME NEW k \in DOMAIN locks[p] PROVE LM(p)!WaitsFor(b, k) <=> Waits(b) /\ k = KeyOf(b)
  <2>1. LockInv(p, k, locks[p][k])
    BY DEF FlowInv, LocksInv
  <2>2. Occurs(b, locks[p][k].waiters) => k = KeyOf(b)
    BY <2>1, LockFacts
  <2>3. LM(p)!WaitsFor(b, k) <=> Occurs(b, locks[p][k].waiters)
    BY DEF LM!WaitsFor, Occurs
  <2> QED
    BY <1>1, <2>2, <2>3 DEF Waits
<1> QED
  BY <1>2

\* ReleaseCommitted: the action gives its key back.
LEMMA PartReleases ==
    ASSUME FlowInv, BackInv, NEW p \in Partition, ReleaseCommitted(p)
    PROVE  Goes(p)
<1>1. PICK a, k, t, ll : /\ a = Head(commitq[p]) /\ k = KeyOf(a) /\ t = locks[p]
                         /\ ll = Release(t[k], XctOf[a])
  BY Zenon
<1>2. /\ locks' = [locks EXCEPT ![p][k] = ll] /\ CanRelease(t[k], XctOf[a])
      /\ UNCHANGED <<rvp, inq>> /\ commitq[p] # <<>>
  BY <1>1, Zenon DEF ReleaseCommitted
<1>3. a \in ActionId /\ Part(a) = p /\ Back(a)
  <2>1. commitq[p] \in Seq(ActionId) /\ Home(p, commitq[p])
    BY DEF FlowInv, QueueTypes, QueueInv
  <2> QED
    BY <1>1, <1>2, <2>1, Popped DEF Back
<1>4. Freed(a)
  BY <1>1, ReleaseCommittedKeeps
<1>5. /\ Sent(a) /\ ~Open(a) /\ ~Queued(a) /\ ~Waits(a) /\ Known(a) /\ Owns(a)
  BY <1>3 DEF FlowInv, PlaceInv, BackInv
<1>6. k \in DOMAIN t /\ a \in PartActions[p] /\ Cycle(a) = "ready"
  BY <1>1, <1>3, <1>5, PartFacts DEF Known, Cycle
<1>7. PICK after : after = [l \in DOMAIN t |-> IF l \in {k} THEN ll ELSE t[l]]
  OBVIOUS
<1>8. locks'[p] = after
  <2>1. DOMAIN locks = Partition /\ t = [l \in DOMAIN t |-> t[l]]
    BY <1>1 DEF FlowInv, LocksInv
  <2>2. locks'[p] = [t EXCEPT ![k] = ll]
    BY <1>1, <1>2, <2>1
  <2> QED
    BY <1>6, <1>7, <2>1, <2>2
<1>9. ASSUME NEW b \in PartActions[p], XctOf[b] = XctOf[a]
      PROVE  Cycle(b) \in {"ready", "released"}
  <2>1. b \in ActionId /\ Part(b) = p
    BY PartFacts
  <2>2. b[2] = a[2]
    BY <1>3, <1>9, <2>1, OneActionPerKey
  <2>3. a[2] <= rvp[XctOf[a]].phase
    <3>1. a[2] \in Nat /\ rvp[XctOf[a]].phase \in Nat
      BY <1>3, ActionFacts, RvpFacts
    <3> QED
      BY <1>5, <3>1 DEF Sent
  <2>4. ~Open(b) /\ b[2] <= rvp[XctOf[b]].phase
    BY <1>5, <1>9, <2>2, <2>3 DEF Open
  <2>5. Sent(b) /\ ~Queued(b) /\ ~Waits(b)
    BY <2>1, <2>4, EndedSent
  <2> QED
    BY <2>5 DEF Cycle
<1>10. ASSUME NEW b \in PartActions[p]
       PROVE  LM(p)!PromotedOn(b, after) = IF Waits(b) /\ ~Waits(b)' THEN {KeyOf(b)} ELSE {}
  <2>1. b \in ActionId /\ Part(b) = p
    BY PartFacts
  <2>2. Waits(b) => KeyOf(b) \in DOMAIN t
    BY <1>1, <2>1 DEF Waits
  <2>3. DOMAIN after = DOMAIN t
    BY <1>7
  <2>4. Waits(b)' <=> KeyOf(b) \in DOMAIN t /\ Occurs(b, after[KeyOf(b)].waiters)
    BY <1>8, <2>1, <2>3 DEF Waits
  <2>5. \A l \in DOMAIN t : LM(p)!WaitsFor(b, l) <=> Waits(b) /\ l = KeyOf(b)
    BY <1>1, WaitsForOne
  <2>6. LM(p)!PromotedOn(b, after) =
            {l \in DOMAIN t : Waits(b) /\ l = KeyOf(b) /\ ~Occurs(b, after[l].waiters)}
    BY <1>1, <2>5 DEF LM!PromotedOn, LM!Known, Occurs
  <2>7. PICK A, B \in BOOLEAN : (A <=> Waits(b)) /\ (B <=> Waits(b)')
    OBVIOUS
  <2>8. LM(p)!PromotedOn(b, after) = {l \in DOMAIN t : A /\ ~B /\ l = KeyOf(b)}
    BY <2>4, <2>6, <2>7
  <2>9. LM(p)!PromotedOn(b, after) = IF A /\ ~B THEN {KeyOf(b)} ELSE {}
    BY <2>2, <2>7, <2>8
  <2> QED
    BY <2>7, <2>9
<1>11. ASSUME NEW b \in PartActions[p]
       PROVE  /\ LM(p)!PromotedOn(b, after) = {} <=> ~(Waits(b) /\ ~Waits(b)')
              /\ LM(p)!Cardinality(LM(p)!PromotedOn(b, after)) =
                     IF Waits(b) /\ ~Waits(b)' THEN 1 ELSE 0
  <2>1. LM(p)!Cardinality(LM(p)!PromotedOn(b, after)) = Cardinality(LM(p)!PromotedOn(b, after))
    BY PartFacts
  <2>2. Cardinality({KeyOf(b)}) = 1 /\ Cardinality({}) = 0
    BY FS_Singleton, FS_EmptySet
  <2>3. CASE Waits(b) /\ ~Waits(b)'
    BY <1>10, <2>1, <2>2, <2>3
  <2>4. CASE ~(Waits(b) /\ ~Waits(b)')
    BY <1>10, <2>1, <2>2, <2>4
  <2> QED
    BY <2>3, <2>4
<1>12. ASSUME NEW b \in PartActions[p]
       PROVE  /\ Waits(b)' => Waits(b)
              /\ Cycle(b)' = IF b = a THEN "released"
                             ELSE IF Waits(b) /\ ~Waits(b)' THEN "ready" ELSE Cycle(b)
  <2>1. b \in ActionId
    BY PartFacts
  <2>2. /\ Queued(b)' <=> Queued(b)
        /\ Waits(b)' => Waits(b)
        /\ Owns(b)' <=> (Owns(b) /\ b # a) \/ (Waits(b) /\ ~Waits(b)')
        /\ Sent(b)' <=> Sent(b)
    BY <1>2, <1>4, <2>1, Unmoved DEF Freed
  <2>3. Waits(b) => Sent(b) /\ ~Queued(b)
    BY <2>1 DEF FlowInv, PlaceInv
  <2>4. CASE b = a
    BY <1>5, <2>2, <2>4 DEF Cycle
  <2>5. CASE b # a
    BY <2>2, <2>3, <2>5 DEF Cycle
  <2> QED
    BY <2>2, <2>4, <2>5
<1>13. LM(p)!ReleaseAll(a)
  <2>1. PICK N, P, T, K, N2, P2 : /\ N = NeededIn(p) /\ P = CyclesIn(p)
                                  /\ T = TidsIn(p) /\ K = KeysIn(p)
                                  /\ N2 = NeededIn(p)' /\ P2 = CyclesIn(p)'
    OBVIOUS
  <2>2. /\ N = [b \in PartActions[p] |-> IF Waits(b) THEN 1 ELSE 0]
        /\ P = [b \in PartActions[p] |-> Cycle(b)]
        /\ N2 = [b \in PartActions[p] |-> IF Waits(b)' THEN 1 ELSE 0]
        /\ P2 = [b \in PartActions[p] |-> Cycle(b)']
    BY <2>1 DEF NeededIn, CyclesIn
  <2>3. P[a] = "ready" /\ K[a] = {k} /\ \A b \in PartActions[p] : T[b] = XctOf[b]
    BY <1>1, <1>6, <2>1, <2>2 DEF TidsIn, KeysIn
  <2>4. \A b \in PartActions[p] : T[b] = T[a] => P[b] \in {"ready", "released"}
    BY <1>6, <1>9, <2>2, <2>3
  <2>5. \A l \in K[a] : LM(p)!CanRelease(t[l], T[a])
    BY <1>2, <1>6, <2>3, PartFacts
  <2>6. after = [l \in DOMAIN locks[p] |->
                    IF l \in KeysIn(p)[a] THEN LM(p)!Release(locks[p][l], TidsIn(p)[a])
                    ELSE locks[p][l]]
    BY <1>1, <1>6, <1>7, <2>1, <2>3, PartFacts
  <2>7. NeededIn(p)' = [b \in PartActions[p] |->
            NeededIn(p)[b] - LM(p)!Cardinality(LM(p)!PromotedOn(b, after))]
    <3>1. ASSUME NEW b \in PartActions[p]
          PROVE  N2[b] = N[b] - LM(p)!Cardinality(LM(p)!PromotedOn(b, after))
      BY <1>11, <1>12, <2>2
    <3> QED
      BY <2>1, <2>2, <3>1
  <2>8. CyclesIn(p)' = [b \in PartActions[p] |->
            IF b = a THEN "released"
            ELSE IF /\ LM(p)!PromotedOn(b, after) # {}
                    /\ NeededIn(p)[b] = LM(p)!Cardinality(LM(p)!PromotedOn(b, after))
            THEN "ready" ELSE CyclesIn(p)[b]]
    <3>1. ASSUME NEW b \in PartActions[p]
          PROVE  P2[b] = IF b = a THEN "released"
                         ELSE IF /\ LM(p)!PromotedOn(b, after) # {}
                                 /\ N[b] = LM(p)!Cardinality(LM(p)!PromotedOn(b, after))
                         THEN "ready" ELSE P[b]
      <4>1. N[b] = (IF Waits(b) THEN 1 ELSE 0) /\ P[b] = Cycle(b) /\ P2[b] = Cycle(b)'
        BY <2>2
      <4> QED
        BY <1>11, <1>12, <4>1
    <3> QED
      BY <2>1, <2>2, <3>1
  <2>9. \E free \in {[l \in DOMAIN locks[p] |->
                         IF l \in KeysIn(p)[a] THEN LM(p)!Release(locks[p][l], TidsIn(p)[a])
                         ELSE locks[p][l]]} :
            /\ locks'[p] = free
            /\ NeededIn(p)' = [b \in PartActions[p] |->
                   NeededIn(p)[b] - LM(p)!Cardinality(LM(p)!PromotedOn(b, free))]
            /\ CyclesIn(p)' = [b \in PartActions[p] |->
                   IF b = a THEN "released"
                   ELSE IF /\ LM(p)!PromotedOn(b, free) # {}
                           /\ NeededIn(p)[b] = LM(p)!Cardinality(LM(p)!PromotedOn(b, free))
                   THEN "ready" ELSE CyclesIn(p)[b]]
    BY <1>8, <2>6, <2>7, <2>8, Zenon
  <2>10. /\ CyclesIn(p)[a] = "ready"
         /\ \A b \in PartActions[p] : TidsIn(p)[b] = TidsIn(p)[a] =>
                                         CyclesIn(p)[b] \in {"ready", "released"}
         /\ \A l \in KeysIn(p)[a] : LM(p)!CanRelease(locks[p][l], TidsIn(p)[a])
    BY <1>1, <2>1, <2>3, <2>4, <2>5
  <2> QED
    BY <2>9, <2>10, Zenon
       DEF LM!ReleaseAll, LM!Known, NeededIn, CyclesIn, TidsIn, KeysIn, Cycle
<1> QED
  BY <1>6, <1>13 DEF Goes, LM!Next

\* Dispatching, serving, posting and sending back leave the lock managers alone.
LEMMA PartsRest ==
    ASSUME FlowInv, [Next]_vars, ~PrepareNewRun,
           \A q \in Partition : ~Dequeue(q) /\ ~ReleaseCommitted(q)
    PROVE  /\ locks' = locks
           /\ \A b \in ActionId : Sent(b)' /\ ~Queued(b)' <=> Sent(b) /\ ~Queued(b)
<1>1. ASSUME UNCHANGED <<rvp, inq, locks>>
      PROVE  /\ locks' = locks
             /\ \A b \in ActionId : Sent(b)' /\ ~Queued(b)' <=> Sent(b) /\ ~Queued(b)
  BY <1>1, Unmoved
<1>2. ASSUME NEW x \in Xct, Enqueue(x), locks' = locks
      PROVE  \A b \in ActionId : Sent(b)' /\ ~Queued(b)' <=> Sent(b) /\ ~Queued(b)
  <2>1. PICK a : a = NextOf(x)
    OBVIOUS
  <2>2. ~Sent(a) /\ \A b \in ActionId : /\ Sent(b)' <=> Sent(b) \/ b = a
                                        /\ Queued(b)' <=> Queued(b) \/ b = a
    BY <1>2, <2>1, Enqueued
  <2> QED
    BY <2>2
<1>3. ASSUME NEW x \in Xct, SendBack(x), rvp[x].outcome # "none",
             rvp[x].told < Len(ActionsUpTo[x][rvp[x].phase]), inq' = inq
      PROVE  \A b \in ActionId : Sent(b)' /\ ~Queued(b)' <=> Sent(b) /\ ~Queued(b)
  <2>1. PICK a : a = ToTell(x)
    OBVIOUS
  <2>2. \A b \in ActionId : Sent(b)' <=> Sent(b)
    BY <1>3, <2>1, SendsBack
  <2> QED
    BY <1>3, <2>2, Unmoved
<1>4. CASE UNCHANGED vars \/ Finished \/ LatePush
  <2>1. UNCHANGED <<rvp, inq, locks>>
    BY <1>4, OnlySpins
  <2> QED
    BY <1>1, <2>1
<1>5. ASSUME NEW x \in Xct, ClientDispatch(x)
      PROVE  /\ locks' = locks
             /\ \A b \in ActionId : Sent(b)' /\ ~Queued(b)' <=> Sent(b) /\ ~Queued(b)
  <2>1. Enqueue(x) /\ locks' = locks
    BY <1>5 DEF ClientDispatch
  <2> QED
    BY <1>2, <2>1
<1>6. ASSUME NEW p \in Partition, Execute(p) \/ EarlyAbort(p)
      PROVE  UNCHANGED <<rvp, inq, locks>>
  BY <1>6 DEF Execute, EarlyAbort
<1>7. ASSUME NEW p \in Partition, WorkerDispatch(p)
      PROVE  /\ locks' = locks
             /\ \A b \in ActionId : Sent(b)' /\ ~Queued(b)' <=> Sent(b) /\ ~Queued(b)
  <2>1. PICK x : x = Serving(p)
    OBVIOUS
  <2>2. Enqueue(x) /\ locks' = locks /\ worker[p].pc = "dispatch"
    BY <1>7, <2>1 DEF WorkerDispatch
  <2>3. x \in Xct
    BY <2>1, <2>2, WorkerFacts
  <2> QED
    BY <1>2, <2>2, <2>3
<1>8. ASSUME NEW p \in Partition, PostNotLast(p) \/ PostEnds(p)
      PROVE  /\ locks' = locks
             /\ \A b \in ActionId : Sent(b)' /\ ~Queued(b)' <=> Sent(b) /\ ~Queued(b)
  <2>1. PICK x, d : x = Serving(p) /\ d = Aborting(p)
    OBVIOUS
  <2>2. UNCHANGED <<inq, locks>> /\ rvp \in [Xct -> RvpType]
    BY <1>8 DEF PostNotLast, PostEnds, FlowInv, RvpTypes
  <2>3. \A y \in Xct : rvp'[y].phase = rvp[y].phase /\ rvp'[y].sent = rvp[y].sent
    <3>1. CASE PostNotLast(p)
      <4>1. PICK n : rvp' = [rvp EXCEPT ![x].left = n, ![x].aborted = d]
        BY <2>1, <3>1 DEF PostNotLast
      <4> QED
        BY <2>2, <4>1 DEF RvpType
    <3>2. CASE PostEnds(p)
      <4>1. PICK o : rvp' = [rvp EXCEPT ![x].left = 0, ![x].aborted = d, ![x].outcome = o]
        BY <2>1, <3>2 DEF PostEnds
      <4> QED
        BY <2>2, <4>1 DEF RvpType
    <3> QED
      BY <1>8, <3>1, <3>2
  <2>4. \A b \in ActionId : Sent(b)' <=> Sent(b)
    BY <2>3, ActionFacts DEF Sent
  <2> QED
    BY <2>2, <2>4, Unmoved
<1>9. ASSUME NEW p \in Partition, PostRunsMidway(p)
      PROVE  /\ locks' = locks
             /\ \A b \in ActionId : Sent(b)' /\ ~Queued(b)' <=> Sent(b) /\ ~Queued(b)
  <2>1. UNCHANGED <<inq, locks>>
    BY <1>9 DEF PostRunsMidway
  <2>2. \A b \in ActionId : Sent(b)' <=> Sent(b)
    BY <1>9, PostRunsMidwayKeeps
  <2> QED
    BY <2>1, <2>2, Unmoved
<1>10. ASSUME NEW p \in Partition, WorkerNotify(p)
       PROVE  /\ locks' = locks
              /\ \A b \in ActionId : Sent(b)' /\ ~Queued(b)' <=> Sent(b) /\ ~Queued(b)
  <2>1. PICK x : x = Serving(p)
    OBVIOUS
  <2>2. worker[p].pc = "notify" /\ SendBack(x) /\ UNCHANGED <<inq, locks>>
    BY <1>10, <2>1 DEF WorkerNotify
  <2>3. /\ x \in Xct /\ rvp[x].outcome # "none"
        /\ rvp[x].told < Len(ActionsUpTo[x][rvp[x].phase])
    BY <2>1, <2>2, WorkerFacts DEF FlowInv, DriverInv, DriverOK
  <2> QED
    BY <1>3, <2>2, <2>3
<1>11. CASE NotifierNotify
  <2>1. PICK x \in notifier : SendBack(x) /\ UNCHANGED <<inq, locks>>
    BY <1>11 DEF NotifierNotify
  <2>2. /\ x \in Xct /\ rvp[x].outcome # "none"
        /\ rvp[x].told < Len(ActionsUpTo[x][rvp[x].phase])
    BY DEF FlowInv, DriverInv, OtherTypes
  <2> QED
    BY <1>3, <2>1, <2>2
<1> QED
  BY <1>1, <1>4, <1>5, <1>6, <1>7, <1>8, <1>9, <1>10, <1>11 DEF Next, Work

\* A key nobody has or wants is clean.
LEMMA FreeIsClean ==
    ASSUME NEW p, NEW k, NEW ll, LockInv(p, k, ll),
           \A b : ~Occurs(b, ll.owners) /\ ~Occurs(b, ll.waiters)
    PROVE  Clean(ll)
<1>1. PICK R, o, w : R = LockReq(ActionId, Xct) /\ o = ll.owners /\ w = ll.waiters
  OBVIOUS
<1>2. o \in Seq(R) /\ w \in Seq(R)
  BY <1>1, LockFacts DEF Lock
<1>3. DOMAIN o = {} /\ DOMAIN w = {}
  BY <1>1 DEF Occurs
<1>4. o = <<>> /\ w = <<>>
  <2>1. \A s \in Seq(R) : DOMAIN s = {} => s = <<>>
    <3>1. ASSUME NEW s \in Seq(R), DOMAIN s = {} PROVE s = <<>>
      <4>1. DOMAIN s = 1 .. Len(s) /\ Len(s) \in Nat
        BY LenProperties
      <4>2. Len(s) = 0
        <5>1. Len(s) > 0 => 1 \in 1 .. Len(s)
          BY <4>1
        <5> QED
          BY <3>1, <4>1, <5>1
      <4> QED
        BY <4>2, EmptySeq
    <3> QED
      BY <3>1
  <2> QED
    BY <1>2, <1>3, <2>1
<1>5. ll.dlm = NOLOCK
  BY <1>1, <1>4 DEF LockInv, L!LockOK, L!NOLOCK, NOLOCK
<1> QED
  BY <1>1, <1>4, <1>5 DEF Clean

\* When the run is over and all keys came back, preparing changes no lock.
LEMMA PrepareFindsClean ==
    ASSUME FlowInv, BackInv, PrepareNewRun, Secured'
    PROVE  UNCHANGED <<rvp, inq>> /\ \A q \in Partition : locks'[q] = locks[q]
<1>1. PICK p : p = CHOOSE q \in Partition \ prepared : TRUE
  OBVIOUS
<1>2. /\ RunOver /\ prepared # Partition /\ Sleeping(p)
      /\ locks' = [locks EXCEPT ![p] =
            [k \in DOMAIN @ |-> IF Clean(@[k]) THEN @[k] ELSE AbortAndReset]]
      /\ prepared' = prepared \cup {p} /\ UNCHANGED <<rvp, inq, submitted>>
  BY <1>1 DEF PrepareNewRun, ToPrepare
<1>3. p \in Partition /\ prepared' # {}
  BY <1>1, <1>2 DEF FlowInv, OtherTypes
<1>4. Flusher /\ submitted \subseteq Waited
  BY <1>2, <1>3 DEF Secured
<1>5. \A x \in submitted : Heard(x)
  BY <1>2, <1>4 DEF RunOver
<1>6. \A b \in ActionId : Part(b) = p => ~Owns(b)
  BY <1>2, <1>3, <1>4, <1>5, NothingOwned DEF Sleeping, Idle
<1>7. DOMAIN locks = Partition
  BY DEF FlowInv, LocksInv
<1>8. PICK t, t2 : t = locks[p] /\ t2 = locks'[p]
  OBVIOUS
<1>9. ASSUME NEW k \in DOMAIN t PROVE Clean(t[k])
  <2>1. LockInv(p, k, t[k])
    BY <1>3, <1>8, <1>9 DEF FlowInv, LocksInv
  <2>2. ASSUME NEW b PROVE ~Occurs(b, t[k].owners) /\ ~Occurs(b, t[k].waiters)
    <3>1. Occurs(b, t[k].owners) \/ Occurs(b, t[k].waiters) =>
             b \in ActionId /\ Part(b) = p /\ KeyOf(b) = k
      BY <2>1, LockFacts
    <3>2. Occurs(b, t[k].owners) => Owns(b)
      BY <1>8, <3>1 DEF Owns
    <3>3. Occurs(b, t[k].waiters) => Waits(b)
      BY <1>8, <3>1 DEF Waits
    <3>4. b \in ActionId => ~Waits(b)
      BY <1>4, <1>5, HeardFacts
    <3> QED
      BY <1>6, <3>1, <3>2, <3>3, <3>4
  <2> QED
    BY <2>1, <2>2, FreeIsClean
<1>10. t2 = [k \in DOMAIN t |-> IF Clean(t[k]) THEN t[k] ELSE AbortAndReset]
  BY <1>2, <1>3, <1>7, <1>8
<1>11. t = [k \in DOMAIN t |-> t[k]]
  BY <1>3, <1>8 DEF FlowInv, LocksInv
<1>12. t2 = t
  BY <1>9, <1>10, <1>11
<1> QED
  BY <1>2, <1>7, <1>8, <1>12

\* In every step, the lock manager of every partition takes a step or rests.
LEMMA PartsGo ==
    ASSUME FlowInv, BackInv, [Next]_vars, Secured', NEW p \in Partition
    PROVE  [LM(p)!Next]_(LM(p)!vars)
<1>1. ASSUME locks'[p] = locks[p],
             \A b \in ActionId : Part(b) = p =>
                 (Sent(b)' /\ ~Queued(b)' <=> Sent(b) /\ ~Queued(b))
      PROVE  Goes(p)
  <2>1. \A b \in ActionId : Part(b) = p => (Waits(b)' <=> Waits(b)) /\ (Owns(b)' <=> Owns(b))
    BY <1>1 DEF Waits, Owns
  <2> QED
    BY <1>1, <2>1, PartSame DEF Goes
<1>2. Goes(p)
  <2>1. CASE PrepareNewRun
    <3>1. UNCHANGED <<rvp, inq>> /\ locks'[p] = locks[p]
      BY <2>1, PrepareFindsClean
    <3> QED
      BY <1>1, <3>1, Unmoved
  <2>2. ASSUME NEW q \in Partition, Dequeue(q) PROVE Goes(p)
    <3>1. CASE q = p
      BY <2>2, <3>1, PartAcquires
    <3>2. CASE q # p
      <4>1. PICK tt, a : /\ locks' = [locks EXCEPT ![q] = tt] /\ rvp' = rvp
                         /\ a = Head(inq[q])
        BY <2>2 DEF Dequeue
      <4>2. locks'[p] = locks[p]
        BY <3>2, <4>1 DEF FlowInv, LocksInv
      <4>3. Part(a) = q /\ \A b \in ActionId : Queued(b)' <=> Queued(b) /\ b # a
        BY <2>2, <4>1, DequeueKeeps DEF Asked
      <4> QED
        BY <1>1, <3>2, <4>1, <4>2, <4>3, Unmoved
    <3> QED
      BY <3>1, <3>2
  <2>3. ASSUME NEW q \in Partition, ReleaseCommitted(q) PROVE Goes(p)
    <3>1. CASE q = p
      BY <2>3, <3>1, PartReleases
    <3>2. CASE q # p
      <4>1. PICK k, after : locks' = [locks EXCEPT ![q][k] = after] /\ UNCHANGED <<rvp, inq>>
        BY <2>3, Zenon DEF ReleaseCommitted
      <4>2. locks'[p] = locks[p]
        BY <3>2, <4>1 DEF FlowInv, LocksInv
      <4> QED
        BY <1>1, <4>1, <4>2, Unmoved, Zenon
    <3> QED
      BY <3>1, <3>2
  <2>4. CASE ~PrepareNewRun /\ \A q \in Partition : ~Dequeue(q) /\ ~ReleaseCommitted(q)
    BY <1>1, <2>4, PartsRest
  <2> QED
    BY <2>1, <2>2, <2>3, <2>4
<1>3. LM(p)!vars' = LM(p)!vars <=> LMVars(p)' = LMVars(p)
  BY DEF LM!vars, LMVars, NeededIn, CyclesIn, Cycle
<1> QED
  BY <1>2, <1>3 DEF Goes

\* Every partition asks its lock manager once per action, and gives keys back only
\* when all actions of the transaction in the partition had theirs: so what is proved
\* of LockManager holds in every partition of a running system (partition.h:325-345,
\* worker.cpp:139-190).
THEOREM PartitionsUseLockManager == Spec /\ []Secured => UsesLockManager
<1>1. Init => \A p \in Partition : LM(p)!Init
  BY PartStart
<1>2. SecuredInv /\ Secured /\ Secured' /\ [Next]_vars =>
         [\A p \in Partition : [LM(p)!Next]_(LM(p)!vars)]_vars
  BY PartsGo DEF SecuredInv
<1> QED
  BY <1>1, <1>2, SecuredAlways, PTL DEF Spec, UsesLockManager

-----------------------------------------------------------------------------
(***************************************************************************)
(* The order of transactions in the input queues.  An action leads another *)
(* one of its partition when it was enqueued first, as far as that can     *)
(* still be seen: the other one is not enqueued, or is behind it.          *)
(***************************************************************************)
LocksApart == \A x, y \in Xct, p \in Partition : LockedBy(x, p) /\ LockedBy(y, p) => x = y

Ahead(s, a, b) == \E i, j \in DOMAIN s : i < j /\ s[i] = a /\ s[j] = b

Leads(a, b) ==
    /\ Current(a) /\ Sent(a) /\ Current(b)
    /\ Sent(b) => Queued(b) /\ (Queued(a) => Ahead(inq[Part(a)], a, b))

Rivals(a, b, c, d) ==
    /\ XctOf[a] = XctOf[c] /\ XctOf[b] = XctOf[d] /\ XctOf[a] # XctOf[b]
    /\ Part(a) = Part(b) /\ Part(c) = Part(d)

(***************************************************************************)
(* Of two transactions one leads wherever they meet, and nobody overtakes  *)
(* in between, because only one holds the enqueue lock of a partition.     *)
(***************************************************************************)
LeadInv ==
    \A a, b, c, d \in ActionId : Rivals(a, b, c, d) => ~(Leads(a, b) /\ Leads(d, c))

OrderInv == LocksApart /\ LeadInv

\* A queue that grows at its end, and one that loses its head.
LEMMA AheadPushed ==
    ASSUME NEW E, NEW s \in Seq(E), NEW b \in E, ~Has(s, b), NEW t, t = Append(s, b),
           NEW c, NEW d, Ahead(t, c, d)
    PROVE  c # b /\ (d # b => Ahead(s, c, d))
<1>1. PICK n : n = Len(s) /\ n \in Nat /\ DOMAIN s = 1 .. n
  BY LenProperties
<1>2. DOMAIN t = 1 .. n + 1 /\ t[n + 1] = b /\ \A i \in 1 .. n : t[i] = s[i] /\ s[i] # b
  BY <1>1, AppendProperties DEF Has
<1>3. PICK i \in DOMAIN t, j \in DOMAIN t : i < j /\ t[i] = c /\ t[j] = d
  BY DEF Ahead
<1>4. i \in 1 .. n /\ t[i] = s[i] /\ s[i] # b
  BY <1>1, <1>2, <1>3
<1>5. ASSUME d # b PROVE Ahead(s, c, d)
  <2>1. j \in 1 .. n
    BY <1>1, <1>2, <1>3, <1>5
  <2>2. i \in DOMAIN s /\ j \in DOMAIN s /\ s[i] = c /\ s[j] = d
    BY <1>1, <1>2, <1>3, <1>4, <2>1
  <2> QED
    BY <1>3, <2>2 DEF Ahead
<1> QED
  BY <1>3, <1>4, <1>5

LEMMA AheadPopped ==
    ASSUME NEW E, NEW s \in Seq(E), s # <<>>, NEW t, t = Tail(s), NEW c, NEW d
    PROVE  /\ Ahead(t, c, d) => Ahead(s, c, d)
           /\ c = Head(s) /\ Has(t, d) => Ahead(s, c, d)
<1>1. PICK n : n = Len(s) /\ n \in Nat /\ DOMAIN s = 1 .. n
  BY LenProperties
<1>2. n > 0
  BY <1>1, EmptySeq
<1>3. DOMAIN t = 1 .. n - 1 /\ \A i \in 1 .. n - 1 : t[i] = s[i + 1]
  <2>1. t \in Seq(E) /\ Len(t) = n - 1
    BY <1>1, HeadTailProperties
  <2>2. DOMAIN t = 1 .. n - 1
    BY <2>1, LenProperties
  <2>3. \A i \in 1 .. n - 1 : t[i] = s[i + 1]
    BY <1>1, <2>1, HeadTailProperties
  <2> QED
    BY <2>2, <2>3
<1>4. s[1] = Head(s)
  BY HeadTailProperties
<1>5. ASSUME Ahead(t, c, d) PROVE Ahead(s, c, d)
  <2>1. PICK i \in DOMAIN t, j \in DOMAIN t : i < j /\ t[i] = c /\ t[j] = d
    BY <1>5 DEF Ahead
  <2>2. i + 1 \in DOMAIN s /\ j + 1 \in DOMAIN s /\ i + 1 < j + 1
    BY <1>1, <1>3, <2>1
  <2>3. s[i + 1] = c /\ s[j + 1] = d
    BY <1>3, <2>1
  <2> QED
    BY <2>2, <2>3 DEF Ahead
<1>6. ASSUME c = Head(s), Has(t, d) PROVE Ahead(s, c, d)
  <2>1. PICK j \in DOMAIN t : t[j] = d
    BY <1>6 DEF Has
  <2>2. 1 \in DOMAIN s /\ j + 1 \in DOMAIN s /\ 1 < j + 1
    BY <1>1, <1>2, <1>3, <2>1
  <2>3. s[1] = c /\ s[j + 1] = d
    BY <1>3, <1>4, <1>6, <2>1
  <2> QED
    BY <2>2, <2>3 DEF Ahead
<1> QED
  BY <1>5, <1>6

\* Leads and locks may be lost.
LEMMA FewerLeads ==
    ASSUME OrderInv,
           \A a, b \in ActionId : Part(a) = Part(b) /\ Leads(a, b)' => Leads(a, b),
           \A x \in Xct, p \in Partition : LockedBy(x, p)' => LockedBy(x, p)
    PROVE  OrderInv'
<1>1. LocksApart'
  BY DEF OrderInv, LocksApart
<1>2. ASSUME NEW a \in ActionId, NEW b \in ActionId, NEW c \in ActionId, NEW d \in ActionId,
             Rivals(a, b, c, d), Leads(a, b)', Leads(d, c)'
      PROVE  FALSE
  <2>1. Leads(a, b) /\ Leads(d, c)
    BY <1>2 DEF Rivals
  <2> QED
    BY <1>2, <2>1 DEF OrderInv, LeadInv
<1>3. LeadInv'
  BY <1>2 DEF LeadInv, Rivals
<1> QED
  BY <1>1, <1>3 DEF OrderInv

\* A step that neither enqueues nor takes from an input queue.
LEMMA OrderSame ==
    ASSUME OrderInv, inq' = inq,
           \A x \in Xct : rvp'[x].phase = rvp[x].phase /\ rvp'[x].sent = rvp[x].sent
    PROVE  OrderInv'
<1>1. ASSUME NEW a \in ActionId
      PROVE  (Sent(a)' <=> Sent(a)) /\ (Current(a)' <=> Current(a)) /\ (Queued(a)' <=> Queued(a))
  <2>1. XctOf[a] \in Xct
    BY ActionFacts
  <2> QED
    BY <2>1 DEF Sent, Current, Queued
<1>2. \A a, b \in ActionId : Leads(a, b)' => Leads(a, b)
  BY <1>1 DEF Leads, Ahead
<1>3. \A x \in Xct, p \in Partition : LockedBy(x, p)' => LockedBy(x, p)
  BY DEF LockedBy, Sending
<1> QED
  BY <1>2, <1>3, FewerLeads

\* A worker takes the first action of its queue: who is behind it was led.
LEMMA OrderPopped ==
    ASSUME FlowInv, OrderInv, NEW p \in Partition, Dequeue(p)
    PROVE  OrderInv'
<1>1. PICK s, t : s = inq[p] /\ t = Tail(s)
  OBVIOUS
<1>2. s # <<>> /\ rvp' = rvp /\ inq' = [inq EXCEPT ![p] = t]
  BY <1>1 DEF Dequeue
<1>3. inq \in [Partition -> Seq(ActionId)]
  BY DEF FlowInv, QueueTypes
<1>4. s \in Seq(ActionId)
  BY <1>1, <1>3
<1>5. inq'[p] = t /\ \A q \in Partition : q # p => inq'[q] = inq[q]
  BY <1>2, <1>3
<1>6. \A c : Has(s, c) <=> c = Head(s) \/ Has(t, c)
  BY <1>1, <1>2, <1>4, Popped
<1>7. ASSUME NEW a \in ActionId
      PROVE  (Sent(a)' <=> Sent(a)) /\ (Current(a)' <=> Current(a))
  BY <1>2 DEF Sent, Current
<1>8. ASSUME NEW a \in ActionId, NEW b \in ActionId, Part(a) = Part(b), Leads(a, b)'
      PROVE  Leads(a, b)
  <2>1. Part(a) \in Partition
    BY ActionFacts
  <2>2. CASE Part(a) # p
    <3>1. inq'[Part(a)] = inq[Part(a)]
      BY <1>5, <2>1, <2>2
    <3>2. (Queued(a)' <=> Queued(a)) /\ (Queued(b)' <=> Queued(b))
      BY <1>8, <3>1 DEF Queued
    <3> QED
      BY <1>7, <1>8, <3>1, <3>2 DEF Leads, Ahead
  <2>3. CASE Part(a) = p
    <3>1. /\ Queued(a) <=> Has(s, a)
          /\ Queued(b) <=> Has(s, b)
          /\ Queued(a)' <=> Has(t, a)
          /\ Queued(b)' <=> Has(t, b)
      BY <1>1, <1>5, <1>8, <2>3 DEF Queued, Has
    <3>2. Current(a) /\ Sent(a) /\ Current(b)
      BY <1>7, <1>8 DEF Leads
    <3>3. ASSUME Sent(b) PROVE Queued(b) /\ (Queued(a) => Ahead(inq[Part(a)], a, b))
      <4>1. Has(t, b) /\ (Has(t, a) => Ahead(t, a, b))
        BY <1>5, <1>7, <1>8, <2>3, <3>1, <3>3 DEF Leads, Ahead
      <4>2. Queued(b)
        BY <1>6, <3>1, <4>1
      <4>3. ASSUME Queued(a) PROVE Ahead(s, a, b)
        <5>1. Has(t, a) \/ a = Head(s)
          BY <1>6, <3>1, <4>3
        <5> QED
          BY <1>1, <1>2, <1>4, <4>1, <5>1, AheadPopped
      <4> QED
        BY <1>1, <2>3, <4>2, <4>3
    <3> QED
      BY <3>2, <3>3 DEF Leads
  <2> QED
    BY <2>2, <2>3
<1>9. \A x \in Xct, q \in Partition : LockedBy(x, q)' => LockedBy(x, q)
  BY <1>2 DEF LockedBy, Sending
<1> QED
  BY <1>8, <1>9, FewerLeads

\* A new phase has sent nothing, so that its actions lead nobody; and where they are led,
\* their transaction leads nowhere.
LEMMA OrderTurned ==
    ASSUME FlowInv, OrderInv, inq' = inq, NEW x \in Xct,
           \A y \in Xct : y # x => rvp'[y] = rvp[y],
           rvp'[x].sent = 0
    PROVE  OrderInv'
<1>1. ASSUME NEW a \in ActionId, XctOf[a] = x PROVE ~(Current(a)' /\ Sent(a)')
  <2>1. a[3] \in DOMAIN Flow[a[1]][a[2]] /\ a[1] \in Xct /\ a[2] \in DOMAIN Flow[a[1]]
    BY ActionFacts
  <2>2. a[3] \in Nat /\ a[3] > 0
    BY <2>1, PhaseFacts
  <2>3. a[2] \in Nat
    BY ActionFacts
  <2> QED
    BY <1>1, <2>2, <2>3 DEF Current, Sent
<1>2. ASSUME NEW a \in ActionId, XctOf[a] # x
      PROVE  (Sent(a)' <=> Sent(a)) /\ (Current(a)' <=> Current(a)) /\ (Queued(a)' <=> Queued(a))
  <2>1. XctOf[a] \in Xct
    BY ActionFacts
  <2>2. rvp'[XctOf[a]] = rvp[XctOf[a]]
    BY <1>2, <2>1
  <2> QED
    BY <2>2 DEF Sent, Current, Queued
<1>3. ASSUME NEW a \in ActionId, NEW b \in ActionId, NEW c \in ActionId, NEW d \in ActionId,
             Rivals(a, b, c, d), Leads(a, b)', Leads(d, c)'
      PROVE  FALSE
  <2>1. XctOf[a] # x /\ XctOf[d] # x
    BY <1>1, <1>3 DEF Leads
  <2>2. XctOf[b] # x /\ XctOf[c] # x
    BY <1>3, <2>1 DEF Rivals
  <2>3. Leads(a, b) /\ Leads(d, c)
    BY <1>2, <1>3, <2>1, <2>2 DEF Leads, Ahead
  <2> QED
    BY <1>3, <2>3 DEF OrderInv, LeadInv
<1>4. LeadInv'
  BY <1>3 DEF LeadInv, Rivals
<1>5. ASSUME NEW y \in Xct, NEW p \in Partition, LockedBy(y, p)' PROVE LockedBy(y, p)
  <2>1. y # x
    BY <1>5 DEF LockedBy
  <2> QED
    BY <1>5, <2>1 DEF LockedBy, Sending
<1>6. LocksApart'
  BY <1>5 DEF OrderInv, LocksApart
<1> QED
  BY <1>4, <1>6 DEF OrderInv

\* Two actions of one phase are in different partitions.
LEMMA OnePerPartition ==
    ASSUME CoupledFlows(Flow), NEW a \in ActionId, NEW b \in ActionId,
           XctOf[a] = XctOf[b], a[2] = b[2], Part(a) = Part(b)
    PROVE  a = b
<1>1. PICK x, i : x = XctOf[a] /\ i = a[2]
  OBVIOUS
<1>2. PICK f, m, n : f = Flow[x][i] /\ m = a[3] /\ n = b[3]
  OBVIOUS
<1>3. /\ x \in Xct /\ i \in DOMAIN Flow[x] /\ a = <<x, i, m>> /\ b = <<x, i, n>>
      /\ m \in DOMAIN f /\ n \in DOMAIN f /\ m \in Nat /\ n \in Nat
  BY <1>1, <1>2, ActionFacts
<1>4. f[m].part = f[n].part
  BY <1>2, <1>3 DEF Part, Datum
<1>5. InStep(f, f)
  BY <1>2, <1>3, FlowAssumption DEF CoupledFlows, FlowAssumption
<1>6. ~(m < n) /\ ~(n < m)
  BY <1>3, <1>4, <1>5 DEF InStep
<1> QED
  BY <1>3, <1>6

(***************************************************************************)
(* The step that matters.  If the action that is enqueued leads one of y,  *)
(* while y leads elsewhere, then x has enqueued right before it where y    *)
(* comes right before as well: y has still the enqueue lock of that        *)
(* partition, as x has, or has yet to come there and is led there.         *)
(***************************************************************************)
LEMMA NobodyOvertakes ==
    ASSUME FlowInv, OrderInv, CoupledFlows(Flow), NEW x \in Xct, Sending(x),
           NEW e \in ActionId, e = NextOf(x),
           NEW b \in ActionId, NEW c \in ActionId, NEW d \in ActionId, Rivals(e, b, c, d),
           Current(b), ~Sent(b), Leads(d, c)
    PROVE  FALSE
<1>1. PICK i, s, y, j, t : /\ i = rvp[x].phase /\ s = rvp[x].sent
                           /\ y = XctOf[b] /\ j = rvp[y].phase /\ t = rvp[y].sent
  OBVIOUS
<1>2. PICK f, g, n, m, l : f = Flow[x][i] /\ g = Flow[y][j] /\ n = b[3] /\ m = c[3] /\ l = d[3]
  OBVIOUS
<1>3. e = <<x, i, s + 1>> /\ XctOf[e] = x
  BY <1>1, ActionFacts DEF NextOf
<1>4. /\ y \in Xct /\ x # y /\ XctOf[c] = x /\ XctOf[d] = y
      /\ Part(e) = Part(b) /\ Part(c) = Part(d)
  BY <1>1, <1>3, ActionFacts DEF Rivals
<1>5. /\ Current(c) /\ Current(d) /\ Sent(d)
      /\ c[2] = i /\ d[2] = j /\ b[2] = j
  BY <1>1, <1>4 DEF Leads, Current
<1>6. /\ b = <<y, j, n>> /\ c = <<x, i, m>> /\ d = <<y, j, l>>
      /\ n \in DOMAIN g /\ l \in DOMAIN g /\ m \in DOMAIN f /\ s + 1 \in DOMAIN f
      /\ n \in Nat /\ l \in Nat /\ m \in Nat
  BY <1>1, <1>2, <1>3, <1>4, <1>5, ActionFacts
<1>7. /\ i \in DOMAIN Flow[x] /\ j \in DOMAIN Flow[y] /\ s \in Nat /\ t \in Nat /\ j \in Nat
      /\ DOMAIN f = 1 .. Len(f) /\ DOMAIN g = 1 .. Len(g) /\ Len(f) \in Nat /\ Len(g) \in Nat
  <2>1. /\ i \in DOMAIN Flow[x] /\ s \in Nat /\ DOMAIN f = 1 .. Len(f) /\ Len(f) \in Nat
    BY <1>1, <1>2, RvpFacts
  <2>2. /\ j \in DOMAIN Flow[y] /\ j \in Nat /\ t \in Nat /\ DOMAIN g = 1 .. Len(g) /\ Len(g) \in Nat
    BY <1>1, <1>2, <1>4, RvpFacts, Zenon
  <2> QED
    BY <2>1, <2>2
<1>8. l <= t /\ ~(n <= t)
  BY <1>1, <1>4, <1>5, <1>6, <1>7 DEF Sent
<1>9. f[s + 1].part = g[n].part /\ f[m].part = g[l].part
  <2>1. Part(e) = f[s + 1].part /\ Part(c) = f[m].part
    BY <1>2, <1>3, <1>6 DEF Part, Datum
  <2>2. Part(b) = g[n].part /\ Part(d) = g[l].part
    BY <1>2, <1>6 DEF Part, Datum
  <2> QED
    BY <1>4, <2>1, <2>2
<1>10. InStep(f, g)
  BY <1>2, <1>4, <1>7, FlowAssumption DEF CoupledFlows, FlowAssumption
<1>11. ~(s + 1 < m)
  <2>1. s + 1 < m => n < l
    BY <1>6, <1>9, <1>10 DEF InStep
  <2> QED
    BY <1>6, <1>7, <1>8, <2>1
<1>12. m # s + 1
  <2>1. ASSUME m = s + 1 PROVE FALSE
    <3>1. Part(b) = Part(d)
      BY <1>3, <1>4, <1>6, <2>1
    <3>2. b = d
      BY <1>4, <1>5, <1>1, <3>1, OnePerPartition
    <3> QED
      BY <1>6, <1>8, <3>2
  <2> QED
    BY <2>1
<1>13. m < s + 1
  BY <1>6, <1>7, <1>11, <1>12
<1>14. l < n /\ f[s].part = g[n - 1].part
  <2>1. l < n /\ f[(s + 1) - 1].part = g[n - 1].part
    BY <1>6, <1>9, <1>10, <1>13 DEF InStep
  <2>2. (s + 1) - 1 = s
    BY <1>7
  <2> QED
    BY <2>1, <2>2
<1>15. s \in DOMAIN f /\ s > 0 /\ n - 1 \in DOMAIN g
  BY <1>6, <1>7, <1>13, <1>14
<1>16. PICK u, v : u = <<x, i, s>> /\ v = <<y, j, n - 1>>
  OBVIOUS
<1>17. u \in ActionId /\ v \in ActionId
  BY <1>2, <1>4, <1>7, <1>15, <1>16, PhaseFacts
<1>18. XctOf[u] = x /\ XctOf[v] = y /\ u[2] = i /\ u[3] = s /\ v[2] = j /\ v[3] = n - 1
  BY <1>16, <1>17, ActionFacts
<1>19. Part(u) = Part(v) /\ Part(u) \in Partition
  <2>1. Part(u) = f[s].part /\ Part(v) = g[n - 1].part
    BY <1>2, <1>16 DEF Part, Datum
  <2> QED
    BY <1>14, <1>17, <2>1, ActionFacts
<1>20. CASE t = n - 1
  <2>1. LockedBy(x, Part(u))
    BY <1>1, <1>15, <1>16 DEF LockedBy
  <2>2. Sending(y)
    <3>1. t < Len(g)
      BY <1>6, <1>7, <1>8
    <3> QED
      BY <1>1, <1>2, <3>1 DEF Sending
  <2>3. t > 0
    BY <1>7, <1>15, <1>20
  <2>4. LockedBy(y, Part(v))
    BY <1>1, <1>16, <1>20, <2>2, <2>3 DEF LockedBy
  <2> QED
    BY <1>4, <1>19, <2>1, <2>4 DEF OrderInv, LocksApart
<1>21. CASE t # n - 1
  <2>1. Current(u) /\ Sent(u) /\ Current(v)
    BY <1>1, <1>7, <1>18 DEF Current, Sent
  <2>2. ~Sent(v)
    <3>1. ~(n - 1 <= t) /\ ~(j < j)
      BY <1>6, <1>7, <1>8, <1>21
    <3> QED
      BY <1>1, <1>18, <3>1 DEF Sent
  <2>3. Leads(u, v)
    BY <2>1, <2>2 DEF Leads
  <2>4. Rivals(u, v, c, d)
    BY <1>4, <1>18, <1>19 DEF Rivals
  <2> QED
    BY <1>17, <2>3, <2>4 DEF OrderInv, LeadInv
<1> QED
  BY <1>20, <1>21

\* An action is enqueued: it leads those that were not, and changes nothing for the others.
LEMMA OrderGrows ==
    ASSUME FlowInv, OrderInv, CoupledFlows(Flow), NEW x \in Xct, Enqueue(x)
    PROVE  OrderInv'
<1>1. PICK e, p : e = NextOf(x) /\ p = Part(e)
  OBVIOUS
<1>2. /\ e \in ActionId /\ XctOf[e] = x /\ Current(e) /\ ~Sent(e)
      /\ \A b \in ActionId : /\ Sent(b)' <=> Sent(b) \/ b = e
                             /\ Queued(b)' <=> Queued(b) \/ b = e
                             /\ Current(b)' <=> Current(b)
      /\ \A y \in Xct : y # x => rvp'[y] = rvp[y]
      /\ rvp'[x] = [rvp[x] EXCEPT !.sent = @ + 1]
  BY <1>1, Enqueued
<1>3. PICK s, t : s = inq[p] /\ t = Append(s, e)
  OBVIOUS
<1>4. /\ Sending(x) /\ (\A y \in Xct : ~LockedBy(y, p))
      /\ inq' = [inq EXCEPT ![p] = t]
  BY <1>1, <1>3 DEF Enqueue
<1>5. p \in Partition /\ s \in Seq(ActionId)
  BY <1>1, <1>2, <1>3, ActionFacts DEF FlowInv, QueueTypes
<1>6. inq'[p] = t /\ \A q \in Partition : q # p => inq'[q] = inq[q]
  BY <1>4, <1>5 DEF FlowInv, QueueTypes
<1>7. ~Has(s, e)
  <2>1. ~Queued(e)
    BY <1>2 DEF FlowInv, PlaceInv
  <2> QED
    BY <1>1, <1>3, <2>1 DEF Queued, Has
<1>8. ASSUME NEW a \in ActionId, NEW b \in ActionId, Part(a) = Part(b), Leads(a, b)'
      PROVE  IF a = e THEN Current(b) /\ (~Sent(b) \/ b = e) ELSE Leads(a, b)
  <2>1. Current(a) /\ Current(b) /\ (Sent(a) \/ a = e)
    BY <1>2, <1>8 DEF Leads
  <2>2. CASE b = e
    <3>1. ~Sent(b)
      BY <1>2, <2>2
    <3> QED
      BY <2>1, <2>2, <3>1 DEF Leads
  <2>3. CASE b # e /\ Sent(b)
    <3>1. Queued(b)
      BY <1>2, <1>8, <2>3 DEF Leads
    <3>2. ASSUME Queued(a) \/ a = e PROVE a # e /\ Ahead(inq[Part(a)], a, b)
      <4>1. Ahead(inq'[Part(a)], a, b)
        BY <1>2, <1>8, <2>3, <3>2 DEF Leads, Ahead
      <4>2. CASE Part(a) = p
        <5>1. Ahead(t, a, b)
          BY <1>6, <4>1, <4>2
        <5>2. s \in Seq(ActionId) /\ e \in ActionId /\ ~Has(s, e) /\ t = Append(s, e)
          BY <1>2, <1>3, <1>5, <1>7
        <5>3. a # e /\ (b # e => Ahead(s, a, b))
          BY <5>1, <5>2, AheadPushed
        <5> QED
          BY <1>3, <2>3, <4>2, <5>3
      <4>3. CASE Part(a) # p
        <5>1. Part(a) \in Partition
          BY ActionFacts
        <5>2. inq'[Part(a)] = inq[Part(a)]
          BY <1>6, <4>3, <5>1
        <5> QED
          BY <1>1, <4>1, <4>3, <5>2
      <4> QED
        BY <4>2, <4>3
    <3> QED
      BY <2>1, <2>3, <3>1, <3>2 DEF Leads
  <2>4. CASE b # e /\ ~Sent(b)
    BY <2>1, <2>4 DEF Leads
  <2> QED
    BY <2>2, <2>3, <2>4
<1>9. ASSUME NEW b \in ActionId, NEW c \in ActionId, NEW d \in ActionId,
             Rivals(e, b, c, d), Leads(e, b)', Leads(d, c)'
      PROVE  FALSE
  <2>1. b # e /\ d # e /\ Part(e) = Part(b) /\ Part(d) = Part(c)
    BY <1>9 DEF Rivals
  <2>2. Current(b) /\ ~Sent(b)
    BY <1>2, <1>8, <1>9, <2>1
  <2>3. Leads(d, c)
    BY <1>8, <1>9, <2>1
  <2> QED
    BY <1>1, <1>2, <1>4, <1>9, <2>2, <2>3, NobodyOvertakes
<1>10. ASSUME NEW a \in ActionId, NEW b \in ActionId, NEW c \in ActionId, NEW d \in ActionId,
              Rivals(a, b, c, d), Leads(a, b)', Leads(d, c)'
       PROVE  FALSE
  <2>1. Part(a) = Part(b) /\ Part(d) = Part(c) /\ Rivals(d, c, b, a)
    BY <1>10 DEF Rivals
  <2>2. CASE a = e
    BY <1>9, <1>10, <2>2
  <2>3. CASE d = e
    BY <1>9, <1>10, <2>1, <2>3
  <2>4. CASE a # e /\ d # e
    <3>1. Leads(a, b) /\ Leads(d, c)
      BY <1>8, <1>10, <2>1, <2>4
    <3> QED
      BY <1>10, <3>1 DEF OrderInv, LeadInv
  <2> QED
    BY <2>2, <2>3, <2>4
<1>11. LeadInv'
  BY <1>10 DEF LeadInv, Rivals
<1>12. ASSUME NEW q \in Partition, LockedBy(x, q)' PROVE q = p
  <2>1. PICK i, n : i = rvp[x].phase /\ n = rvp[x].sent
    OBVIOUS
  <2>2. rvp'[x].phase = i /\ rvp'[x].sent = n + 1
    BY <1>2, <2>1, RvpFacts
  <2>3. Part(<<x, i, n + 1>>) = q
    BY <1>12, <2>2 DEF LockedBy
  <2> QED
    BY <1>1, <2>1, <2>3 DEF NextOf
<1>13. ASSUME NEW y \in Xct, y # x, NEW q \in Partition, LockedBy(y, q)' PROVE LockedBy(y, q)
  BY <1>2, <1>13 DEF LockedBy, Sending
<1>14. LocksApart'
  <2>1. ASSUME NEW y \in Xct, NEW z \in Xct, NEW q \in Partition, LockedBy(y, q)', LockedBy(z, q)'
        PROVE  y = z
    <3>1. CASE y = x /\ z # x
      BY <1>4, <1>12, <1>13, <2>1, <3>1
    <3>2. CASE z = x /\ y # x
      BY <1>4, <1>12, <1>13, <2>1, <3>2
    <3>3. CASE y # x /\ z # x
      BY <1>13, <2>1, <3>3 DEF OrderInv, LocksApart
    <3> QED
      BY <3>1, <3>2, <3>3
  <2> QED
    BY <2>1 DEF LocksApart
<1> QED
  BY <1>11, <1>14 DEF OrderInv

\* The other steps, of which only a midway rendezvous point changes a phase.
LEMMA OrderWork ==
    ASSUME FlowInv, OrderInv, CoupledFlows(Flow), NEW p \in Partition, Work(p)
    PROVE  OrderInv'
<1>1. CASE ReleaseCommitted(p) \/ Execute(p) \/ EarlyAbort(p)
  <2>1. inq' = inq /\ rvp' = rvp
    BY <1>1, Zenon DEF ReleaseCommitted, Execute, EarlyAbort
  <2> QED
    BY <2>1, OrderSame, Zenon
<1>2. CASE Dequeue(p)
  BY <1>2, OrderPopped
<1>3. CASE WorkerDispatch(p)
  <2>1. Serving(p) \in Xct
    BY <1>3, WorkerFacts DEF WorkerDispatch
  <2> QED
    BY <1>3, <2>1, OrderGrows DEF WorkerDispatch
<1>4. CASE WorkerNotify(p)
  <2>1. PICK x : x = Serving(p)
    BY Zenon
  <2>2. inq' = inq /\ rvp' = [rvp EXCEPT ![x].told = @ + 1]
    BY <1>4, <2>1 DEF WorkerNotify, SendBack
  <2>3. rvp \in [Xct -> RvpType]
    BY DEF FlowInv, RvpTypes
  <2>4. \A y \in Xct : rvp'[y].phase = rvp[y].phase /\ rvp'[y].sent = rvp[y].sent
    BY <2>2, <2>3 DEF RvpType
  <2> QED
    BY <2>2, <2>4, OrderSame
<1>5. CASE PostNotLast(p)
  <2>1. PICK x : x = Serving(p)
    OBVIOUS
  <2>2. inq' = inq /\ rvp' = [rvp EXCEPT ![x].left = @ - 1, ![x].aborted = Aborting(p)]
    BY <1>5, <2>1 DEF PostNotLast
  <2>3. rvp \in [Xct -> RvpType]
    BY DEF FlowInv, RvpTypes
  <2>4. \A y \in Xct : rvp'[y].phase = rvp[y].phase /\ rvp'[y].sent = rvp[y].sent
    BY <2>2, <2>3 DEF RvpType
  <2> QED
    BY <2>2, <2>4, OrderSame
<1>6. CASE PostEnds(p)
  <2>1. PICK x : x = Serving(p)
    OBVIOUS
  <2>2. PICK o : inq' = inq /\ rvp' = [rvp EXCEPT ![x].left = 0, ![x].aborted = Aborting(p),
                                                  ![x].outcome = o]
    BY <1>6, <2>1 DEF PostEnds
  <2>3. rvp \in [Xct -> RvpType]
    BY DEF FlowInv, RvpTypes
  <2>4. \A y \in Xct : rvp'[y].phase = rvp[y].phase /\ rvp'[y].sent = rvp[y].sent
    BY <2>2, <2>3 DEF RvpType
  <2> QED
    BY <2>2, <2>4, OrderSame
<1>7. CASE PostRunsMidway(p)
  <2>1. PICK x : x = Serving(p)
    OBVIOUS
  <2>2. PICK n : inq' = inq /\ rvp' = [rvp EXCEPT ![x].phase = @ + 1, ![x].sent = 0, ![x].left = n]
    BY <1>7, <2>1 DEF PostRunsMidway
  <2>3. x \in Xct /\ rvp \in [Xct -> RvpType]
    BY <1>7, <2>1, WorkerFacts DEF PostRunsMidway, FlowInv, RvpTypes
  <2>4. rvp'[x].sent = 0 /\ \A y \in Xct : y # x => rvp'[y] = rvp[y]
    BY <2>2, <2>3 DEF RvpType
  <2> QED
    BY <2>2, <2>3, <2>4, OrderTurned
<1> QED
  BY <1>1, <1>2, <1>3, <1>4, <1>5, <1>6, <1>7 DEF Work

LEMMA OrderStep ==
    ASSUME FlowInv, OrderInv, CoupledFlows(Flow), [Next]_vars
    PROVE  OrderInv'
<1>1. CASE UNCHANGED vars \/ Finished \/ LatePush \/ PrepareNewRun
  <2>1. inq' = inq /\ rvp' = rvp
    BY <1>1, OnlySpins DEF PrepareNewRun
  <2> QED
    BY <2>1, OrderSame
<1>2. ASSUME NEW x \in Xct, ClientDispatch(x) PROVE OrderInv'
  BY <1>2, OrderGrows DEF ClientDispatch
<1>3. ASSUME NEW p \in Partition, Work(p) PROVE OrderInv'
  BY <1>3, OrderWork
<1>4. CASE NotifierNotify
  <2>1. PICK x : inq' = inq /\ rvp' = [rvp EXCEPT ![x].told = @ + 1]
    BY <1>4 DEF NotifierNotify, SendBack
  <2>2. rvp \in [Xct -> RvpType]
    BY DEF FlowInv, RvpTypes
  <2>3. \A y \in Xct : rvp'[y].phase = rvp[y].phase /\ rvp'[y].sent = rvp[y].sent
    BY <2>1, <2>2 DEF RvpType
  <2> QED
    BY <2>1, <2>3, OrderSame, Zenon
<1> QED
  BY <1>1, <1>2, <1>3, <1>4 DEF Next

\* What the invariant says of two queues.
LEMMA OrderIsOne ==
    ASSUME FlowInv, OrderInv, CoupledFlows(Flow)
    PROVE  OneOrder
<1>1. ASSUME NEW p \in Partition, NEW x \in Xct, NEW y \in Xct, AheadOf(x, y, p)
      PROVE  x # y /\ \E a \in ActionId, b \in ActionId :
                          XctOf[a] = x /\ XctOf[b] = y /\ Part(a) = Part(b) /\ Leads(a, b)
  <2>1. PICK s : s = inq[p]
    OBVIOUS
  <2>2. s \in Seq(ActionId) /\ Home(p, s) /\ Once(s)
    BY <2>1 DEF FlowInv, QueueTypes, QueueInv
  <2>3. PICK i \in DOMAIN s, j \in DOMAIN s : i < j /\ XctOf[s[i]] = x /\ XctOf[s[j]] = y
    BY <1>1, <2>1 DEF AheadOf
  <2>4. PICK a, b : a = s[i] /\ b = s[j]
    OBVIOUS
  <2>5. a \in ActionId /\ b \in ActionId
    BY <2>2, <2>3, <2>4, ElementOfSeq
  <2>6. Part(a) = p /\ Part(b) = p
    BY <2>2, <2>3, <2>4 DEF Home
  <2>7. Queued(a) /\ Queued(b)
    BY <2>1, <2>3, <2>4, <2>6 DEF Queued
  <2>8. Current(a) /\ Sent(a) /\ Current(b)
    BY <2>5, <2>7 DEF FlowInv, PlaceInv
  <2>9. Ahead(inq[Part(a)], a, b)
    BY <2>1, <2>3, <2>4, <2>6 DEF Ahead
  <2>10. Leads(a, b)
    BY <2>7, <2>8, <2>9 DEF Leads
  <2>11. x # y
    <3>1. ASSUME x = y PROVE FALSE
      <4>1. a[2] = b[2]
        BY <2>3, <2>4, <2>8, <3>1 DEF Current
      <4>2. a = b
        BY <2>3, <2>4, <2>5, <2>6, <3>1, <4>1, OnePerPartition
      <4>3. i = j
        BY <2>2, <2>4, <4>2 DEF Once
      <4>4. i \in Nat /\ j \in Nat
        BY <2>2, LenProperties
      <4> QED
        BY <2>3, <4>3, <4>4
    <3> QED
      BY <3>1
  <2> QED
    BY <2>3, <2>4, <2>5, <2>6, <2>10, <2>11
<1>2. ASSUME NEW p \in Partition, NEW q \in Partition, NEW x \in Xct, NEW y \in Xct,
             AheadOf(x, y, p), AheadOf(y, x, q)
      PROVE  FALSE
  <2>1. PICK a \in ActionId, b \in ActionId :
           x # y /\ XctOf[a] = x /\ XctOf[b] = y /\ Part(a) = Part(b) /\ Leads(a, b)
    BY <1>1, <1>2
  <2>2. PICK d \in ActionId, c \in ActionId :
           XctOf[d] = y /\ XctOf[c] = x /\ Part(d) = Part(c) /\ Leads(d, c)
    BY <1>1, <1>2
  <2>3. Rivals(a, b, c, d)
    BY <2>1, <2>2 DEF Rivals
  <2> QED
    BY <2>1, <2>2, <2>3 DEF OrderInv, LeadInv
<1> QED
  BY <1>2 DEF OneOrder

\* Nothing is enqueued at first.
LEMMA OrderStart ==
    ASSUME Init
    PROVE  OrderInv
<1>1. \A x \in Xct : rvp[x].sent = 0 /\ rvp[x].phase = 1
  BY DEF Init
<1>2. LocksApart
  BY <1>1 DEF LocksApart, LockedBy
<1>3. ASSUME NEW a \in ActionId PROVE ~Sent(a)
  <2>1. /\ a[2] \in DOMAIN Flow[a[1]] /\ a[1] \in Xct /\ a[3] \in DOMAIN Flow[a[1]][a[2]]
        /\ XctOf[a] \in Xct
    BY ActionFacts
  <2>2. a[2] \in Nat /\ a[2] > 0 /\ a[3] \in Nat /\ a[3] > 0
    BY <2>1, PhaseFacts
  <2> QED
    BY <1>1, <2>1, <2>2 DEF Sent
<1>4. LeadInv
  BY <1>3 DEF LeadInv, Leads
<1> QED
  BY <1>2, <1>4 DEF OrderInv

\* The enqueue locks enforce "an ordering across trxs" (base_partition.h:95) for any flows
\* whose phases take those they share in step, as the flows of TM1 and of the Payments of
\* one customer do: no two transactions stand in opposite orders in two input queues.  The
\* flows of TPC-B do not, and it does not hold for them.
THEOREM CouplingOrders ==
    ASSUME CoupledFlows(Flow)
    PROVE  Spec => [](Followed => OneOrder)
<1> DEFINE Inv == Followed => FlowInv /\ OrderInv
<1>1. Init => Inv
  BY FlowStart, OrderStart
<1>2. Inv /\ [Next]_vars => Inv'
  <2> SUFFICES ASSUME Inv, [Next]_vars, Followed' PROVE FlowInv' /\ OrderInv'
    OBVIOUS
  <2>1. FlowInv /\ OrderInv
    <3>1. Followed
      BY PreparedGrows DEF Followed
    <3> QED
      BY <3>1
  <2>2. FlowInv'
    BY <2>1, FlowStep DEF FollowedInv
  <2> QED
    BY <2>1, <2>2, OrderStep
<1>3. Inv => (Followed => OneOrder)
  BY OrderIsOne
<1> QED
  BY <1>1, <1>2, <1>3, PTL DEF Spec
=============================================================================

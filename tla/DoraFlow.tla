------------------------------ MODULE DoraFlow ------------------------------
(***************************************************************************)
(* Transaction flows through DORA (src/src/dora/worker.cpp, rvp.cpp,       *)
(* include/dora/partition.h and the dispatch code of the workloads).       *)
(*                                                                         *)
(* A transaction is a sequence of phases, a phase a sequence of actions,   *)
(* an action touches one key of one partition.  A client enqueues the      *)
(* actions of the first phase and returns.  The worker of each partition   *)
(* locks keys for the actions it dequeues, runs the ones that have their   *)
(* key, and posts to their rendezvous point (RVP).  The worker that posts  *)
(* last runs the RVP: it enqueues the next phase, or ends the transaction  *)
(* and sends every action back to its partition, whose worker then         *)
(* releases its key.  With the DORA flusher (CFG_FLUSHER) a committed      *)
(* transaction is sent back by the notifier thread instead.                *)
(*                                                                         *)
(* Logical locks are the values of module LogicalLock; the module is shown *)
(* to drive each of them as module LockManager says, and to implement      *)
(* StrictExecution.                                                        *)
(***************************************************************************)
EXTENDS LogicalLock, SequencesExt

CONSTANTS
    Xct,        \* the transactions, each with its own client thread
    Partition,  \* the partitions of all tables
    Key,        \* the keys
    Flow,       \* the phases of each transaction
    Mix,        \* the sets of transactions the clients may submit together
    Waited,     \* the transactions that are the last of a client's batch
    MayFail,    \* the transactions whose trx_exec() may return an error
    Flusher     \* whether the DORA flusher is configured

ASSUME FlowAssumption ==
    /\ Flow \in [Xct -> Seq(Seq([part : Partition, key : Key, dlm : {SHARED, EXCL}]))]
    /\ \A x \in Xct : Flow[x] # <<>> /\ \A i \in DOMAIN Flow[x] : Flow[x][i] # <<>>
    /\ Mix \subseteq SUBSET Xct /\ Mix # {}
    /\ Waited \subseteq Xct /\ MayFail \subseteq Xct
    /\ Flusher \in BOOLEAN
    /\ IsFiniteSet(Partition) /\ IsFiniteSet(Key)

\* The j-th action of the i-th phase of transaction x.
ActionId ==
    UNION {UNION {{<<x, i, j>> : j \in DOMAIN Flow[x][i]} : i \in DOMAIN Flow[x]} : x \in Xct}

XctOf    == [a \in ActionId |-> a[1]]
Datum(a) == Flow[a[1]][a[2]][a[3]]
Part(a)  == Datum(a).part
KeyOf(a) == Datum(a).key

\* The phases of a transaction are about different tables, and its actions in
\* one partition about different keys (in most flows there is only one).
ASSUME OneActionPerKey ==
    \A a, b \in ActionId :
        a # b /\ XctOf[a] = XctOf[b] /\ Part(a) = Part(b) =>
            a[2] = b[2] /\ KeyOf(a) # KeyOf(b)

\* Slip: set_read_only() is forgotten.
ExclusiveReq(a) == [action |-> a, tid |-> XctOf[a], dlm |-> EXCL]
Req(a)   == [action |-> a, tid |-> XctOf[a], dlm |-> Datum(a).dlm]


\* Slip: a midway RVP starts with an empty list of actions.
ActionsOfPhase ==
    [x \in Xct |-> [i \in DOMAIN Flow[x] |-> [j \in DOMAIN Flow[x][i] |-> <<x, i, j>>]]]

\* Slip: a midway RVP copies the list of actions twice.
ActionsTwice ==
    [x \in Xct |-> [i \in DOMAIN Flow[x] |->
        FlattenSeq([k \in 1 .. i + 1 |->
            IF k = 1 THEN [j \in DOMAIN Flow[x][1] |-> <<x, 1, j>>]
            ELSE [j \in DOMAIN Flow[x][k - 1] |-> <<x, k - 1, j>>]])]]

\* The list _actions of the RVP of phase i: actions of the phases so far.
ActionsUpTo ==
    [x \in Xct |-> [i \in DOMAIN Flow[x] |->
        FlattenSeq([k \in 1 .. i |-> [j \in DOMAIN Flow[x][k] |-> <<x, k, j>>]])]]

VARIABLES
    submitted,  \* the transactions the clients submit
    rvp,        \* per transaction: its current phase and RVP
    inq,        \* _input_queue of each partition
    commitq,    \* _committed_queue of each partition
    locks,      \* _plm of each partition
    worker,     \* what the worker of each partition does
    notifier,   \* committed transactions the DORA flusher has to send back
    prepared,   \* the partitions that are prepared for the next run
    victims,    \* the transactions prepareNewRun() aborts
    spins,      \* the workers that a late push() left spinning
    ran,        \* history: the actions whose trx_exec() was called
    prec,       \* history: <<x, y>> when x ran a conflicting action before y
    ended       \* history: the transactions in the order they ended

newrun  == <<prepared, victims, spins>>
history == <<submitted, newrun, ran, prec, ended>>
vars == <<rvp, inq, commitq, locks, worker, notifier, history>>

Outcome == {"none", "committed", "aborted"}

TypeOK ==
    /\ submitted \in Mix
    /\ \A x \in Xct :
          /\ rvp[x].phase \in DOMAIN Flow[x]
          /\ rvp[x].sent \in 0 .. Len(Flow[x][rvp[x].phase])      \* enqueued
          /\ rvp[x].left \in 0 .. Len(Flow[x][rvp[x].phase])      \* _countdown
          /\ rvp[x].aborted \in BOOLEAN                           \* _decision
          /\ rvp[x].outcome \in Outcome
          /\ rvp[x].told \in 0 .. Len(ActionsUpTo[x][rvp[x].phase])  \* sent back
    /\ \A p \in Partition :
          /\ inq[p] \in Seq(ActionId) /\ commitq[p] \in Seq(ActionId)
          /\ DOMAIN locks[p] \subseteq Key
          /\ \A k \in DOMAIN locks[p] : locks[p][k] \in Lock(ActionId, Xct)
          /\ worker[p].pc \in {"drain", "loop", "serve", "post", "dispatch", "notify"}
          /\ worker[p].ready \in Seq(ActionId)
          /\ worker[p].error \in BOOLEAN
    /\ notifier \subseteq Xct /\ prepared \subseteq Partition /\ victims \subseteq Xct
    /\ spins \subseteq Partition

Init ==
    /\ submitted \in Mix
    /\ rvp = [x \in Xct |-> [phase |-> 1, sent |-> 0, left |-> Len(Flow[x][1]),
                             aborted |-> FALSE, outcome |-> "none", told |-> 0]]
    /\ inq = [p \in Partition |-> <<>>]
    /\ commitq = [p \in Partition |-> <<>>]
    /\ locks = [p \in Partition |-> [k \in {} |-> NewLock(Req(CHOOSE a \in ActionId : TRUE))]]
    /\ worker = [p \in Partition |-> [pc |-> "loop", ready |-> <<>>, error |-> FALSE]]
    /\ notifier = {} /\ prepared = {} /\ victims = {} /\ spins = {}
    /\ ran = {} /\ prec = {} /\ ended = <<>>

-----------------------------------------------------------------------------
(***************************************************************************)
(* Dispatch.  The enqueue locks of a phase are coupled: the lock of the    *)
(* next partition is taken, that of the previous one is released, and the  *)
(* action is enqueued; the last lock is released after the last enqueue.   *)
(* So between two steps x holds the lock of the partition it enqueued in   *)
(* last, unless that was the last of the phase.                            *)
(***************************************************************************)
Sending(x)   == rvp[x].sent < Len(Flow[x][rvp[x].phase])
NextOf(x)    == <<x, rvp[x].phase, rvp[x].sent + 1>>
SendsLast(x) == rvp[x].sent + 1 = Len(Flow[x][rvp[x].phase])

\* Slip: the lock is released before that of the next partition is taken.
LockedByNobody(x, p) == FALSE

LockedBy(x, p) ==
    /\ Sending(x)
    /\ rvp[x].sent > 0
    /\ Part(<<x, rvp[x].phase, rvp[x].sent>>) = p

Enqueue(x) ==
    /\ Sending(x)
    /\ ~\E y \in Xct : LockedBy(y, Part(NextOf(x)))
    /\ inq' = [inq EXCEPT ![Part(NextOf(x))] = Append(@, NextOf(x))]
    /\ rvp' = [rvp EXCEPT ![x].sent = @ + 1]

\* The actions that were enqueued.
Sent(a) == \/ a[2] < rvp[XctOf[a]].phase
           \/ a[2] = rvp[XctOf[a]].phase /\ a[3] <= rvp[XctOf[a]].sent

\* The client thread of x, in dora_<trx>(): the first phase.
ClientDispatch(x) ==
    /\ x \in submitted
    /\ rvp[x].phase = 1
    /\ Enqueue(x)
    /\ UNCHANGED <<commitq, locks, worker, notifier, history>>

\* The action the worker serves, and its transaction.
Served(p) == Head(worker[p].ready)
Serving(p) == XctOf[Served(p)]

(***************************************************************************)
(* The top of the loop of _work_ACTIVE_impl(): with a committed action in  *)
(* its queue ("drain") has_committed() is true and the worker releases it. *)
(* Otherwise ("loop") has_committed() has been or will be evaluated: if a  *)
(* committed action comes in, the worker may have missed it and go on to   *)
(* dequeue() an input, or see it (also when dequeue() gives up waiting).   *)
(***************************************************************************)
Top(queue) == IF queue = <<>> THEN "loop" ELSE "drain"

\* _serve_action() returns; the next ready action is served, or the loop
\* starts again.
AfterServing(w, queue) ==
    [pc    |-> IF Len(w.ready) > 1 THEN "serve" ELSE Top(queue),
     ready |-> Tail(w.ready),
     error |-> FALSE]

\* The worker that runs a midway RVP: the next phase.
WorkerDispatch(p) ==
    /\ worker[p].pc = "dispatch"
    /\ Enqueue(Serving(p))
    /\ worker' = [worker EXCEPT ![p] = IF SendsLast(Serving(p)) THEN AfterServing(@, commitq[p]) ELSE @]
    /\ UNCHANGED <<commitq, locks, notifier, history>>

-----------------------------------------------------------------------------
\* notify_partitions(): one more action goes back to its partition.
SendBack(x) ==
    LET a == ActionsUpTo[x][rvp[x].phase][rvp[x].told + 1]
    IN  /\ commitq' = [commitq EXCEPT ![Part(a)] = Append(@, a)]
        /\ rvp' = [rvp EXCEPT ![x].told = @ + 1]

AllTold(x)   == rvp[x].told = Len(ActionsUpTo[x][rvp[x].phase])
TellsLast(x) == rvp[x].told + 1 = Len(ActionsUpTo[x][rvp[x].phase])

\* The worker that ran the terminal RVP sends the actions back ...
WorkerNotify(p) ==
    /\ worker[p].pc = "notify"
    /\ SendBack(Serving(p))
    /\ worker' = [worker EXCEPT ![p] = IF TellsLast(Serving(p)) THEN AfterServing(@, commitq'[p]) ELSE @]
    /\ UNCHANGED <<inq, locks, notifier, history>>

\* ... or the notifier thread does, when the flusher knows that the commit
\* is durable.  That need not be in the order of the commits.
NotifierNotify ==
    \E x \in notifier :
        /\ \A y \in notifier : rvp[y].told > 0 => y = x
        /\ SendBack(x)
        /\ notifier' = IF TellsLast(x) THEN notifier \ {x} ELSE notifier
        /\ UNCHANGED <<inq, locks, worker, history>>

-----------------------------------------------------------------------------
(***************************************************************************)
(* The worker of partition p, in _work_ACTIVE_impl().                      *)
(***************************************************************************)
\* 2a-2c: trx_rel_locks() of the first committed action.
ReleaseCommitted(p) ==
    /\ worker[p].pc \in {"drain", "loop"}
    /\ commitq[p] # <<>>
    /\ commitq' = [commitq EXCEPT ![p] = Tail(@)]
    /\ LET a  == Head(commitq[p])
           ll == locks[p][KeyOf(a)]
       IN  /\ CanRelease(ll, XctOf[a])
           /\ \E after \in {Release(ll, XctOf[a])} :
                 LET promoted == SubSeq(ll.waiters, 1, Len(ll.waiters) - Len(after.waiters))
                 IN  /\ locks' = [locks EXCEPT ![p][KeyOf(a)] = after]
                     /\ worker' = [worker EXCEPT
                           ![p].ready = [i \in DOMAIN promoted |-> promoted[i].action],
                           ![p].pc = IF promoted = <<>> THEN Top(commitq'[p]) ELSE "serve"]
    /\ UNCHANGED <<rvp, inq, notifier, history>>

\* 3-4: dequeue() and trx_acq_locks() of the first input action.
Dequeue(p) ==
    /\ worker[p].pc = "loop"
    /\ inq[p] # <<>>
    /\ LET a == Head(inq[p])
           k == KeyOf(a)
           known == k \in DOMAIN locks[p]
           waits == known /\ MustWait(locks[p][k], Req(a))
           ll    == IF known THEN Acquire(locks[p][k], Req(a)) ELSE NewLock(Req(a))
       IN  /\ known => CanAcquire(locks[p][k], Req(a))
           /\ locks' = [locks EXCEPT ![p] =
                  [l \in DOMAIN @ \cup {k} |-> IF l = k THEN ll ELSE @[l]]]
           /\ worker' = [worker EXCEPT
                 ![p].ready = IF waits THEN <<>> ELSE <<a>>,
                 ![p].pc = IF waits THEN Top(commitq[p]) ELSE "serve"]
    /\ inq' = [inq EXCEPT ![p] = Tail(@)]
    /\ UNCHANGED <<rvp, commitq, notifier, history>>

\* 2-5 of _serve_action(): trx_exec(), unless the transaction aborted.
Conflicts(a, b) ==
    /\ XctOf[a] # XctOf[b]
    /\ Part(a) = Part(b) /\ KeyOf(a) = KeyOf(b)
    /\ ~Compatible(Datum(a).dlm, Datum(b).dlm)

Execute(p) ==
    /\ worker[p].pc = "serve"
    /\ ~rvp[Serving(p)].aborted
    /\ \E error \in {FALSE, Serving(p) \in MayFail} :
          worker' = [worker EXCEPT ![p].pc = "post", ![p].error = error]
    /\ ran' = ran \cup {Served(p)}
    /\ prec' = prec \cup {<<XctOf[a], Serving(p)>> : a \in {b \in ran : Conflicts(b, Served(p))}}
    /\ UNCHANGED <<rvp, inq, commitq, locks, notifier, submitted, newrun, ended>>

\* Slip: the action of an aborted transaction does not post.
EarlyAbortSilent(p) ==
    /\ worker[p].pc = "serve"
    /\ rvp[Serving(p)].aborted
    /\ worker' = [worker EXCEPT ![p] = AfterServing(@, commitq[p])]
    /\ UNCHANGED <<rvp, inq, commitq, locks, notifier, history>>

EarlyAbort(p) ==
    /\ worker[p].pc = "serve"
    /\ rvp[Serving(p)].aborted
    /\ worker' = [worker EXCEPT ![p].pc = "post"]
    /\ UNCHANGED <<rvp, inq, commitq, locks, notifier, history>>

(***************************************************************************)
(* 6: post() records the error and counts down; the last caller runs the   *)
(* RVP.  Nobody else touches an RVP whose last action posted, so its first *)
(* step goes with the post.                                                *)
(***************************************************************************)
\* Slip: the error of the posting action is not recorded.
AbortingByOthers(p) == rvp[Serving(p)].aborted

Aborting(p) == rvp[Serving(p)].aborted \/ worker[p].error
LastPhase(x) == rvp[x].phase = Len(Flow[x])

PostNotLast(p) ==
    /\ worker[p].pc = "post"
    /\ rvp[Serving(p)].left > 1
    /\ rvp' = [rvp EXCEPT ![Serving(p)].left = @ - 1, ![Serving(p)].aborted = Aborting(p)]
    /\ worker' = [worker EXCEPT ![p] = AfterServing(@, commitq[p])]
    /\ UNCHANGED <<inq, commitq, locks, notifier, history>>

\* Slip: the countdown of the next RVP counts all actions so far.
PostRunsMidwayTotal(p) ==
    /\ worker[p].pc = "post"
    /\ rvp[Serving(p)].left = 1
    /\ ~Aborting(p) /\ ~LastPhase(Serving(p))
    /\ rvp' = [rvp EXCEPT ![Serving(p)].phase = @ + 1,
                          ![Serving(p)].sent = 0,
                          ![Serving(p)].left = Len(ActionsUpTo[Serving(p)][rvp[Serving(p)].phase + 1])]
    /\ worker' = [worker EXCEPT ![p].pc = "dispatch"]
    /\ UNCHANGED <<inq, commitq, locks, notifier, history>>

\* run() of a midway RVP: the next RVP is set up, with the actions so far.
PostRunsMidway(p) ==
    /\ worker[p].pc = "post"
    /\ rvp[Serving(p)].left = 1
    /\ ~Aborting(p) /\ ~LastPhase(Serving(p))
    /\ rvp' = [rvp EXCEPT ![Serving(p)].phase = @ + 1,
                          ![Serving(p)].sent = 0,
                          ![Serving(p)].left = Len(Flow[Serving(p)][rvp[Serving(p)].phase + 1])]
    /\ worker' = [worker EXCEPT ![p].pc = "dispatch"]
    /\ UNCHANGED <<inq, commitq, locks, notifier, history>>

\* run() of the terminal RVP, also from CHECK_MIDWAY_RVP_ABORTED.  A commit
\* that fails becomes an abort.
PostEnds(p) ==
    /\ worker[p].pc = "post"
    /\ rvp[Serving(p)].left = 1
    /\ Aborting(p) \/ LastPhase(Serving(p))
    /\ \E outcome \in IF Aborting(p) THEN {"aborted"}
                      ELSE {"committed"} \cup (IF Serving(p) \in MayFail THEN {"aborted"} ELSE {}) :
          /\ rvp' = [rvp EXCEPT ![Serving(p)].left = 0,
                                ![Serving(p)].aborted = Aborting(p),
                                ![Serving(p)].outcome = outcome]
          /\ IF Flusher /\ outcome = "committed"
             THEN /\ notifier' = notifier \cup {Serving(p)}
                  /\ worker' = [worker EXCEPT ![p] = AfterServing(@, commitq[p])]
             ELSE /\ worker' = [worker EXCEPT ![p].pc = "notify"]
                  /\ UNCHANGED notifier
    /\ ended' = Append(ended, Serving(p))
    /\ UNCHANGED <<inq, commitq, locks, submitted, newrun, ran, prec>>

Work(p) ==
    \/ ReleaseCommitted(p) \/ Dequeue(p)
    \/ Execute(p) \/ EarlyAbort(p)
    \/ PostNotLast(p) \/ PostRunsMidway(p) \/ PostEnds(p)
    \/ WorkerDispatch(p) \/ WorkerNotify(p)

-----------------------------------------------------------------------------
(***************************************************************************)
(* Between two runs.  A client waits for the last transaction of its batch *)
(* only (submit_batch()), and is told of it after the partitions when the  *)
(* flusher is on, before them otherwise.  When all clients have joined the *)
(* shell prepares every partition of every table for the next run: it      *)
(* waits until the worker sleeps, and aborts whoever still owns a key.     *)
(***************************************************************************)
\* Slip: with the flusher, the client is told first as well.
HeardAtEnd(x) == rvp[x].outcome # "none"

Heard(x) == rvp[x].outcome # "none" /\ (Flusher => AllTold(x))

RunOver ==
    \A x \in submitted : /\ rvp[x].phase > 1 \/ ~Sending(x)
                         /\ x \in Waited => Heard(x)

\* The worker found both queues empty.  Then it sleeps, unless its working
\* state was set to INPUT_Q after it had taken the action.
Idle(p) == worker[p].pc = "loop" /\ inq[p] = <<>> /\ commitq[p] = <<>>

Sleeping(p) == Idle(p) /\ p \notin spins

Owners(p) == UNION {{XctOf[locks[p][k].owners[i].action] : i \in DOMAIN locks[p][k].owners} :
                       k \in DOMAIN locks[p]}

\* The tables come in a fixed order, and the partitions of a table too.
ToPrepare == CHOOSE q \in Partition \ prepared : TRUE

PrepareNewRun ==
    LET p == ToPrepare
    IN  /\ RunOver /\ prepared # Partition
        /\ Sleeping(p)
        /\ victims' = victims \cup Owners(p)
        /\ locks' = [locks EXCEPT ![p] = [k \in DOMAIN @ |-> IF Clean(@[k]) THEN @[k] ELSE AbortAndReset]]
        /\ prepared' = prepared \cup {p}
        /\ UNCHANGED <<rvp, inq, commitq, worker, notifier, submitted, spins, ran, prec, ended>>

\* Every transaction ended and gave its keys back, and the workers found
\* their queues empty.
AllBack ==
    /\ \A x \in submitted : rvp[x].outcome # "none" /\ AllTold(x)
    /\ \A p \in Partition : commitq[p] = <<>> /\ worker[p].pc = "loop"

(***************************************************************************)
(* push() sets the working state after it released the lock of the queue.  *)
(* When it comes to that, the worker may have run the action and released  *)
(* its key: it then spins in INPUT_Q until something else comes, and does  *)
(* not sleep.  Nothing but the shell looks whether a worker sleeps, so     *)
(* what the last push to a partition left there is decided when the shell  *)
(* comes to it and nothing else will.                                      *)
(***************************************************************************)
LatePush ==
    LET p == ToPrepare
    IN  /\ RunOver /\ prepared # Partition
        /\ AllBack /\ Idle(p)
        /\ \E a \in ActionId : Part(a) = p /\ XctOf[a] \in submitted /\ Sent(a)
        /\ spins' = spins \cup {p}
        /\ UNCHANGED <<rvp, inq, commitq, locks, worker, notifier, submitted, prepared,
                       victims, ran, prec, ended>>

\* The next run may start, or the shell waits for a worker that spins.
Quiet == AllBack /\ (prepared # Partition => ToPrepare \in spins)

Finished == Quiet /\ UNCHANGED vars

Next ==
    \/ \E x \in Xct : ClientDispatch(x)
    \/ \E p \in Partition : Work(p)
    \/ NotifierNotify
    \/ PrepareNewRun
    \/ LatePush
    \/ Finished

Spec == Init /\ [][Next]_vars

\* As long as a client, a worker or the notifier can take a step, one does.
\* The flows need no fairness between threads: no thread can run for ever.
Fairness == WF_vars(Next)

FairSpec == Spec /\ Fairness

-----------------------------------------------------------------------------
(***************************************************************************)
(* DORA keeps its promise (StrictExecution): phases in order, conflicting  *)
(* actions of two transactions separated by the end of the first one, a    *)
(* commit only when every action of every phase ran without error.  The    *)
(* locks that make it so are spread over partitions, taken by one thread   *)
(* and given back through another's queue after the terminal RVP.          *)
(***************************************************************************)
Failed(x) ==
    rvp[x].aborted \/ \E p \in Partition : /\ worker[p].pc = "post"
                                           /\ worker[p].error /\ Serving(p) = x

FlowClash  == {c \in ActionId \X ActionId : Conflicts(c[1], c[2])}
FlowBefore == {c \in ActionId \X ActionId : XctOf[c[1]] = XctOf[c[2]] /\ c[1][2] < c[2][2]}

Promise == INSTANCE StrictExecution WITH
    Step      <- ActionId,
    Clash     <- FlowClash,
    Before    <- FlowBefore,
    doomed    <- {x \in Xct : Failed(x)},
    committed <- {x \in Xct : rvp[x].outcome = "committed"}

KeepsPromise == Promise!Spec

(***************************************************************************)
(* Every partition uses its lock manager as module LockManager assumes:    *)
(* keys are asked for once per action, and released only after all actions *)
(* of the transaction in the partition had theirs.  So what is proved of   *)
(* LockManager holds of every partition of a running system.               *)
(***************************************************************************)
PartActions == [p \in Partition |-> {a \in ActionId : Part(a) = p}]
Queued(a)  == \E i \in DOMAIN inq[Part(a)] : inq[Part(a)][i] = a

Occurs(a, reqs) == \E i \in DOMAIN reqs : reqs[i].action = a
Waits(a) == /\ KeyOf(a) \in DOMAIN locks[Part(a)]
            /\ Occurs(a, locks[Part(a)][KeyOf(a)].waiters)
Owns(a)  == /\ KeyOf(a) \in DOMAIN locks[Part(a)]
            /\ Occurs(a, locks[Part(a)][KeyOf(a)].owners)

LM(p) == INSTANCE LockManager WITH
    Action   <- PartActions[p],
    Tid      <- Xct,
    TidOf    <- [a \in PartActions[p] |-> XctOf[a]],
    KeysOf   <- [a \in PartActions[p] |-> {KeyOf(a)}],
    ReadOnly <- {a \in PartActions[p] : Datum(a).dlm = SHARED},
    locks    <- locks[p],
    needed   <- [a \in PartActions[p] |-> IF Waits(a) THEN 1 ELSE 0],
    phase    <- [a \in PartActions[p] |->
                    IF ~Sent(a) \/ Queued(a) THEN "new"
                    ELSE IF Waits(a) THEN "waiting"
                    ELSE IF Owns(a) THEN "ready" ELSE "released"]

UsesLockManager ==
    /\ \A p \in Partition : LM(p)!Init
    /\ [][\A p \in Partition : [LM(p)!Next]_(LM(p)!vars)]_vars

(***************************************************************************)
(* The countdown of an RVP is the number of actions of the phase that have *)
(* yet to post: not enqueued, queued, waiting for a key, or cleared to run *)
(* and with a worker.  One post too many, or an action that is skipped or  *)
(* served twice, would run the RVP early or never.                         *)
(***************************************************************************)
InHand(a) == \E i \in DOMAIN worker[Part(a)].ready :
                /\ worker[Part(a)].ready[i] = a
                /\ i = 1 => worker[Part(a)].pc \in {"serve", "post"}

CountdownExact ==
    \A x \in Xct :
        rvp[x].left = Cardinality({j \in DOMAIN Flow[x][rvp[x].phase] :
            LET a == <<x, rvp[x].phase, j>>
            IN  ~Sent(a) \/ Queued(a) \/ Waits(a) \/ InHand(a)})

(***************************************************************************)
(* Keys come back after the end, and once: an action in a committed queue  *)
(* owns its key, its transaction ended, and it is there only once.         *)
(***************************************************************************)
ComesBackOnce ==
    \A p \in Partition : \A i \in DOMAIN commitq[p] :
        LET a == commitq[p][i]
        IN  /\ Part(a) = p /\ Owns(a) /\ ~InHand(a)
            /\ rvp[XctOf[a]].outcome # "none"
            /\ \A j \in DOMAIN commitq[p] : commitq[p][j] = a => i = j

(***************************************************************************)
(* The enqueue lock "needed to enforce an ordering across trxs"            *)
(* (base_partition.h:95): no two transactions stand in opposite orders in  *)
(* two input queues.                                                       *)
(***************************************************************************)
AheadOf(x, y, p) ==
    \E i, j \in DOMAIN inq[p] : i < j /\ XctOf[inq[p][i]] = x /\ XctOf[inq[p][j]] = y

OneOrder ==
    \A p, q \in Partition, x, y \in Xct : ~(AheadOf(x, y, p) /\ AheadOf(y, x, q))

(***************************************************************************)
(* What the flows must be like for that: two phases visit the partitions   *)
(* they share in the same order and with no other partition in between, so *)
(* that the coupled locks keep whoever came second behind the first.       *)
(***************************************************************************)
InStep(f, g) ==
    \A m, k \in DOMAIN f, n, l \in DOMAIN g :
        f[m].part = g[n].part /\ f[k].part = g[l].part /\ m < k
            => n < l /\ f[k - 1].part = g[l - 1].part

CoupledFlows(flow) ==
    \A x, y \in DOMAIN flow :
        \A i \in DOMAIN flow[x], j \in DOMAIN flow[y] : InStep(flow[x][i], flow[y][j])

(***************************************************************************)
(* A partition that is prepared for the next run has been left: nobody's   *)
(* keys were taken from him, nothing is queued or running there, and       *)
(* nothing comes any more ("the latter case should not be happening",      *)
(* partition.h:471).  The shell looks at one partition after the other     *)
(* while workers and notifier finish elsewhere; what protects it is that   *)
(* clients are told last, and that there is one for every transaction.     *)
(***************************************************************************)
NewRunIsClean ==
    /\ victims = {}
    /\ \A p \in prepared : Idle(p) /\ \A k \in DOMAIN locks[p] : Clean(locks[p][k])

(***************************************************************************)
(* Every transaction ends, and all its keys are given back: no flow waits  *)
(* for ever for a key, a post or a notification.  The shell gets through   *)
(* with prepareNewRun(), unless the next worker it waits for to sleep was  *)
(* left spinning by a late push().  DORA has no deadlock detection; it is  *)
(* the flows that must not wait in a circle.                               *)
(***************************************************************************)
EveryFlowEnds ==
    <>[](Quiet /\ \A a \in ActionId : ~Owns(a) /\ ~Waits(a))
=============================================================================

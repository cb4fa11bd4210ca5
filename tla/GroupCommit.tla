----------------------------- MODULE GroupCommit -----------------------------
(***************************************************************************)
(* Group commit: a worker commits a transaction lazily and hands it to the *)
(* flusher, which makes the log durable for a group of transactions and    *)
(* only then tells their clients.  The flusher of the conventional         *)
(* execution is flusher_t (src/sm/shore/shore_flusher.cpp); that of DORA,  *)
(* dora_flusher_t (src/dora/dflusher.cpp), shares its loop and passes the  *)
(* transactions on to a notifier thread, which gives the actions back to   *)
(* their partitions before it tells the client.                            *)
(*                                                                         *)
(* The log is a position: the record of a transaction is durable once the  *)
(* durable position is past it.  How the threads wait on their queues is   *)
(* the subject of WorkerQueue; here a thread is awake when it has work, or *)
(* is stopped and stop() did not miss that it goes to sleep.               *)
(***************************************************************************)
EXTENDS Integers, Sequences, FiniteSets

CONSTANTS
    Xct,        \* the transactions that commit
    Dora,       \* whether the flusher is a dora_flusher_t
    MaxGroup,   \* flusher-group-size
    MaxLog,     \* flusher-log-size
    Stopping    \* whether the environment is stopped

ASSUME GroupAssumption ==
    /\ Dora \in BOOLEAN /\ Stopping \in BOOLEAN
    /\ MaxGroup \in Nat \ {0} /\ MaxLog \in Nat \ {0}

VARIABLES
    log,        \* the end of the log
    durable,    \* the log before it is on disk
    lsn,        \* my_last_lsn() of each transaction
    place,      \* where the worker of each transaction is with it
    toflush, flushing, tonotify,    \* the queues of flusher and notifier
    told,       \* the transactions whose client was notified, in that order
    back,       \* the transactions whose partitions were notified
    control, flusher,               \* control word and place of the flusher
    durablelsn, maxlsn, waiting, sleepNext, flush,  \* locals of its loop
    target,     \* the position its sync_log() waits for
    notifier,   \* the place of the notifier
    held,       \* the transaction the notifier popped, if any
    ncontrol,   \* control word of the notifier
    workers,    \* whether the workers and their partitions exist
    missed      \* the threads that went to sleep without stop() seeing it

queues == <<toflush, flushing, tonotify>>
disk == <<log, durable, lsn, place>>
locals == <<durablelsn, maxlsn, waiting, sleepNext, flush, target>>
notify == <<notifier, held, ncontrol>>
vars == <<disk, queues, told, back, control, flusher, locals, notify, workers, missed>>

DiskTypes ==
    /\ log \in Nat /\ durable \in Nat /\ lsn \in [Xct -> Nat]
    /\ place \in [Xct -> {"running", "committed", "sent"}]

QueueTypes ==
    /\ toflush \in Seq(Xct) /\ flushing \in Seq(Xct) /\ tonotify \in Seq(Xct)
    /\ held \in Seq(Xct) /\ told \in Seq(Xct) /\ back \subseteq Xct

LocalTypes ==
    /\ durablelsn \in Nat /\ maxlsn \in Nat /\ waiting \in Nat /\ target \in Nat
    /\ sleepNext \in BOOLEAN /\ flush \in BOOLEAN

ThreadTypes ==
    /\ control \in {"ACTIVE", "STOPPED"} /\ ncontrol \in {"ACTIVE", "STOPPED"}
    /\ flusher \in {"top", "check", "decide", "sync", "recheck", "reread", "move",
                    "join", "drain", "stopped"}
    /\ notifier \in {"top", "pop", "partitions", "client", "drain", "stopped", "crashed"}
    /\ workers \in {"up", "stopped"} /\ missed \subseteq {"flusher", "notifier"}

TypeOK == DiskTypes /\ QueueTypes /\ LocalTypes /\ ThreadTypes

Init ==
    /\ log = 1 /\ durable = 1 /\ lsn = [x \in Xct |-> 0]
    /\ place = [x \in Xct |-> "running"]
    /\ toflush = <<>> /\ flushing = <<>> /\ tonotify = <<>>
    /\ told = <<>> /\ back = {}
    /\ control = "ACTIVE" /\ flusher = "top"
    /\ durablelsn = 0 /\ maxlsn = 0 /\ waiting = 0 /\ target = 0
    /\ sleepNext = FALSE /\ flush = FALSE
    /\ notifier = IF Dora THEN "top" ELSE "stopped"
    /\ held = <<>> /\ ncontrol = "ACTIVE" /\ workers = "up"
    /\ missed = {}

-----------------------------------------------------------------------------
(***************************************************************************)
(* Workers, storage manager and environment.                               *)
(***************************************************************************)
\* commit_xct(true, &lsn): the commit record enters the log, not yet the disk.
CommitLazily(x) ==
    /\ workers = "up"
    /\ place[x] = "running"
    /\ lsn' = [lsn EXCEPT ![x] = log]
    /\ log' = log + 1
    /\ place' = [place EXCEPT ![x] = "committed"]
    /\ UNCHANGED <<durable, queues, told, back, control, flusher, locals, notify, workers, missed>>

EnqueueToFlush(x) ==
    /\ place[x] = "committed"
    /\ toflush' = Append(toflush, x)
    /\ place' = [place EXCEPT ![x] = "sent"]
    /\ UNCHANGED <<log, durable, lsn, flushing, tonotify, told, back, control, flusher,
                   locals, notify, workers, missed>>

\* The storage manager writes the log, by itself or because it is asked to.
WriteLog ==
    /\ \E d \in (durable + 1)..log : durable' = d
    /\ UNCHANGED <<log, lsn, place, queues, told, back, control, flusher, locals,
                   notify, workers, missed>>

\* The environment stops and joins the workers, then stops the flusher.
StopWorkers ==
    /\ Stopping
    /\ workers = "up"
    /\ \A x \in Xct : place[x] # "committed"
    /\ workers' = "stopped"
    /\ UNCHANGED <<disk, queues, told, back, control, flusher, locals, notify, missed>>

\* base_worker_t::stop() signals a thread only if it finds it asleep: one that
\* looked at its control word before, and sleeps after, is not woken any more.
Misses(thread, dozes) ==
    missed' \in {missed} \cup (IF dozes THEN {missed \cup {thread}} ELSE {})

StopFlusher ==
    /\ workers = "stopped"
    /\ control = "ACTIVE"
    /\ control' = "STOPPED"
    /\ Misses("flusher", flusher = "check" /\ toflush = <<>> /\ sleepNext)
    /\ UNCHANGED <<disk, queues, told, back, flusher, locals, notify, workers>>

-----------------------------------------------------------------------------
(***************************************************************************)
(* The flusher.                                                            *)
(***************************************************************************)
\* A durable transaction goes to its client, in DORA by way of the notifier.
Deliver(x) ==
    IF Dora THEN tonotify' = Append(tonotify, x) /\ UNCHANGED told
            ELSE told' = Append(told, x) /\ UNCHANGED tonotify

\* The loop begins, or ends because the flusher is stopped.
Loop ==
    /\ flusher = "top"
    /\ IF control = "ACTIVE"
       THEN /\ flusher' = "check"
            /\ durablelsn' = durable /\ maxlsn' = durable /\ flush' = FALSE
       ELSE /\ flusher' = "join"
            /\ UNCHANGED <<durablelsn, maxlsn, flush>>
    /\ UNCHANGED <<disk, queues, told, back, control, waiting, sleepNext, target,
                   notify, workers, missed>>

\* Slip: a durable transaction is put on the flushing queue as well.
CheckBoth ==
    /\ flusher = "check"
    /\ toflush # <<>>
    /\ toflush' = Tail(toflush)
    /\ flushing' = Append(flushing, Head(toflush))
    /\ IF durablelsn > lsn[Head(toflush)] THEN Deliver(Head(toflush))
                                         ELSE UNCHANGED <<told, tonotify>>
    /\ waiting' = waiting + 1
    /\ sleepNext' = FALSE
    /\ UNCHANGED <<disk, back, control, flusher, durablelsn, maxlsn, flush, target,
                   notify, workers, missed>>

\* Slip: bSleepNext is not reset once a transaction arrived.
CheckSleepsAgain ==
    /\ flusher = "check"
    /\ toflush # <<>>
    /\ toflush' = Tail(toflush)
    /\ flushing' = Append(flushing, Head(toflush))
    /\ waiting' = waiting + 1
    /\ UNCHANGED <<disk, tonotify, told, back, control, flusher, durablelsn, maxlsn,
                   sleepNext, flush, target, notify, workers, missed>>

\* _check_waiting(): pop one that is to be flushed.
Check ==
    /\ flusher = "check"
    /\ toflush # <<>>
    /\ toflush' = Tail(toflush)
    /\ LET x == Head(toflush)
       IN  IF durablelsn > lsn[x]
           THEN Deliver(x) /\ UNCHANGED <<flushing, maxlsn, waiting>>
           ELSE /\ flushing' = Append(flushing, x)
                /\ maxlsn' = IF lsn[x] > maxlsn THEN lsn[x] ELSE maxlsn
                /\ waiting' = waiting + 1
                /\ UNCHANGED <<tonotify, told>>
    /\ sleepNext' = FALSE
    /\ UNCHANGED <<disk, back, control, flusher, durablelsn, flush, target, notify, workers, missed>>

\* It leaves an empty queue, unless it is to sleep: then pop() returns without
\* a transaction only when the flusher is stopped.
CheckEmpty ==
    /\ flusher = "check"
    /\ toflush = <<>>
    /\ sleepNext => control # "ACTIVE" /\ "flusher" \notin missed
    /\ sleepNext' = FALSE
    /\ flusher' = "decide"
    /\ UNCHANGED <<disk, queues, told, back, control, durablelsn, maxlsn, waiting, flush,
                   target, notify, workers, missed>>

Full == waiting >= MaxGroup
Big == maxlsn - durablelsn >= MaxLog

\* Flush because the group is full or its log big; a timeout can be any time.
DecideFlush ==
    /\ flusher = "decide"
    /\ flush' = TRUE
    /\ flusher' = "recheck"
    /\ UNCHANGED <<disk, queues, told, back, control, durablelsn, maxlsn, waiting,
                   sleepNext, target, notify, workers, missed>>

\* Slip: the sync before the sleep does not block.
DecideLazyAsync ==
    /\ flusher = "decide"
    /\ ~Full /\ ~Big
    /\ sleepNext' = TRUE
    /\ flusher' = "recheck"
    /\ UNCHANGED <<disk, queues, told, back, control, durablelsn, maxlsn, waiting, flush,
                   target, notify, workers, missed>>

\* Otherwise the flusher will sleep in the next loop, and syncs before that.
DecideLazy ==
    /\ flusher = "decide"
    /\ ~Full /\ ~Big
    /\ sleepNext' = TRUE
    /\ IF waiting > 0 THEN flusher' = "sync" /\ target' = log
                      ELSE flusher' = "recheck" /\ UNCHANGED target
    /\ UNCHANGED <<disk, queues, told, back, control, durablelsn, maxlsn, waiting, flush,
                   notify, workers, missed>>

\* The control word is read again, and sync_log() called if a flush is due.
Recheck ==
    /\ flusher = "recheck"
    /\ IF control # "ACTIVE" THEN flusher' = "join" /\ UNCHANGED target
       ELSE IF flush THEN flusher' = "sync" /\ target' = log
       ELSE flusher' = "reread" /\ UNCHANGED target
    /\ UNCHANGED <<disk, queues, told, back, control, durablelsn, maxlsn, waiting,
                   sleepNext, flush, notify, workers, missed>>

\* Slip: only a full group is counted off after a flush.
SyncedGroup ==
    /\ flusher = "sync"
    /\ durable >= target
    /\ flusher' = IF flush THEN "reread" ELSE "recheck"
    /\ waiting' = IF flush THEN waiting - MaxGroup ELSE waiting
    /\ UNCHANGED <<disk, queues, told, back, control, durablelsn, maxlsn, sleepNext,
                   flush, target, notify, workers, missed>>

\* sync_log() returns when the log is durable up to where it was called.
Synced ==
    /\ flusher = "sync"
    /\ durable >= target
    /\ flusher' = IF flush THEN "reread" ELSE "recheck"
    /\ waiting' = IF flush THEN 0 ELSE waiting
    /\ UNCHANGED <<disk, queues, told, back, control, durablelsn, maxlsn, sleepNext,
                   flush, target, notify, workers, missed>>

Reread ==
    /\ flusher = "reread"
    /\ durablelsn' = durable
    /\ flusher' = "move"
    /\ UNCHANGED <<disk, queues, told, back, control, maxlsn, waiting, sleepNext, flush,
                   target, notify, workers, missed>>

\* _move_from_flushing(): all of them, one by one.
Move ==
    /\ flusher = "move"
    /\ IF flushing = <<>>
       THEN flusher' = "top" /\ UNCHANGED <<flushing, tonotify, told>>
       ELSE /\ flushing' = Tail(flushing)
            /\ Deliver(Head(flushing))
            /\ UNCHANGED flusher
    /\ UNCHANGED <<disk, toflush, back, control, locals, notify, workers, missed>>

\* _pre_STOP_impl(): stop and join the notifier, then tell everybody.
StopNotifier ==
    /\ flusher = "join"
    /\ ncontrol' = "STOPPED"
    /\ Misses("notifier", notifier = "pop" /\ tonotify = <<>>)
    /\ flusher' = "drain"
    /\ UNCHANGED <<disk, queues, told, back, control, locals, notifier, held, workers>>

\* Slip: the notifier is not joined.
DrainAtOnce ==
    /\ flusher = "drain"
    /\ flushing = <<>> /\ toflush = <<>>
    /\ flusher' = "stopped"
    /\ UNCHANGED <<disk, queues, told, back, control, locals, notify, workers, missed>>

Drain ==
    /\ flusher = "drain"
    /\ notifier = "stopped"
    /\ \/ /\ flushing # <<>>
          /\ flushing' = Tail(flushing) /\ told' = Append(told, Head(flushing))
          /\ UNCHANGED <<toflush, flusher>>
       \/ /\ flushing = <<>> /\ toflush # <<>>
          /\ toflush' = Tail(toflush) /\ told' = Append(told, Head(toflush))
          /\ UNCHANGED <<flushing, flusher>>
       \/ /\ flushing = <<>> /\ toflush = <<>>
          /\ flusher' = "stopped"
          /\ UNCHANGED <<flushing, toflush, told>>
    /\ UNCHANGED <<disk, tonotify, back, control, locals, notify, workers, missed>>

Flush ==
    \/ Loop \/ Check \/ CheckEmpty \/ DecideFlush \/ DecideLazy
    \/ Recheck \/ Synced \/ Reread \/ Move \/ StopNotifier \/ Drain

-----------------------------------------------------------------------------
(***************************************************************************)
(* The notifier of DORA.                                                   *)
(***************************************************************************)
LoopNotifier ==
    /\ notifier = "top"
    /\ notifier' = IF ncontrol = "ACTIVE" THEN "pop" ELSE "drain"
    /\ UNCHANGED <<disk, queues, told, back, control, flusher, locals, held, ncontrol, workers, missed>>

\* pop() blocks while the queue is empty and the notifier is not stopped.
PopToNotify ==
    /\ notifier = "pop"
    /\ IF tonotify # <<>>
       THEN /\ held' = <<Head(tonotify)>> /\ tonotify' = Tail(tonotify)
            /\ notifier' = "partitions"
       ELSE /\ ncontrol # "ACTIVE" /\ "notifier" \notin missed
            /\ notifier' = "top"
            /\ UNCHANGED <<held, tonotify>>
    /\ UNCHANGED <<disk, toflush, flushing, told, back, control, flusher, locals,
                   ncontrol, workers, missed>>

NotifyPartitions ==
    /\ notifier = "partitions"
    /\ workers = "up"
    /\ back' = back \cup {held[i] : i \in DOMAIN held}
    /\ notifier' = "client"
    /\ UNCHANGED <<disk, queues, told, control, flusher, locals, held, ncontrol, workers, missed>>

\* The queues of partitions that were stopped have no owner, and are deleted
\* with their tables: the action is put on nobody's queue, or the process dies.
NotifyGonePartitions ==
    /\ notifier = "partitions"
    /\ workers = "stopped"
    /\ notifier' \in {"client", "crashed"}
    /\ UNCHANGED <<disk, queues, told, back, control, flusher, locals, held, ncontrol,
                   workers, missed>>

NotifyClient ==
    /\ notifier = "client"
    /\ told' = told \o held
    /\ held' = <<>>
    /\ notifier' = "top"
    /\ UNCHANGED <<disk, queues, back, control, flusher, locals, ncontrol, workers, missed>>

\* _pre_STOP_impl(): the clients of the others are told, not the partitions.
DrainNotifier ==
    /\ notifier = "drain"
    /\ IF tonotify # <<>>
       THEN /\ told' = Append(told, Head(tonotify)) /\ tonotify' = Tail(tonotify)
            /\ UNCHANGED notifier
       ELSE notifier' = "stopped" /\ UNCHANGED <<told, tonotify>>
    /\ UNCHANGED <<disk, toflush, flushing, back, control, flusher, locals, held, ncontrol,
                   workers, missed>>

Notify ==
    \/ LoopNotifier \/ PopToNotify \/ NotifyPartitions \/ NotifyGonePartitions
    \/ NotifyClient \/ DrainNotifier

\* Nothing happens any more after a crash.
Alive == notifier # "crashed"

Next ==
    /\ Alive
    /\ \/ \E x \in Xct : CommitLazily(x) \/ EnqueueToFlush(x)
       \/ WriteLog \/ StopWorkers \/ StopFlusher
       \/ Flush
       \/ Notify

Spec == Init /\ [][Next]_vars

\* Threads are scheduled and the disk writes; nobody need commit or stop, but
\* who stopped the workers goes on to the flusher.
Fairness ==
    /\ \A x \in Xct : WF_vars(Alive /\ EnqueueToFlush(x))
    /\ WF_vars(Alive /\ WriteLog)
    /\ WF_vars(Alive /\ StopFlusher)
    /\ WF_vars(Alive /\ Flush)
    /\ WF_vars(Alive /\ Notify)

FairSpec == Spec /\ Fairness

-----------------------------------------------------------------------------
(***************************************************************************)
(* A client hears of its commit only when the commit record is durable, so *)
(* a crash loses no transaction that was acknowledged: the client is told  *)
(* "only after we know that the xct had been flushed" (terminal_rvp_t,     *)
(* src/dora/rvp.cpp).                                                      *)
(***************************************************************************)
DurableWhenTold == \A i \in DOMAIN told : lsn[told[i]] < durable

(***************************************************************************)
(* The same as long as the flusher is not told to stop.                    *)
(***************************************************************************)
DurableWhileActive == control = "ACTIVE" => DurableWhenTold

(***************************************************************************)
(* Every transaction handed to the flusher is in one place: on one queue,  *)
(* with the notifier, or told, once.  In particular no request is given    *)
(* back to its pool twice.                                                 *)
(***************************************************************************)
OnePlace ==
    LET all == toflush \o flushing \o tonotify \o held \o told
        sent == {x \in Xct : place[x] = "sent"}
    IN  /\ {all[i] : i \in DOMAIN all} = sent
        /\ Len(all) = Cardinality(sent)

(***************************************************************************)
(* The queues are empty when the flusher ends ("they better be empty by    *)
(* now", destructors of flusher and notifier).                             *)
(***************************************************************************)
EmptyAtStop ==
    flusher = "stopped" => toflush = <<>> /\ flushing = <<>> /\ tonotify = <<>>

(***************************************************************************)
(* Every client hears of its commit, also while the flusher sleeps, and    *)
(* also when the flusher is stopped or stop() misses that it sleeps; in    *)
(* DORA the partitions get their actions back, unless they were stopped.   *)
(* Two things only may keep an answer back, both when the system stops:    *)
(* stop() misses that the notifier goes to sleep, so that the flusher      *)
(* waits for it for ever; or the notifier still had a transaction for      *)
(* partitions that were stopped before, and the process died of it.        *)
(***************************************************************************)
Heard(x) == \E i \in DOMAIN told : told[i] = x

EveryClientHears ==
    \A x \in Xct : place[x] = "sent" ~>
        \/ Heard(x) /\ (Dora => x \in back \/ workers = "stopped")
        \/ flusher = "drain" /\ "notifier" \in missed
        \/ workers = "stopped" /\ notifier = "crashed"
=============================================================================

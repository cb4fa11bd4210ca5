# Shore-Kits: a verification of the DORA execution engine and its services

Shore-Kits runs database benchmarks (TM1, TPC-B, TPC-C, TPC-H, SSB, TPC-E) on
the Shore-MT storage manager. Next to the conventional execution, where one
thread runs a whole transaction, it implements DORA (data-oriented execution):
the tables are split into partitions, each partition has one worker thread and
a private lock manager, and a transaction is a flow of *actions*, one per
partition it touches, joined by *rendezvous points* (RVPs). This project models
DORA and the services it rests on in TLA+, checks the models with TLC on small
instances, and proves theorems about them with TLAPS.

## 1. Inventory

Paths below are relative to `src/` (so `src/dora/rvp.cpp` is
`src/src/dora/rvp.cpp` from the directory above this one).

### 1.1 DORA (`src/dora`, `include/dora`)

| component | state it keeps | operations | what makes it correct |
|---|---|---|---|
| logical locks (`logical_lock.cpp`, `logical_lock.h`) | per key: mode, owners, FIFO waiters | `acquire`, `release` (with promotion), `abort_and_reset` | owners compatible; nobody overtakes; no waiter left behind |
| lock manager (`lockman.h`) | key to lock map; `_keys_needed` of each action | `acquire_all`, `release_all`, `reset` | counters equal the queues; an action runs exactly when it has all its keys |
| partition (`partition.h`, `base_partition.cpp`) | input queue, committed queue, enqueue lock, owner and standby workers, policy | `enqueue`, `dequeue`, `enqueue_commit`, `dequeue_commit`, `reset`, `prepareNewRun`, `stop` | actions run in the order they were enqueued; nothing is lost; a reset leaves a clean partition |
| worker (`worker.cpp`, `worker.h`) | control, work state, the action served | `_work_ACTIVE_impl`, `_serve_action`, `doRecovery`, `_pre_STOP_impl` | committed actions release before new ones acquire; a finished action posts its RVP once |
| rendezvous points (`rvp.cpp`, `rvp.h`, `countdown.cpp`) | countdown, decision, list of actions | `post`, `abort`, `run`, `notify_partitions`, `notify_on_abort` | run once, by the last action; aborted flow never commits; all actions return to their partitions |
| DORA flusher and notifier (`dflusher.cpp`) | toFlush, flushing, toNotify queues | `enqueue_toflush`, `_check_waiting`, notifier loop | a transaction is notified only when its commit record is durable |
| actions (`base_action.h`, `action.h`, `range_action.h`) | keys needed, transaction, requests | `trx_acq_locks`, `trx_rel_locks`, `gotkeys` | locks taken and given back once |
| partition tables and routing (`part_table.cpp`, `range_part_table.cpp`, `dkey_ranges_map.cpp`, `dora_env.cpp`) | partition vector, range map | `create`, `repartition`, `getPartIdByKey`, `start`, `stop` | every key is in one partition |
| transaction flows (`dora/tpcb`, `dora/tm1`, `dora/tpcc`) | the graph of actions of each transaction type | dispatch (`dora_*_xct.cpp`), `run()` of midway RVPs, `trx_exec` | serializable; no flow waits for another in a circle |

### 1.2 Services (`src/sm/shore`, `src/util`)

| component | state it keeps | operations | what makes it correct |
|---|---|---|---|
| single-reader multi-writer queue (`srmwqueue.h`) | for_writers, for_readers, empty flag | `push`, `pop`, `wait_for_input` | FIFO; nothing lost or seen twice; a sleeping reader is woken |
| worker base (`shore_worker.h`, `shore_worker.cpp`) | control, work state, condex | `set_ws`, `set_control`, `condex_sleep`, `start`, `pause`, `stop` | a signal is not lost; stop ends the thread |
| flusher (`shore_flusher.cpp`) | toflush and flushing lists, durable lsn | group-commit loop, `_pre_STOP_impl` | no client hears of a commit before it is durable |
| transaction workers (`shore_trx_worker.cpp`) | input queue | `_work_ACTIVE_impl` | every request is served |
| environment (`shore_env.cpp`), client (`shore_client.cpp`), helper loaders | control state machine, counters | `start`, `stop`, `measure` | threads start and stop in order |
| tables, indexes, rows, sort buffers (`shore_table.cpp`, ...) | tuples | marshalling, scans | data access, sequential |
| resource pool (`resource_pool.cpp`), caches, block allocators | reserved and free counts, waiters | `reserve`, `unreserve`, `acquire` | never more than the capacity; FIFO among waiters |
| countdown (`countdown.cpp`) | one word: remaining and error bit | `post`, `reset` | exactly one caller is the last |
| shell, parser, tracing, statistics | configuration | commands | text handling |

### 1.3 QPipe (`src/qpipe`)

Staged query execution: a packet per operator of a plan is queued at the stage
container of its operator (`stage_container.cpp`), may be merged with a running
packet of the same signature, and passes tuples through bounded buffers
(`tuple_fifo.cpp`) whose pages move between a writer and a reader under one
lock. Correct means: no tuple lost or repeated, readers and writers never sleep
on each other, a merged packet receives exactly the tuples it would have
computed, and a query cancelled at one end terminates at the other.

### 1.4 Workloads (`src/workload`)

The conventional transactions and the data generators (`dbgen`, `egen` are
vendored). They are sequential code over Shore-MT.


### 1.5 How the components interact, and where it is hard

- **Calls.** A worker calls the lock manager of its own partition, never
  another one; the lock manager is therefore sequential, but the *order* in
  which its calls come depends on everybody else.
- **Queues.** Partitions, flusher and notifier exchange actions and
  transactions through `srmwqueue`s. A writer appends under a lock and then
  announces what it did through an unlocked word (`_ws`), while the reader
  decides to sleep: the classical place for a lost wakeup.
- **Shared counters.** The actions of one phase race on the countdown of
  their rendezvous point; the last one runs it on its own thread, whichever
  partition that is.
- **Locks of several objects.** The dispatch of a flow couples the enqueue
  locks of the partitions it visits, one hand over the other.
- **Ends of transactions.** Keys are released by the partition's worker after
  the end of the transaction, from its committed queue, which is filled by the
  thread of the terminal RVP, or by the notifier when the flusher is on.
- **Stops.** Workers, flusher and notifier are stopped by the environment in a
  fixed order, through control words that they read between other steps.
- **Failures.** An action may return an error at any point of a flow; a QPipe
  consumer may terminate its buffer and a stage may throw. Nothing in the code
  recovers a process after a crash (Shore-MT does); the only thing a crash
  touches here is what the client had been told, which is `DurableWhenTold`.

The hazards of `PROJECT.json` name the lines at which each of these bites.

## 2. Plan

Most important first: what DORA promises, then what it rests on, then QPipe.

| | modules | state |
|---|---|---|
| 1 | `LogicalLock`, `LockManager` | done: checked and proved |
| 2 | `StrictExecution` (abstract), `DoraFlow` (implements it and drives `LockManager`) | done: checked and proved |
| 3 | `WorkerQueue` | done: checked and proved |
| 4 | `GroupCommit` | done: checked and proved |
| 5 | `ResourcePool`, `StageContainer` | done: checked and proved |
| 6 | `TupleFifo`: the bounded buffer with its hysteresis (`_threshold`, capacity), end of stream against terminate, deletion by exactly one side | done: checked and proved |
| 7 | the end of a run (`prepareNewRun`, `is_clean`, `abort_and_reset`) | done, in `DoraFlow`; `stop`, `reset` and a `doRecovery` of queues that are not empty are planned |
| 8 | `Countdown`: the compare-and-swap loop of `countdown_t`, implementing the atomic post of `DoraFlow` | planned |
| 9 | `Tpcc`: the bodies and keys of Payment, NewOrder, OrderStatus and StockLevel over `StrictExecution` | done: checked; isolation and rollback of the data, row by row, proved. The bodies of TM1 and TPC-B are planned as further instances |
| 10 | routing: `dkey_ranges_map`, partition choice and repartitioning, as functions checked against a definition of "every key in one partition" | planned |
| 11 | environment control and the conventional worker (`trx_worker_t`), composed with `GroupCommit` | planned |

*Compositions.* `DoraFlow` composes the partitions of a whole flow, with the
operators of `LogicalLock` as the values of its locks, and is related to both
`LockManager` (below it) and `StrictExecution` (above it). `StageContainer`
composes its packets, its stage adaptors and the `ResourcePool`. `Tpcc` puts
data under the steps of `StrictExecution`: what the engine (`DoraFlow`) is shown
to promise is what the transactions (`Tpcc`) are shown to need.

*Abstract specifications.* `StrictExecution` is the one for DORA. Worth stating
next: "a counter that exactly one caller takes to zero" for `Countdown`.

*Theorems to come.* Every invariant and every action property that a run checks
is proved, except the two of `Tpcc` that are out of the prover's reach (6).
The theorems about the data of `Tpcc` go beyond its runs: repeatable reads,
rollbacks and commuting actions, for all inputs. Left is, once it is written,
that `Countdown` implements the post of `DoraFlow`.

## 3. What is modelled

In every module each action that stands for code names it, and the `map` of
`PROJECT.json` gives its lines. A definition preceded by `\* Slip:` is a
plausible bug of the action after it; no specification uses it, and each
property is shown to fail when the slip takes its action's place.

### 3.1 Logical locks: `LogicalLock`, `LockManager`

`LogicalLock` has no variables: a lock is a record of the mode (`_dlm`), the
owners and the waiters, and `Acquire`, `Release`, `MustWait`, `HeadCanAcquire`
are the methods of `LogicalLock`. `Release` erases the transaction's owners,
recomputes the mode (`_upd_dlm`) and promotes waiters from the front until one
conflicts; it is written with the least position that stays, not as a loop, so
that it can be proved about.

`LockManager` is `lock_man_t` of one partition: `locks` is its map from keys to
locks, `needed` the `_keys_needed` of each action, `phase` where an action is
between `acquire_all` and `release_all`. `AcquireAll` and `ReleaseAll` are those
two calls as a whole. An action is released only after every action of its
transaction in this partition had its keys: that is what `DoraFlow` shows of
its callers (`UsesLockManager`, proved as `PartitionsUseLockManager`).

*Run `lock_manager`*: five actions of five transactions on two keys (two
updaters, a reader, a reader and an updater of both keys), in every order of
arrival and of ends. Two keys let one action be owner of one and wait for the
other; five actions give queues with a reader behind a writer behind a reader.
`HeadIsBlocked` and `OwnersSound` are the heart of the code (the promotion loop
and the shortcut for compatible requests), `NeededIsQueued` relates its two
books. `NoOvertaking` is an action property: when an action gets a key, whoever
stood before it in the queue is compatible with it or has the key too.
`EveryWaiterRuns` is the liveness.

### 3.2 Flows: `StrictExecution`, `DoraFlow`

`StrictExecution` is what a client may rely on: steps of a transaction run
phase by phase, a step runs only when every conflicting transaction that came
first has ended, and a commit means all steps ran without error. That this is
already enough for serializability, in the order of the ends, is proved, and
checked on the transactions of TPC-C (3.7), where it also makes them atomic on
the data; that the engine keeps to it is checked on two workloads and proved
for all (6).

`DoraFlow` is the engine. For each transaction, `rvp` is its current rendezvous
point: the phase, how many of its actions were enqueued (`sent`), the countdown
(`left`), the abort decision, the outcome and how many partitions were notified
(`told`). For each partition there are the input queue, the committed queue,
the locks and the worker with the actions it has cleared to run (`ready`).
`ClientDispatch`/`WorkerDispatch` enqueue one action under coupled enqueue locks
(`LockedBy`); `ReleaseCommitted` and `Dequeue` are the two halves of
`_work_ACTIVE_impl`, `Execute` and `EarlyAbort` of `_serve_action`;
`PostNotLast`, `PostRunsMidway` and `PostEnds` are `post()` with what the
last poster does; `WorkerNotify` and `NotifierNotify` are `notify_partitions`.

When its clients have been told, a run is over (`Waited` names the transactions
a client waits for) and the shell goes through the partitions:
`PrepareNewRun` is `prepareNewRun()` of one of them as one step. It waits for
the worker to sleep, and then, in `clear()`, looks whether a key is still held:
the owners would be aborted (`victims`) and the lock wiped. Tables and
partitions come in a fixed order, since what is done for one does not touch
another.

An idle worker need not sleep: a `push()` sets the working state after it gave up
the lock of the queue, and a worker that has taken the action by then, and given
its key back, spins in the state INPUT_Q (5, `worker_spins`). `spins` are the
workers to which that happened, `Sleeping` excludes them, and `LatePush` is the
late step of a `push()`. Only the shell looks whether a worker sleeps, and a
later action would end the spinning, so `LatePush` is taken when the shell has
come to the partition and nothing else will: that is when it does harm.

- *Run `dora_flows`*: two workloads, chosen at the start (`Mix`, `submitted`),
  with the flusher. UpdSubData, InsCallFwd (which may fail) and DelCallFwd of
  one TM1 subscriber: one to three phases of one action, which meet in two of
  three tables in shared and exclusive modes. And two Payments of one customer,
  one of which may fail: this is where posts of one phase race and where a late
  action of an aborted flow must still post. The flow implements
  `StrictExecution` and drives `LockManager` correctly, under fairness every
  flow ends with its keys given back, and the next run finds every partition
  clean (`NewRunIsClean`). `EveryFlowEnds` also says that the shell comes through
  all partitions, or stands before one whose worker spins, for ever: the code
  promises no more.
- *Run `dora_tpcb`* (violation): see 5.

The flows are constants. `OneActionPerKey` is what the dispatch functions do:
a transaction comes to a partition in one phase only, and with one action for
each key there (it must be so: a lock notes a transaction as its
owner once, and the first of its actions to release takes it out). `CoupledFlows` compares phases of two flows: where
they share two partitions they visit them in the same order, and come to the
second one from the same partition, whose enqueue lock they still hold.
`MCDoraFlow` checks that TM1 and Payment are so and that TPC-B, whose teller is in
one of several partitions, is not.

One key per table is enough because two actions on different keys do not meet;
several keys of one action are `LockManager`'s subject. Two or three
transactions suffice for every pairwise conflict and for a queue behind a
waiter. `NewRunIsClean` rests on two things the run has: a client for every
transaction (the code lets a client wait for the last one of its batch only,
`shore_client.cpp:77`, and batches have ten by default), and the flusher, with
which the partitions are notified before the client (without it it is the other
way round, `rvp.cpp:308`). With `Waited` a smaller set, or with `Flusher = FALSE`,
TLC finds that the property does not hold of the model. `Finished` lets the
system rest when all is done, so deadlock is checked.

### 3.3 Sleeping workers: `WorkerQueue`

`writers` and `readers` are the two buffers of each `srmwqueue`, `ws` and
`control` the words of `base_worker_t`, `signals` and `waits` the counters of
`condex`. Every unlocked read or write is its own action: `AppendAction`,
`SetWs`, `WakeUp` are `push()`; `Take`, `SeeFilled`, `Swap` are `pop()`: from the
reader's own buffer, or by looking at `_empty` without the lock, and then, under
the lock, swapping for what the writers have appended by that time;
`FindEmpty`, `CheckControl`, `CheckOther`, `Sleep`, `Wait`, `Awake` are
`wait_for_input()` on an empty queue, down to the condition variable;
`Stop`, `CheckSleeping`, `StopSignals` are `stop()`. The worker does its loop
for ever, what it does with an action is `DoraFlow`.

*Run `worker_queue`*: two input and two committed actions, one spin before
sleeping, a stop at any time. Two actions per queue let the buffers be swapped
while one is behind; one spin lets the worker both retry and sleep. The two
violation runs, with one action per queue, are in 5.
`CHECK_DEADLOCK FALSE`: a stopped or idle worker does stand still.

### 3.4 Group commit: `GroupCommit`

The log is a position, `durable` what is on disk. `CommitLazily` and
`EnqueueToFlush` are the terminal RVP of a committed transaction (or
`trx_worker_t`'s commit); `Loop`, `Check`, `CheckEmpty`, `DecideFlush`,
`DecideLazy`, `Recheck`, `Synced`, `Reread`, `Move` the loop of
`flusher_t::_work_ACTIVE_impl` in its order, with `bSleepNext`, `waiting`, the two
syncs and the early return; `StopNotifier`, `Drain` its `_pre_STOP_impl`; the
notifier is the DORA one. `Dora` chooses between `dora_flusher_t` and
`flusher_t`.

Abstractions: waiting on the queues is reduced to "not empty, or stopped in
time" (3.3 is about it); a timeout may strike at any time, so a flush needs no reason;
tables and their workers stop as one step; `sync_log()` returns when the log is
durable to where it was called.

Flusher and notifier are stopped by the same `base_worker_t::stop()` as all
workers, which may miss that they go to sleep (5, `worker_stop_hangs`): `missed`
are the threads to which that happened (`Misses`), and they are not woken any
more. The environment stops and deletes the partitions before the flusher
(`dora_env.cpp:235`), so that a notifier that still has a transaction then
returns its actions to queues without an owner, or to deleted ones:
`NotifyGonePartitions` goes on without result, or the process is gone
(`crashed`, after which nothing happens).

*Run `group_commit`*: two transactions, groups of two, a log that is big after
two records, a stop at any time, DORA. Two transactions let a group be full, or
one wait for the notifier while the other commits behind the sync.
`EveryClientHears` makes two exceptions, both at a stop: the notifier was missed,
so that the flusher waits for it for ever and answers nobody; or it died of the
partitions that were gone. A flusher that is missed costs nobody an answer: it
sleeps on empty queues. With `Dora = FALSE` the
same properties hold. `CHECK_DEADLOCK FALSE`: the environment is stopped in
the end, or nothing commits any more.

### 3.5 QPipe stages: `ResourcePool`, `StageContainer`

`ResourcePool` is `resource_pool_t`: its operators change the pool's variables
and are called by the actions of `StageContainer`; `waking` is TRUE while a
thread is inside `waiter_wake()`, with the container's lock.

`StageContainer` has the container queue, the running adaptors, and for each
packet the fields that decide what it gets (`onMerge`, `needed`). `Reserve` is
`_reserve()`; `EnqueueAlone`, `MergeQueued`, `Merge`, `Release` are `enqueue()`
with its three outcomes and the late `unreserve`; `Dequeue` is `run()`;
`OutputPage`, `Deliver`, `Erase`, `PageDone` are `output_page()`, whose walk over
the list is not under the lock; `StopAccepting`, `Cleanup`, `Abort` the
end of a stage.

Abstractions: a page stands for its tuples; a stage adaptor is named by its
primary packet; the stage produces pages `1..Pages` as a scan does; output
buffers are reduced to how they ended, and the consumers read or terminate, so a
full buffer does not block the stage. The condition variable of the container
queue is reduced to its condition, since every push signals under the lock and
waiters check again. A writer learns of a terminated buffer now or later. A
worker of an aborted list is free again when it was cleaned up. The
unlocked `erase` of `output_page()` against the locked `push_front` of a merge is
a data race: besides the two orders, the model has the outcomes "the new packet
is lost" and "the list is broken" (`crashed`, after which nothing is said).
Spurious wakeups of `wait_for_turn()` are not modelled.

- *Run `stage_container`*: three queries, four packets (one that never merges,
  in a query of two), three pages, two workers, one consumer that may quit and
  one stage that may throw. Three pages separate "merged before the first
  page", "in the middle" and "before the last"; three packets of one plan
  give a merge into a second run; two workers make the third query wait.
- *Run `stage_loses_pages`* (violation): see 5.

`CHECK_DEADLOCK FALSE`: all queries are answered in the end, or
reservations are lost for good (`OnlyTheHurtLeak` says when).

### 3.6 Tuple buffers: `TupleFifo`

One `tuple_fifo` between a writer and a reader, in memory
(`FLUSH_TO_DISK_ON_FULL` is FALSE in the source). `pages` is `_pages`, of which
the number of a page is all that matters; the writer's current page is the
sentinel, partly filled or full, and a partly filled one is pushed only by
`send_eof()`. `Flush`, `FlushResumes` are `_flush_write_page()` before and after
its wait, `GetPage`, `GetPageResumes`, `TimedOut` are `_get_read_page()` with its
three kinds of timeout, `Terminate` and `Delete` are `terminate()`, and what
`send_eof()` and `terminate()` answer decides who deletes. All under the one lock,
which a wait gives up; a wait may end for no reason (`Spurious`), and a timed
wait at any moment (`thread.cpp:351` hands a relative time to
`pthread_cond_timedwait()` as an absolute one, so it ends at once). After a
time-out the code leaves its loop without looking at the state again, and so
does `TimedOut`. Either side may fail or quit between two calls.

*Run `tuple_fifo`*: room for ten pages, a threshold of six, 14 pages at most.
The code has 100 and 64: in both the threshold is more than half and less than
all of the room, so that the sides wait for overlapping amounts, and 14 pages let
the writer wait and go on. `SomeoneGoesOn` is the heart of the hysteresis, `OneDeletes` that
of the protocol at the end. `CHECK_DEADLOCK FALSE`: the buffer is deleted in the
end.

### 3.7 The TPC-C transactions: `Tpcc`

DORA's actions use the tables without the storage manager's locks (the functions
that end in `_nl`); what keeps transactions apart is the key that `calc_keys()`
gives each action. `Tpcc` therefore models the transactions on the data, over
the executions that `StrictExecution` allows, which `DoraFlow` shows the engine
to implement.

`db` maps rows, named by table and primary key, to the columns that are
computed with. `Payment`, `NewOrder`, `OrderStatus` and `StockLevel` are the
flows with the keys and modes of their actions; the operators named after an
action are what its `trx_exec()` writes, and `found_by_...` what it leaves in the
RVP (`rvp`) for later phases. `Exec` runs one action: as a whole, or, if it fails,
up to any of its writes; `before` is what the storage manager logs, and
`AbortXct` has it undone. A step that conflicts waits for the end of the other
transaction (`Run` of `StrictExecution`).

Left out: Delivery, which is not implemented under DORA (`dora_delivery()` is
`assert(0)`), the prices of items and totals of orders (the item table never
changes), names, dates and districts' taxes. A customer chosen by last name is
the one customer there is, whose id the RVP lacks until it was looked up.

*Run `promise`*: five mixes of two or three transactions out of seven. Two
Payments of one warehouse in different districts (one for a customer with bad
credit, chosen by name), a Payment whose input selects a customer of another
warehouse against one of that warehouse (the inputs of `tpcc_input.cpp` without
its switch `USE_ONLY_LOCAL_WHS`), Payment with NewOrder and OrderStatus of one
customer, NewOrder with one that is rolled back (its last item does not exist),
and NewOrder with StockLevel. An order names an item twice, and the stock falls
below ten. `AsIfSerial` compares the database and all that was found with the
transactions run alone, one after the other; `Consistent` relates the tables:
money received to history, order ids to orders and lines, stock to lines.
`OnlyCommitsShow` is atomicity on the data: without the writes of unfinished
transactions, a row changes only when a transaction that wrote it commits,
whatever fails half-way and is rolled back between the unlocked writes of others.
`CHECK_DEADLOCK FALSE`: all transactions end.

What the model made visible, without being a disagreement with a text of the
repository:

- The test of `_v_cust_wh_selection` in Payment (`dora_payment.cpp:257`, and the
  conventional `shore_tpcc_xct.cpp:1011`) is the reverse of the one that makes the
  input (`tpcc_input.cpp:348`), so that no remote customer is ever paid for.
  That is what makes the key of the customer action, the home district, the
  right one: `WritersOfARowClash` uses it, and `AsIfSerial` fails without it.
- The history of a customer with bad credit who was chosen by name names
  customer 0 (`dora_payment.cpp:392` is in the other branch); the conventional
  Payment writes his id. `Consistent` leaves him out.
- The id of an order is the district's next id *after* the increment, so that
  the first id after loading is skipped, and the range of StockLevel, which
  includes both ends, covers the last order.

## 4. Fairness

Weak fairness, which is what an operating system's scheduler gives a thread
that can run. Where a behaviour can go round in circles it is stated per thread:
in `WorkerQueue` the `push()`es, the worker and the thread that called `stop()`
until it has returned; in `GroupCommit` each client after its commit, the
flusher, the notifier, the stopping environment and the log writer once it is
asked (`WriteLog`, the storage manager's flush daemon; `sync_log()` blocks on
it); in `TupleFifo` the next call of each side. Where every step happens finitely
often it is enough, and assumed, that the system goes on while some thread can:
`WF_vars(Next)` in `LockManager` (an action asks once and releases once; that the
transaction of an action that runs ends is justified by `DoraFlow`'s
`EveryFlowEnds`) and in `DoraFlow` (each step of a flow happens once), and in
`StageContainer` the steps of clients that dispatch what they reserved for, of
the workers and of the pool, whose consumers read or terminate their buffers.
No fairness is assumed on failures, commits, quits, on new queries, or on anybody
deciding to stop. `StrictExecution` and `Tpcc` state no fairness and no
liveness; those are the engine's.

No property needs strong fairness: the queues are FIFO, and the locks of the
code are held for a step only, except the enqueue locks of `DoraFlow`, which
are taken in the order of the dispatch.

## 5. Where code and documentation disagree

Each is a run that TLC ends with a counterexample; the quotes are in
`PROJECT.json`, "findings".

| run, property | what happens |
|---|---|
| `dora_tpcb`, `OneOrder` | The enqueue lock is to give "an ordering across trxs". Two TPC-B transactions of one branch whose tellers are in different partitions overtake each other between branch and account. If they also share the account, they wait for each other, and DORA detects no deadlocks. |
| `worker_stop_hangs`, `StopStops` | `stop()` signals the worker only if it finds it in the state SLEEP. A worker that has read the control word and not yet fallen asleep sleeps afterwards, for ever. |
| `worker_spins`, `IdleWorkerSleeps` | A slow `push()` sets the working state after its action was taken. Until the next action the idle worker neither sleeps nor returns from `wait_for_input()`, and `prepareNewRun()` waits for it to sleep. |
| `group_commit_too_early`, `DurableWhenTold` | A flusher that is stopped between its decision and the sync tells the clients of what it holds, without a flush. |
| `stage_loses_pages`, `WholeStream` | A packet that merges into the second run of another one, during the last page that one needs, is told the end of its stream without the pages after it. |

The weaker properties `DurableWhileActive` and `WholeUnlessCut`, which except
just these cases, hold in the passing runs.

## 6. What is proved

For every value of the constants that the modules' assumptions admit: any sets
of actions, transactions and packets, any finite sets of keys and partitions, any
flows, any thresholds and limits. Every invariant and every action property of
the passing runs is among the statements, except `AsIfSerial` and `Consistent`
of `Tpcc`, and so are the refinements.

| theorem | states | argument |
|---|---|---|
| `LockManagerProofs!TypeCorrect`, `NoLostPromotion`, `Isolation` | `TypeOK`, `HeadIsBlocked`, `OwnersSound` | One invariant `IInv = TypeOK /\ EntriesOK /\ LocksOK`. `HeadIsBlocked` is not inductive alone: promotion looks at the mode of the lock only, so the mode must be that of the owners, and owners and waiters must be requests of the right actions. The lemmas `PromoteSound`, `ReleaseSound`, `AcquireSound` say it of the operators of `LogicalLock`; the actions only apply them to each key. |
| `LockManagerProofs!NeededIsRight` | `NeededIsQueued` | `NeedInv` on top of `IInv`: an action is in a lock's lists at most once, only in locks of keys it asked for, and its counter is the number of locks whose waiters it is among. `Moved` says of promotion that it takes the first so many waiters, each once, so that each is counted down once. |
| `LockManagerProofs!FirstComeFirstServed` | `NoOvertaking` | From `IInv` and `NeedInv`: an action that gets its key at once finds no waiter that it would pass (`AcquirePassesNobody`), and promotion takes the first waiters of the queue. |
| `DoraFlowProofs!FlowsKeepTheirPlaces` | the inductive invariant `FlowInv` | It follows an action from its dispatch to the queue, the waiters, the worker's hand and back (`PlaceInv`), says what each worker runs on behalf of others (`DriverInv`), that locks, queues and clearances agree (`LocksInv`, `QueueInv`), what has run (`RanInv`), and what countdown and decision mean (`CountInv`, `EndInv`). One lemma per action and part. |
| `DoraFlowProofs!FlowTypeCorrect`, `CountedExactly` | `TypeOK`, `CountdownExact` | Read off `FlowInv`. |
| `DoraFlowProofs!DoraKeepsPromise` | `KeepsPromise`: `DoraFlow` implements `StrictExecution` | `Execute` is its step, the posts that end a flow are its ends, everything else stutters. That nothing which conflicts is skipped needs `LocksInv` (the keys an action holds are compatible with what others hold) and `PlaceInv` (a flow keeps what it took until it ends). |
| `DoraFlowProofs!FlowsAreSerializable`, `FlowsAreAtomic` | `EndOrderSerializes`, `AllOrNothing` of the flows | Through `DoraKeepsPromise` and what is proved of `StrictExecution`. That a commit needs all actions and no failure is a guard there; that the engine never commits otherwise, with its early aborts and racing posts, is the refinement. |
| `DoraFlowProofs!KeysComeBackOnce`, `NewRunsStartClean` | `ComesBackOnce`, `NewRunIsClean` | `BackInv`: when a flow has ended, each action owns its keys until it is told, and from then on exactly while it is on the committed queue, where it is once. A client is answered after the last partition (`RunInv`), so that when a run is over everything has been told. |
| `DoraFlowProofs!PartitionsUseLockManager` | `UsesLockManager`: each partition is a `LockManager` | A step is `AcquireAll`, `ReleaseAll` or nothing at each partition; `BackInv` shows that an action is released once, and after its whole transaction had its keys there. |
| `DoraFlowProofs!CouplingOrders` | `OneOrder`, if `CoupledFlows(Flow)` | `OrderInv`: nobody shares an enqueue lock, and of two transactions the one that leads at one partition (it was enqueued first, as far as that can still be seen) leads wherever they meet. The condition is needed: `dora_tpcb` is its counterexample. |
| `DoraFlowProofs!ClientsWhoWait` | the conditions of the theorems above hold | See below. |
| `StrictExecutionProofs!TypeCorrect`, `Serializable`, `StrictHolds` | `TypeOK`, `EndOrderSerializes`; of two conflicting steps that ran, one is of an ended transaction | An ended transaction stays ended and runs nothing more, so that what preceded it in conflict had ended before it. |
| `WorkerQueueProofs!TypeCorrect`, `NothingLost` | `TypeOK`, `OneQueue` | With `SwapReady`: between its look at `_empty` and the swap the reader's buffer is used up and that of the writers is not empty, since nobody else takes from it. Associativity of concatenation for the swap. |
| `WorkerQueueProofs!NoWakeupIsLost` | `NoLostWakeup`, if `Thres <= 1` | `WakeInv` follows the worker from the moment it saw a queue empty to its sleep: whatever is appended since has a writer that has not yet set the working state, or has set it. With a larger threshold it is false: actions below it are announced to nobody. |
| `WorkerQueueProofs!OneSignalForOneSleep` | `SignalsMatchWaits` | `SignalInv`: only one thread at a time can be about to signal, because it is the one that swapped the working state from SLEEP; until it has signalled, the worker's wait is the one it is for. Up to `stop()`, which signals too (5). |
| `GroupCommitProofs!TypeCorrect`, `OrderlyStop` | `TypeOK`, `EmptyAtStop` | `StopInv` orders the stops: the flusher ends after the workers, and joins the notifier, which ends with an empty queue, before it drains its own. |
| `GroupCommitProofs!ToldAfterFlush` | `DurableWhileActive` | `DurableInv`: log positions grow; what is on the notifier's queue is durable; what is on the flushing queue is durable from the sync on, because it was in the log when `sync_log()` was called. |
| `GroupCommitProofs!NeitherLostNorToldTwice` | `OnePlace` | `PlaceInv` counts: what is on the queues, held by the notifier or told are the transactions that were enqueued, and the lengths add up to their number, so that nobody is in two places. |
| `TpccProofs!TpccIsStrict`, `TpccSerializable` | that `TpccSpec` implements `Spec` of `StrictExecution`; `EndOrderSerializes` | Each step of `TpccNext` is one of `StrictExecution`, whose theorems carry over. |
| `TpccProofs!WritersOfARowClash` | two actions of different transactions that write one row conflict | `RowsHaveKeys`: the row determines the key (`KeyOfRow`); `StepKeyed`: the flows give each action the key of `calc_keys` and a writer an exclusive lock. `PaysAtHome` needs `InputAssumption`, and the reversed test. |
| `TpccProofs!NoDirtyDataHolds`, `LogsApartHolds` | an unfinished transaction has written no row under the key of an action of another unfinished one; the logs of two of them name different rows | `LogInv`: a logged row was written by a step that ran, under that step's key, or is the transaction's own history row. With `StrictHolds`, such a key is nobody else's. |
| `TpccProofs!RepeatableReads` | the action property `Repeatable`: what is under the key of an action stays until its transaction ends | A step that runs conflicts with no step of an unfinished transaction (`ExecRepeats`), and a rollback touches logged rows only, which are under nobody else's key (`AbortRepeats`, from `NoDirtyData`). `AfterRuns` and `AfterSame` say what the recursion `After` leaves alone. |
| `TpccProofs!StepsCommute` | actions without conflict commute on every database that has the rows they look up | `SameFound`, `SameWrite`: what an action finds and writes depends on rows under its key; `NoConflictNoChange`: the other one changes none of these; `WritesApart`: no row is written by both. |
| `TpccProofs!OnlyCommitsShowHolds` | the action property `OnlyCommitsShow`: the settled value of a row (without the writes of unfinished transactions) changes only when a transaction that wrote it commits | Invariants `LogInv`, `LogsApart`, `LogHere`. `ExecShowsNothing`: the first write of a row logs its settled value, later ones keep the log; `AbortShowsNothing`: the rollback returns to it. |
| `TupleFifoProofs!TypeCorrect`, `PagesInOrder`, `OneSideDeletes`, `NoSideIsForgotten` | `TypeOK`, `InOrder`, `OneDeletes`, `SomeoneGoesOn` | For every capacity and any threshold in `1..Capacity`. `Outcomes` says which calls change what. `StateMatches` and `EndInv` tie the state word to the places of both sides: who left first, and what he was told. `OneIsServed`: when both sides wait, one of them has been signalled and finds the batch it waits for. |
| `StageContainerProofs!NoReservationDeadlock` | `NobodyWaitsBelowLimit` | `PoolInv` adds the types of the pool and that it never grows past the limit; the other steps of the container touch the pool only through its operators, so there is one lemma per operator (`ReserveKeepsPoolInv`, `WakeKeepsPoolInv`, `UnreserveKeepsPoolInv`, `IdleKeepsPoolInv`). |
| `StageContainerProofs!ListsHaveTheirWorkers`, `MergingLeaksNothing`, `StreamsAreWhole`, `ContainerTypeCorrect` | `WorkersReserved`, `OnlyTheHurtLeak`, `WholeUnlessCut`, `TypeOK` | One invariant `ContainerInv`. `ListPart`: a packet is in one list of the container, and each packet of a running list has received the pages since it came, up to where its stage is. `Books`: each reserved worker has somebody who gives it back (a packet that was admitted and not yet dispatched or released, a queued list, a worker that is not idle, a stage with a late merger, which will be queued again), with equality as long as nobody was hurt by the race or an abort. `WholeUnlessCut` speaks of streams that have ended and is a conjunct of its own. |

*Assumptions* are the ASSUMEs of the modules (`QueueAssumption`,
`GroupAssumption`, `StepAssumption`, `NeedAssumption`, `ContainerAssumption`,
`SizeAssumption`, `FlowAssumption`, `OneActionPerKey`, `InputAssumption` and
those of the locks): ranges of constants that the code has by construction, and
for the pool that no query asks for more workers than there may be, which
`_reserve()` asserts.

*Conditions of the theorems about flows.* `prepareNewRun()` aborts the owners
of keys that are still held, without a look at whether their transactions run.
A client that waits for the last transaction of its batch only lets the shell
come there too early, and then nothing that was said of keys is true. So the
theorems speak of behaviours in which no partition was prepared, or all
submitted transactions are waited for: `Followed`; and those about the way back
of keys of `Secured`, which adds that clients are told last, as with the
flusher. Neither is a condition on the run that comes to its end in the usual
way: up to the first `PrepareNewRun` both hold in every state, for every client
and with or without the flusher. `ClientsWhoWait` proves that with a client for
each transaction `Followed` holds always, and with the flusher `Secured` too;
that is the configuration of the run `dora_flows`.

*Only model-checked.* All liveness properties (`EveryWaiterRuns`,
`EveryFlowEnds`, `EveryActionTaken`, `EveryClientHears` and those of the stages
and buffers): the prover has no ENABLED and so no fairness. And `AsIfSerial` and
`Consistent` of `Tpcc`, which speak of folds over sets of rows and over the whole
history, that is, of induction over data. Serializability of DORA is proved
from end to end: the engine implements the abstract specification
(`DoraKeepsPromise`), whose executions are serializable (`Serializable`), under
the conditions above; and for the data of TPC-C, each step of the way from a
history to a serial one is: actions without conflict trade places
(`StepsCommute`), and transactions that are rolled back leave no trace
(`OnlyCommitsShowHolds`). What TLC alone shows is that these steps add up, over
a whole history, to what each transaction does alone (`AsIfSerial`).

The few recursive functions that the proofs do speak of (`After`, the number of
requests that a promotion takes) are unfolded by hand: that a value exists, and
what holds of it, follows from the least number where it would fail
(`LeastNatural`), which rests on the well-foundedness of finite sets in the
library.

## 7. What is not modelled

- The life cycle of a partition beyond start and stop of one worker and the end
  of a run: `stop` and `reset` with actions queued, recovery mode, `pause`,
  standby workers: planned (7 of the plan).
- Routing of keys to partitions, repartitioning: a constant here; planned (10).
- A plan of several stages with bounded buffers between them: the deadlock of two
  consumers that read one shared stage in opposite orders is out of sight, since
  `StageContainer` has buffers that never fill.
- TPC-C Delivery under DORA: not implemented in the code.
- Bodies of the TM1 and TPC-B transactions: one or two rows per action, planned
  as further instances in the way of `Tpcc` (9).
- Bodies of conventional transactions and of relational stages, row formats, indexes: they
  are sequential code over Shore-MT, without a protocol of their own.
- Shore-MT: a separate repository. Its log and its commit appear as the
  external operations `DoraFlow` and `GroupCommit` use.
- Caches and block allocators are per thread; parsers, shell, tracing and
  statistics keep no state that another component depends on.

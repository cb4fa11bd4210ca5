---------------------------- MODULE WorkerQueue ----------------------------
(***************************************************************************)
(* How a worker thread gets its work and sleeps when there is none:        *)
(* srmwqueue (many writers, one reader, src/include/sm/shore/srmwqueue.h), *)
(* the working state and control word of base_worker_t                     *)
(* (src/include/sm/shore/shore_worker.h) and the condition variable with   *)
(* counters it sleeps on (src/include/util/condex.h).                      *)
(*                                                                         *)
(* The worker is that of a DORA partition, with an input and a committed   *)
(* queue.  Writers take the lock of a queue to append, and then tell the   *)
(* worker through its working state, without a lock; the worker looks at   *)
(* queue, control word and working state in turn, also without one.  Every *)
(* such access is a step of its own here.  What the actions do is left     *)
(* out (DoraFlow); the history variables only name them.                   *)
(***************************************************************************)
EXTENDS Integers, Sequences, FiniteSets

CONSTANTS
    Action,     \* the actions that are pushed
    Queue,      \* {"input", "commit"}
    QueueOf,    \* the queue of an action
    BWake,      \* the actions pushed with bWake
    Thres,      \* _thres: length of a queue at which push() wakes the worker
    Loops,      \* _loops: spins before the worker sleeps
    Stopping    \* whether stop() is called

ASSUME QueueAssumption ==
    /\ Queue = {"input", "commit"}
    /\ QueueOf \in [Action -> Queue]
    /\ BWake \subseteq Action
    /\ Thres \in Nat
    /\ Loops \in Nat
    /\ Stopping \in BOOLEAN

VARIABLES
    writers,    \* _for_writers; _empty is kept with it, under the lock
    readers,    \* _for_readers from _read_pos on
    ws,         \* _ws
    control,    \* _control
    signals,    \* _signals of the condex
    waits,      \* _waits of the condex
    worker,     \* where the worker is
    loopcnt,    \* loopcnt of wait_for_input()
    writer,     \* where the push() of each action is
    stopper,    \* where the thread that starts and stops the worker is
    pushed,     \* history: the actions appended to each queue
    taken       \* history: the actions popped from each queue

queues == <<writers, readers, pushed, taken>>
condex == <<signals, waits>>
vars == <<writers, readers, ws, control, signals, waits, worker, loopcnt,
          writer, stopper, pushed, taken>>

WorkingState == {"UNDEF", "LOOP", "INPUT_Q", "COMMIT_Q", "SLEEP", "FINISHED"}
MyWs(q) == IF q = "input" THEN "INPUT_Q" ELSE "COMMIT_Q"

TypeOK ==
    /\ writers \in [Queue -> Seq(Action)] /\ readers \in [Queue -> Seq(Action)]
    /\ pushed \in [Queue -> Seq(Action)] /\ taken \in [Queue -> Seq(Action)]
    /\ ws \in WorkingState
    /\ control \in {"PAUSED", "ACTIVE", "STOPPED"}
    /\ signals \in Nat /\ waits \in Nat
    /\ worker \in {"paused", "top", "commit", "input", "swapcommit", "swapinput",
                   "control", "other", "sleep", "wait", "asleep", "stopped"}
    /\ loopcnt \in Nat
    /\ writer \in [Action -> {"start", "appended", "signal", "done"}]
    /\ stopper \in {"start", "running", "check", "signal", "done"}

Init ==
    /\ writers = [q \in Queue |-> <<>>] /\ readers = [q \in Queue |-> <<>>]
    /\ pushed = [q \in Queue |-> <<>>] /\ taken = [q \in Queue |-> <<>>]
    /\ ws = "UNDEF"
    /\ control = "PAUSED"
    /\ signals = 0 /\ waits = 0
    /\ worker = "paused"
    /\ loopcnt = 0
    /\ writer = [a \in Action |-> "start"]
    /\ stopper = "start"

-----------------------------------------------------------------------------
(***************************************************************************)
(* set_ws(): a loop around a compare-and-swap, so one atomic step.  The    *)
(* caller that changes it from SLEEP signals the condex afterwards.        *)
(***************************************************************************)
NewWs(new) == IF ws = "COMMIT_Q" /\ new # "LOOP" THEN ws ELSE new
\* Slip: the condex is signalled also when the worker does not sleep.
WakesAlways(new) == TRUE

Wakes(new) == ws = "SLEEP" /\ new # "SLEEP"

-----------------------------------------------------------------------------
(***************************************************************************)
(* push().                                                                 *)
(***************************************************************************)
AppendAction(a) ==
    LET q == QueueOf[a]
    IN  /\ writer[a] = "start"
        /\ writers' = [writers EXCEPT ![q] = Append(@, a)]
        /\ pushed' = [pushed EXCEPT ![q] = Append(@, a)]
        /\ writer' = [writer EXCEPT ![a] =
              IF Len(writers[q]) + 1 >= Thres \/ a \in BWake THEN "appended" ELSE "done"]
        /\ UNCHANGED <<readers, taken, ws, control, condex, worker, loopcnt, stopper>>

SetWs(a) ==
    /\ writer[a] = "appended"
    /\ ws' = NewWs(MyWs(QueueOf[a]))
    /\ writer' = [writer EXCEPT ![a] = IF Wakes(MyWs(QueueOf[a])) THEN "signal" ELSE "done"]
    /\ UNCHANGED <<queues, control, condex, worker, loopcnt, stopper>>

WakeUp(a) ==
    /\ writer[a] = "signal"
    /\ signals' = signals + 1
    /\ writer' = [writer EXCEPT ![a] = "done"]
    /\ UNCHANGED <<queues, ws, control, waits, worker, loopcnt, stopper>>

Push(a) == AppendAction(a) \/ SetWs(a) \/ WakeUp(a)

-----------------------------------------------------------------------------
(***************************************************************************)
(* start() and stop().                                                     *)
(***************************************************************************)
Start ==
    /\ stopper = "start"
    /\ control' = "ACTIVE"
    /\ stopper' = IF ws = "SLEEP" THEN "signal" ELSE "running"
    /\ UNCHANGED <<queues, ws, condex, worker, loopcnt, writer>>

Stop ==
    /\ stopper = "running"
    /\ Stopping
    /\ control' = "STOPPED"
    /\ stopper' = "check"
    /\ UNCHANGED <<queues, ws, condex, worker, loopcnt, writer>>

CheckSleeping ==
    /\ stopper = "check"
    /\ stopper' = IF ws = "SLEEP" THEN "signal" ELSE "done"
    /\ UNCHANGED <<queues, ws, control, condex, worker, loopcnt, writer>>

StopSignals ==
    /\ stopper = "signal"
    /\ signals' = signals + 1
    /\ stopper' = "done"
    /\ UNCHANGED <<queues, ws, control, waits, worker, loopcnt, writer>>

Control == Start \/ Stop \/ CheckSleeping \/ StopSignals

-----------------------------------------------------------------------------
(***************************************************************************)
(* The worker: work() and _work_ACTIVE_impl().                             *)
(***************************************************************************)
\* work() polls the control word while it is paused.
LeavePaused ==
    /\ worker = "paused"
    /\ control # "PAUSED"
    /\ worker' = IF control = "ACTIVE" THEN "top" ELSE "stopped"
    /\ UNCHANGED <<queues, ws, control, condex, loopcnt, writer, stopper>>

\* The loop ends when the control word is not ACTIVE ...
LeaveLoop ==
    /\ worker = "top"
    /\ control # "ACTIVE"
    /\ worker' = "stopped"
    /\ UNCHANGED <<queues, ws, control, condex, loopcnt, writer, stopper>>

\* ... and begins with set_ws(WS_LOOP), whatever the state was.
BeginLoop ==
    /\ worker = "top"
    /\ control = "ACTIVE"
    /\ ws' = NewWs("LOOP")
    /\ signals' = IF Wakes("LOOP") THEN signals + 1 ELSE signals
    /\ worker' = "commit"
    /\ UNCHANGED <<queues, control, waits, loopcnt, writer, stopper>>

\* What is_empty() looks at: the readers' buffer, and _empty.
Buffer(q) == IF readers[q] # <<>> THEN readers[q] ELSE writers[q]

(***************************************************************************)
(* pop().  while (has_committed()) takes one committed action after the    *)
(* other, dequeue() one input action a loop.                               *)
(***************************************************************************)
AfterPop(q) == IF q = "commit" THEN "commit" ELSE "top"
Swapping(q) == IF q = "commit" THEN "swapcommit" ELSE "swapinput"

\* The readers' buffer has one.
Take(q) ==
    /\ worker = q
    /\ readers[q] # <<>>
    /\ taken' = [taken EXCEPT ![q] = Append(@, Head(readers[q]))]
    /\ readers' = [readers EXCEPT ![q] = Tail(@)]
    /\ worker' = AfterPop(q)
    /\ UNCHANGED <<writers, pushed, ws, control, condex, loopcnt, writer, stopper>>

\* It has none, but _empty is false, which is read without the lock ...
SeeFilled(q) ==
    /\ worker = q
    /\ readers[q] = <<>> /\ writers[q] # <<>>
    /\ worker' = Swapping(q)
    /\ UNCHANGED <<queues, ws, control, condex, loopcnt, writer, stopper>>

\* Slip: the reader takes what it saw, and clears the writers' buffer.
SwapForgets(q) ==
    /\ worker = Swapping(q)
    /\ taken' = [taken EXCEPT ![q] = Append(@, Head(writers[q]))]
    /\ writers' = [writers EXCEPT ![q] = <<>>]
    /\ worker' = AfterPop(q)
    /\ UNCHANGED <<readers, pushed, ws, control, condex, loopcnt, writer, stopper>>

\* ... and then, under the lock, the readers' buffer is erased and swapped for
\* whatever the writers have appended by now.
Swap(q) ==
    /\ worker = Swapping(q)
    /\ taken' = [taken EXCEPT ![q] = Append(@, Head(writers[q]))]
    /\ readers' = [readers EXCEPT ![q] = Tail(writers[q])]
    /\ writers' = [writers EXCEPT ![q] = <<>>]
    /\ worker' = AfterPop(q)
    /\ UNCHANGED <<pushed, ws, control, condex, loopcnt, writer, stopper>>

Pop(q) == Take(q) \/ SeeFilled(q) \/ Swap(q)

\* has_committed() is false.
NoneCommitted ==
    /\ worker = "commit"
    /\ Buffer("commit") = <<>>
    /\ worker' = "input"
    /\ loopcnt' = 0
    /\ UNCHANGED <<queues, ws, control, condex, writer, stopper>>

\* 1. wait_for_input() finds _empty,
FindEmpty ==
    /\ worker = "input"
    /\ Buffer("input") = <<>>
    /\ worker' = "control"
    /\ UNCHANGED <<queues, ws, control, condex, loopcnt, writer, stopper>>

\* 2. gives up when the control word changed,
CheckControl ==
    /\ worker = "control"
    /\ IF control = "ACTIVE"
       THEN worker' = "other" /\ UNCHANGED <<ws, signals>>
       ELSE /\ worker' = "top"
            /\ ws' = NewWs("FINISHED")
            /\ signals' = IF Wakes("FINISHED") THEN signals + 1 ELSE signals
    /\ UNCHANGED <<queues, control, waits, loopcnt, writer, stopper>>

\* Slip: can_continue() is not asked.
CheckOtherNever ==
    /\ worker = "other"
    /\ worker' = IF loopcnt + 1 > Loops THEN "sleep" ELSE "input"
    /\ loopcnt' = loopcnt + 1
    /\ UNCHANGED <<queues, ws, control, condex, writer, stopper>>

\* 3. gives up when can_continue() is false,
CheckOther ==
    /\ worker = "other"
    /\ worker' = IF ws \notin {"INPUT_Q", "LOOP"} THEN "top"
                 ELSE IF loopcnt + 1 > Loops THEN "sleep" ELSE "input"
    /\ loopcnt' = loopcnt + 1
    /\ UNCHANGED <<queues, ws, control, condex, writer, stopper>>

\* Slip: the working state is set to SLEEP without comparing.
SleepAnyway ==
    /\ worker = "sleep"
    /\ ws' = "SLEEP" /\ worker' = "wait"
    /\ UNCHANGED <<queues, control, condex, loopcnt, writer, stopper>>

\* 4. and calls condex_sleep(), which sleeps only from LOOP.
Sleep ==
    /\ worker = "sleep"
    /\ IF ws = "LOOP"
       THEN ws' = "SLEEP" /\ worker' = "wait" /\ UNCHANGED loopcnt
       ELSE worker' = "input" /\ loopcnt' = 0 /\ UNCHANGED ws
    /\ UNCHANGED <<queues, control, condex, writer, stopper>>

\* Slip: the condex counts like a semaphore.
WaitDecrements ==
    /\ worker = "wait"
    /\ signals' = signals - 1
    /\ worker' = "asleep"
    /\ UNCHANGED <<queues, ws, control, waits, loopcnt, writer, stopper>>

\* wait() of the condex: counts, and blocks until the signals catch up.
Wait ==
    /\ worker = "wait"
    /\ waits' = waits + 1
    /\ worker' = "asleep"
    /\ UNCHANGED <<queues, ws, control, signals, loopcnt, writer, stopper>>

Awake ==
    /\ worker = "asleep"
    /\ waits <= signals
    /\ worker' = "input"
    /\ loopcnt' = 1
    /\ UNCHANGED <<queues, ws, control, condex, writer, stopper>>

Work ==
    \/ LeavePaused \/ LeaveLoop \/ BeginLoop
    \/ (\E q \in Queue : Pop(q)) \/ NoneCommitted
    \/ FindEmpty \/ CheckControl \/ CheckOther \/ Sleep \/ Wait \/ Awake

Next ==
    \/ \E a \in Action : Push(a)
    \/ Control
    \/ Work

Spec == Init /\ [][Next]_vars

\* Writer, controlling and worker threads are scheduled by the system; nobody
\* need call stop().
Fairness ==
    /\ WF_vars(\E a \in Action : Push(a))
    /\ WF_vars(Start \/ CheckSleeping \/ StopSignals)
    /\ WF_vars(Work)

FairSpec == Spec /\ Fairness

-----------------------------------------------------------------------------
(***************************************************************************)
(* The two buffers of a queue are one FIFO queue: no action is lost,       *)
(* popped twice or reordered when the reader swaps them, although it       *)
(* decides to do so without the lock, and writers append meanwhile.        *)
(***************************************************************************)
OneQueue ==
    \A q \in Queue : taken[q] \o readers[q] \o writers[q] = pushed[q]

(***************************************************************************)
(* No lost wakeup: while the worker is blocked and there is something to   *)
(* take, some writer is still on its way to wake it.                       *)
(***************************************************************************)
Blocked == worker = "asleep" /\ waits > signals

NoLostWakeup ==
    Blocked /\ (\E q \in Queue : Buffer(q) # <<>>) =>
        \E a \in Action : writer[a] \in {"appended", "signal"}

(***************************************************************************)
(* Every wait is met by one signal (as the note of condex_wakeup() asks    *)
(* the caller to change the working state first): outside condex_sleep()   *)
(* the counters agree, but for a signal that is on its way.  One signal    *)
(* too many would end every later sleep at once.  Only stop() may signal   *)
(* without need.                                                           *)
(***************************************************************************)
SignalsMatchWaits ==
    /\ control = "ACTIVE"
    /\ worker \notin {"wait", "asleep"}
    /\ \A a \in Action : writer[a] # "signal"
    => signals = waits

(***************************************************************************)
(* Every action whose push() returned is taken, however the steps of       *)
(* writers and worker interleave, unless the worker is stopped.            *)
(***************************************************************************)
Taken(a) == \E i \in DOMAIN taken[QueueOf[a]] : taken[QueueOf[a]][i] = a

EveryActionTaken == \A a \in Action : writer[a] = "done" ~> Taken(a) \/ control = "STOPPED"

(***************************************************************************)
(* stop() stops the worker ("stop(): Stops the partition - Stops and       *)
(* deletes all workers", include/dora/partition.h:346-350): once it        *)
(* returned, the join() that follows it returns too.                       *)
(***************************************************************************)
StopStops == stopper = "done" ~> worker = "stopped"

(***************************************************************************)
(* condex_sleep() fails only if "a COMMIT or INPUT action was enqueued     *)
(* during this LOOP so there is no need to sleep"                          *)
(* (include/sm/shore/shore_worker.h): a worker without work sleeps, as     *)
(* prepareNewRun() waits for.                                              *)
(***************************************************************************)
Idle ==
    /\ control = "ACTIVE"
    /\ \A a \in Action : writer[a] = "done" /\ Taken(a)

IdleWorkerSleeps == Idle ~> (ws = "SLEEP" \/ control # "ACTIVE")
=============================================================================

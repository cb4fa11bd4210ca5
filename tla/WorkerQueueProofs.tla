------------------------- MODULE WorkerQueueProofs -------------------------
(***************************************************************************)
(* The queues of a worker, for any actions: the two buffers of a queue are *)
(* one FIFO queue, and the worker never sleeps through a push, although    *)
(* writers, worker and the thread that stops it share no lock but that of  *)
(* the queue.                                                              *)
(***************************************************************************)
EXTENDS WorkerQueue, SequenceTheorems, TLAPS

USE DEF WorkingState

\* When the reader is about to swap, its own buffer is used up, and that of the writers
\* is not empty: nobody but the reader takes from it.
SwapReady ==
    \A q \in Queue : worker = Swapping(q) => readers[q] = <<>> /\ writers[q] # <<>>

LEMMA SwapReadyStep == TypeOK /\ SwapReady /\ [Next]_vars => SwapReady'
<1> SUFFICES ASSUME TypeOK, SwapReady, [Next]_vars PROVE SwapReady'
  OBVIOUS
<1> USE QueueAssumption
<1>1. ASSUME UNCHANGED <<worker, readers, writers>> PROVE SwapReady'
  BY <1>1 DEF SwapReady, Swapping
<1>2. ASSUME worker' \notin {"swapcommit", "swapinput"} PROVE SwapReady'
  BY <1>2 DEF SwapReady, Swapping
<1>3. ASSUME NEW a \in Action, AppendAction(a) PROVE SwapReady'
  <2>1. UNCHANGED <<worker, readers>> /\ \A q \in Queue : writers[q] # <<>> => writers'[q] # <<>>
    <3>1. writers' = [writers EXCEPT ![QueueOf[a]] = Append(@, a)]
      BY <1>3 DEF AppendAction
    <3>2. ASSUME NEW q \in Queue, writers[q] # <<>> PROVE writers'[q] # <<>>
      <4>1. writers[q] \in Seq(Action) /\ DOMAIN writers = Queue
        BY DEF TypeOK
      <4>2. Append(writers[q], a) # <<>>
        BY <4>1
      <4>3. QED
        BY <3>1, <3>2, <4>1, <4>2
    <3>3. QED
      BY <1>3, <3>2 DEF AppendAction
  <2>2. QED
    BY <2>1 DEF SwapReady, Swapping
<1>4. ASSUME NEW q \in Queue, SeeFilled(q) PROVE SwapReady'
  BY <1>4 DEF SeeFilled, SwapReady, Swapping, queues
<1>5. ASSUME NEW q \in Queue, Take(q) \/ Swap(q) PROVE SwapReady'
  BY <1>2, <1>5 DEF Take, Swap, AfterPop
<1>6. CASE Work
  <2>1. CASE \E q \in Queue : Pop(q)
    BY <1>4, <1>5, <2>1 DEF Pop
  <2>2. CASE ~\E q \in Queue : Pop(q)
    BY <1>2, <1>6, <2>2 DEF Work, LeavePaused, LeaveLoop, BeginLoop, NoneCommitted, FindEmpty,
       CheckControl, CheckOther, Sleep, Wait, Awake
  <2>3. QED
    BY <2>1, <2>2
<1>7. QED
  BY <1>1, <1>3, <1>6 DEF Next, Push, SetWs, WakeUp, Control, Start, Stop, CheckSleeping,
     StopSignals, vars, queues

\* Every step keeps the types.
LEMMA TypeStep == TypeOK /\ SwapReady /\ [Next]_vars => TypeOK'
<1> SUFFICES ASSUME TypeOK, SwapReady, [Next]_vars PROVE TypeOK'
  OBVIOUS
<1> USE QueueAssumption DEF TypeOK, queues, condex, NewWs, Wakes, MyWs
<1>1. ASSUME NEW a \in Action, AppendAction(a) PROVE TypeOK'
  BY <1>1 DEF AppendAction
<1>2. ASSUME NEW a \in Action, SetWs(a) PROVE TypeOK'
  BY <1>2 DEF SetWs
<1>3. ASSUME NEW a \in Action, WakeUp(a) PROVE TypeOK'
  BY <1>3 DEF WakeUp
<1>4. ASSUME Control PROVE TypeOK'
  <2>1. CASE Start
    BY <2>1 DEF Start
  <2>2. CASE Stop
    BY <2>2 DEF Stop
  <2>3. CASE CheckSleeping
    BY <2>3 DEF CheckSleeping
  <2>4. CASE StopSignals
    BY <2>4 DEF StopSignals
  <2>5. QED
    BY <1>4, <2>1, <2>2, <2>3, <2>4, Zenon DEF Control
<1>5. ASSUME LeavePaused \/ LeaveLoop \/ BeginLoop PROVE TypeOK'
  <2>1. CASE LeavePaused
    BY <2>1 DEF LeavePaused
  <2>2. CASE LeaveLoop
    BY <2>2 DEF LeaveLoop
  <2>3. CASE BeginLoop
    BY <2>3 DEF BeginLoop
  <2>4. QED
    BY <1>5, <2>1, <2>2, <2>3, Zenon
<1>6. ASSUME NEW q \in Queue, NEW b \in Seq(Action), b # <<>>
      PROVE  Head(b) \in Action /\ Tail(b) \in Seq(Action)
  BY <1>6
<1>7. ASSUME NEW q \in Queue, Pop(q) PROVE TypeOK'
  <2>1. CASE Take(q)
    BY <1>6, <2>1 DEF Take, AfterPop
  <2>2. CASE SeeFilled(q)
    BY <2>2 DEF SeeFilled, Swapping
  <2>3. CASE Swap(q)
    <3>1. writers[q] \in Seq(Action) /\ writers[q] # <<>>
      BY <2>3 DEF Swap, SwapReady
    <3>2. Head(writers[q]) \in Action /\ Tail(writers[q]) \in Seq(Action)
      BY <1>6, <3>1
    <3>3. QED
      BY <2>3, <3>2 DEF Swap, AfterPop
  <2>4. QED
    BY <1>7, <2>1, <2>2, <2>3 DEF Pop
<1>8. ASSUME NoneCommitted \/ FindEmpty \/ CheckControl PROVE TypeOK'
  <2>1. CASE NoneCommitted
    BY <2>1 DEF NoneCommitted
  <2>2. CASE FindEmpty
    BY <2>2 DEF FindEmpty
  <2>3. CASE CheckControl
    BY <2>3 DEF CheckControl
  <2>4. QED
    BY <1>8, <2>1, <2>2, <2>3, Zenon
<1>9. ASSUME CheckOther \/ Sleep \/ Wait \/ Awake PROVE TypeOK'
  <2>1. CASE CheckOther
    BY <2>1 DEF CheckOther
  <2>2. CASE Sleep
    BY <2>2 DEF Sleep
  <2>3. CASE Wait
    BY <2>3 DEF Wait
  <2>4. CASE Awake
    BY <2>4 DEF Awake
  <2>5. QED
    BY <1>9, <2>1, <2>2, <2>3, <2>4, Zenon
<1>10. CASE UNCHANGED vars
  BY <1>10 DEF vars
<1>11. QED
  BY <1>1, <1>2, <1>3, <1>4, <1>5, <1>7, <1>8, <1>9, <1>10 DEF Next, Push, Work

\* The queues, the working state, the control word and the counters keep
\* their types (srmwqueue, base_worker_t and condex).
THEOREM TypeCorrect == Spec => []TypeOK
<1>1. Init => TypeOK /\ SwapReady
  BY DEF Init, TypeOK, SwapReady, Swapping
<1>2. QED
  BY <1>1, TypeStep, SwapReadyStep, PTL DEF Spec

\* The reader never swaps for an empty buffer.
LEMMA AlwaysReady == Spec => []SwapReady
<1>1. Init => SwapReady
  BY DEF Init, SwapReady, Swapping
<1>2. QED
  BY <1>1, TypeCorrect, SwapReadyStep, PTL DEF Spec

-----------------------------------------------------------------------------
(***************************************************************************)
(* One FIFO queue.                                                         *)
(***************************************************************************)
\* push() appends at the end of the queue.
LEMMA AppendKeepsOrder ==
  ASSUME NEW t \in Seq(Action), NEW r \in Seq(Action), NEW w \in Seq(Action),
         NEW a \in Action
  PROVE  t \o r \o Append(w, a) = Append(t \o r \o w, a)
OBVIOUS

\* pop() takes from the front of the readers' buffer.
LEMMA PopReaders ==
  ASSUME NEW t \in Seq(Action), NEW r \in Seq(Action), NEW w \in Seq(Action), r # <<>>
  PROVE  Append(t, Head(r)) \o Tail(r) \o w = t \o r \o w
OBVIOUS

\* The swap makes the writers' buffer the readers'.
LEMMA PopWriters ==
  ASSUME NEW t \in Seq(Action), NEW w \in Seq(Action), w # <<>>
  PROVE  Append(t, Head(w)) \o Tail(w) \o <<>> = t \o <<>> \o w
OBVIOUS

LEMMA OneQueueStep == TypeOK /\ SwapReady /\ OneQueue /\ [Next]_vars => OneQueue'
<1> SUFFICES ASSUME TypeOK, SwapReady, OneQueue, [Next]_vars PROVE OneQueue'
  OBVIOUS
<1> USE QueueAssumption
<1>1. ASSUME NEW a \in Action, AppendAction(a) PROVE OneQueue'
  <2> SUFFICES ASSUME NEW q \in Queue
               PROVE  taken'[q] \o readers'[q] \o writers'[q] = pushed'[q]
    BY DEF OneQueue
  <2>1. CASE q = QueueOf[a]
    <3>1. /\ writers'[q] = Append(writers[q], a)
          /\ pushed'[q] = Append(pushed[q], a)
          /\ taken'[q] = taken[q] /\ readers'[q] = readers[q]
      BY <1>1, <2>1 DEF AppendAction, TypeOK
    <3>2. taken[q] \in Seq(Action) /\ readers[q] \in Seq(Action) /\ writers[q] \in Seq(Action)
      BY DEF TypeOK
    <3>3. taken[q] \o readers[q] \o writers[q] = pushed[q]
      BY DEF OneQueue
    <3>4. taken[q] \o readers[q] \o Append(writers[q], a)
             = Append(taken[q] \o readers[q] \o writers[q], a)
      <4>1. PICK t \in Seq(Action), r \in Seq(Action), w \in Seq(Action) :
               t = taken[q] /\ r = readers[q] /\ w = writers[q]
        BY <3>2
      <4>2. t \o r \o Append(w, a) = Append(t \o r \o w, a)
        BY AppendKeepsOrder
      <4>3. QED
        BY <4>1, <4>2, Zenon
    <3>5. QED
      BY <3>1, <3>3, <3>4, Zenon
  <2>2. CASE q # QueueOf[a]
    BY <1>1, <2>2 DEF AppendAction, TypeOK, OneQueue
  <2>3. QED
    BY <2>1, <2>2
<1>2. ASSUME NEW p \in Queue, Take(p) \/ Swap(p) PROVE OneQueue'
  <2> SUFFICES ASSUME NEW q \in Queue
               PROVE  taken'[q] \o readers'[q] \o writers'[q] = pushed'[q]
    BY DEF OneQueue
  <2>1. CASE q # p
    BY <1>2, <2>1 DEF Take, Swap, TypeOK, OneQueue
  <2>2. CASE q = p /\ Take(p)
    <3>1. /\ taken'[p] = Append(taken[p], Head(readers[p]))
          /\ readers'[p] = Tail(readers[p])
          /\ writers'[p] = writers[p]
          /\ readers[p] # <<>>
      BY <2>2 DEF Take, TypeOK
    <3>2. taken[p] \in Seq(Action) /\ readers[p] \in Seq(Action) /\ writers[p] \in Seq(Action)
      BY DEF TypeOK
    <3>3. taken'[p] \o readers'[p] \o writers'[p] = taken[p] \o readers[p] \o writers[p]
      <4>1. Append(taken[p], Head(readers[p])) \o Tail(readers[p]) \o writers[p]
              = taken[p] \o readers[p] \o writers[p]
        BY <3>1, <3>2, PopReaders
      <4>2. QED
        BY <3>1, <4>1, Zenon
    <3>4. pushed' = pushed /\ taken[p] \o readers[p] \o writers[p] = pushed[p]
      BY <2>2 DEF Take, OneQueue
    <3>5. QED
      BY <2>2, <3>3, <3>4, Zenon
  <2>3. CASE q = p /\ Swap(p)
    <3>1. /\ taken'[p] = Append(taken[p], Head(writers[p]))
          /\ readers'[p] = Tail(writers[p])
          /\ writers'[p] = <<>>
          /\ writers[p] # <<>> /\ readers[p] = <<>>
      BY <2>3 DEF Swap, SwapReady, TypeOK
    <3>2. taken[p] \in Seq(Action) /\ writers[p] \in Seq(Action)
      BY DEF TypeOK
    <3>3. taken'[p] \o readers'[p] \o writers'[p] = taken[p] \o <<>> \o writers[p]
      <4>1. Append(taken[p], Head(writers[p])) \o Tail(writers[p]) \o <<>>
              = taken[p] \o <<>> \o writers[p]
        BY <3>1, <3>2, PopWriters
      <4>2. QED
        BY <3>1, <4>1, Zenon
    <3>4. pushed' = pushed /\ taken[p] \o <<>> \o writers[p] = pushed[p]
      BY <2>3, <3>1 DEF Swap, OneQueue
    <3>5. QED
      BY <2>3, <3>3, <3>4, Zenon
  <2>4. QED
    BY <1>2, <2>1, <2>2, <2>3
<1>3. ASSUME UNCHANGED queues PROVE OneQueue'
  BY <1>3 DEF queues, OneQueue
<1>4. QED
  BY <1>1, <1>2, <1>3 DEF Next, Push, SetWs, WakeUp, Control, Start, Stop, CheckSleeping,
     StopSignals, Work, LeavePaused, LeaveLoop, BeginLoop, Pop, SeeFilled, NoneCommitted,
     FindEmpty, CheckControl, CheckOther, Sleep, Wait, Awake, vars, queues

\* The two buffers of every queue are one FIFO queue: pop() returns what
\* push() appended, in that order, each once (srmwqueue.h:149-184).
THEOREM NothingLost == Spec => []OneQueue
<1>1. Init => OneQueue
  BY DEF Init, OneQueue
<1>2. QED
  BY <1>1, TypeCorrect, AlwaysReady, OneQueueStep, PTL DEF Spec

-----------------------------------------------------------------------------
(***************************************************************************)
(* No lost wakeup.  The worker looks at a queue, then at its working       *)
(* state, and falls asleep only from LOOP; a writer appends, and then      *)
(* changes the working state.  So between its look at a queue and its      *)
(* sleep, either the queue stays empty, or its writer has yet to change    *)
(* the state, or the state is not LOOP any more.                           *)
(***************************************************************************)
HasWork(q)     == Buffer(q) # <<>>
Coming(q)      == \E a \in Action : QueueOf[a] = q /\ writer[a] = "appended"
SomeoneComes   == \E a \in Action : writer[a] = "appended"
SomeoneSignals == \E a \in Action : writer[a] = "signal"

\* After has_committed() was false, until the worker sleeps.
CommitSeen ==
    worker \in {"input", "control", "other", "sleep"} /\ HasWork("commit")
        => Coming("commit") \/ ws # "LOOP"

\* After _empty was true, until the worker sleeps.
InputSeen ==
    worker \in {"control", "other", "sleep"} /\ HasWork("input")
        => Coming("input") \/ ws # "LOOP"

\* While it sleeps.
SleepSeen ==
    worker \in {"wait", "asleep"} =>
        /\ ws # "LOOP"
        /\ (\E q \in Queue : HasWork(q)) => SomeoneComes \/ ws # "SLEEP"

\* Who takes the worker out of SLEEP owes it a signal.
SignalOwed ==
    /\ worker = "wait"   /\ ws # "SLEEP" => SomeoneSignals \/ waits < signals
    /\ worker = "asleep" /\ ws # "SLEEP" => SomeoneSignals \/ waits <= signals

\* A sleep waits for one signal at most.
OneSignal ==
    /\ worker = "asleep" => waits <= signals + 1
    /\ worker # "asleep" => waits <= signals

WakeInv == CommitSeen /\ InputSeen /\ SleepSeen /\ SignalOwed /\ OneSignal

\* The five parts together say that no wakeup is lost.
LEMMA WakeInvImplies == TypeOK /\ WakeInv => NoLostWakeup
BY DEF TypeOK, WakeInv, SleepSeen, SignalOwed, NoLostWakeup, Blocked, HasWork,
   SomeoneComes, SomeoneSignals

\* What a step does to the parts a worker's view depends on.
LEMMA AppendWakeInv ==
  ASSUME Thres <= 1, TypeOK, WakeInv, NEW a \in Action, AppendAction(a)
  PROVE  WakeInv'
<1> USE QueueAssumption
<1>1. writer'[a] = "appended" /\ \A b \in Action : b # a => writer'[b] = writer[b]
  BY DEF AppendAction, TypeOK
<1>2. UNCHANGED <<ws, worker, signals, waits>>
  BY DEF AppendAction, condex
<1>3. \A q \in Queue : HasWork(q)' => HasWork(q) \/ q = QueueOf[a]
  BY DEF AppendAction, HasWork, Buffer, TypeOK
<1>4. writer[a] = "start"
  BY DEF AppendAction
<1>5. \A q \in Queue : Coming(q) => Coming(q)'
  BY <1>1, <1>4 DEF Coming
<1>6. Coming(QueueOf[a])' /\ SomeoneComes'
  BY <1>1 DEF Coming, SomeoneComes
<1>7. SomeoneSignals => SomeoneSignals'
  BY <1>1, <1>4 DEF SomeoneSignals
<1>8. CommitSeen' /\ InputSeen'
  BY <1>2, <1>3, <1>5, <1>6 DEF WakeInv, CommitSeen, InputSeen
<1>9. SleepSeen'
  BY <1>2, <1>6 DEF WakeInv, SleepSeen
<1>10. SignalOwed' /\ OneSignal'
  BY <1>2, <1>7 DEF WakeInv, SignalOwed, OneSignal
<1>11. QED
  BY <1>8, <1>9, <1>10 DEF WakeInv

LEMMA SetWsWakeInv ==
  ASSUME TypeOK, WakeInv, NEW a \in Action, SetWs(a)
  PROVE  WakeInv'
<1> USE QueueAssumption
<1>1. ws' \notin {"LOOP", "SLEEP"}
  BY DEF SetWs, NewWs, MyWs
<1>2. UNCHANGED <<worker, signals, waits>>
  BY DEF SetWs, condex
<1>3. ws = "SLEEP" => SomeoneSignals'
  BY DEF SetWs, Wakes, MyWs, SomeoneSignals, TypeOK
<1>4. SomeoneSignals => SomeoneSignals'
  BY DEF SetWs, SomeoneSignals, TypeOK
<1>5. CommitSeen' /\ InputSeen' /\ SleepSeen'
  BY <1>1 DEF CommitSeen, InputSeen, SleepSeen
<1>6. SignalOwed' /\ OneSignal'
  BY <1>2, <1>3, <1>4 DEF WakeInv, SignalOwed, OneSignal
<1>7. QED
  BY <1>5, <1>6 DEF WakeInv

\* A signal pays what was owed.
LEMMA SignalWakeInv ==
  ASSUME TypeOK, WakeInv, signals' = signals + 1,
         UNCHANGED <<queues, ws, waits, worker>>,
         \A a \in Action : writer[a] = "appended" => writer'[a] = "appended"
  PROVE  WakeInv'
<1>1. \A q \in Queue : HasWork(q)' <=> HasWork(q)
  BY DEF HasWork, Buffer, queues
<1>2. \A q \in Queue : Coming(q) => Coming(q)'
  BY DEF Coming
<1>3. SomeoneComes => SomeoneComes'
  BY DEF SomeoneComes
<1>4. CommitSeen' /\ InputSeen'
  BY <1>1, <1>2, QueueAssumption DEF WakeInv, CommitSeen, InputSeen
<1>5. SleepSeen'
  BY <1>1, <1>3 DEF WakeInv, SleepSeen
<1>6. signals \in Nat /\ waits \in Nat
  BY DEF TypeOK
<1>7. SignalOwed' /\ OneSignal'
  BY <1>6 DEF WakeInv, SignalOwed, OneSignal
<1>8. QED
  BY <1>4, <1>5, <1>7 DEF WakeInv

\* A step of the worker that leaves the writers alone, and does not sleep.
LEMMA WorkerWakeInv ==
  ASSUME TypeOK, WakeInv, UNCHANGED <<writer, waits>>, signals' \in {signals, signals + 1},
         worker' \notin {"wait", "asleep"}, OneSignal',
         worker' \in {"input", "control", "other", "sleep"} =>
            /\ ws' = ws /\ queues' = queues
            /\ ~HasWork("commit") \/ CommitSeen'
            /\ worker' = "input" \/ ~HasWork("input") \/ InputSeen'
  PROVE  WakeInv'
<1>1. CommitSeen'
  BY DEF CommitSeen, HasWork, Buffer, queues
<1>2. InputSeen'
  BY DEF InputSeen, HasWork, Buffer, queues
<1>3. SleepSeen' /\ SignalOwed'
  BY DEF SleepSeen, SignalOwed
<1>4. QED
  BY <1>1, <1>2, <1>3 DEF WakeInv

LEMMA WorkWakeInv ==
  ASSUME TypeOK, WakeInv, Work
  PROVE  WakeInv'
<1> USE QueueAssumption
<1>1. signals \in Nat /\ waits \in Nat
  BY DEF TypeOK
<1>2. CASE LeavePaused \/ LeaveLoop \/ BeginLoop \/ \E q \in Queue : Pop(q)
  <2>1. /\ writer' = writer /\ waits' = waits /\ signals' \in {signals, signals + 1}
        /\ worker' \in {"top", "stopped", "commit", "swapcommit", "swapinput"}
        /\ worker # "asleep"
    BY <1>2 DEF LeavePaused, LeaveLoop, BeginLoop, Pop, Take, SeeFilled, Swap, AfterPop,
       Swapping, condex
  <2>2. OneSignal'
    <3>1. waits' = waits /\ worker # "asleep" /\ worker' # "asleep"
      BY <2>1
    <3>2. waits <= signals
      BY <3>1 DEF WakeInv, OneSignal
    <3>3. waits <= signals'
      BY <1>1, <2>1, <3>2
    <3>4. QED
      BY <3>1, <3>3 DEF OneSignal
  <2>3. QED
    BY <2>1, <2>2, WorkerWakeInv
<1>3. CASE NoneCommitted
  <2>1. /\ UNCHANGED <<writer, waits, signals, ws, queues>>
        /\ worker = "commit" /\ worker' = "input" /\ ~HasWork("commit")
    BY <1>3 DEF NoneCommitted, HasWork, condex
  <2>2. OneSignal'
    BY <2>1 DEF WakeInv, OneSignal
  <2>3. QED
    BY <2>1, <2>2, WorkerWakeInv
<1>4. CASE FindEmpty
  <2>1. /\ UNCHANGED <<writer, waits, signals, ws, queues>>
        /\ worker = "input" /\ worker' = "control" /\ ~HasWork("input")
    BY <1>4 DEF FindEmpty, HasWork, condex
  <2>2. OneSignal'
    BY <2>1 DEF WakeInv, OneSignal
  <2>3. CommitSeen'
    BY <2>1 DEF WakeInv, CommitSeen, HasWork, Buffer, Coming, queues
  <2>4. QED
    BY <2>1, <2>2, <2>3, WorkerWakeInv
<1>5. CASE CheckControl \/ CheckOther \/ (Sleep /\ ws # "LOOP")
  <2>1. /\ UNCHANGED <<writer, waits, queues>> /\ signals' \in {signals, signals + 1}
        /\ worker \in {"control", "other", "sleep"}
        /\ worker' \in {"top", "other", "sleep", "input"}
        /\ worker' # "top" => ws' = ws
    BY <1>5 DEF CheckControl, CheckOther, Sleep, condex
  <2>2. OneSignal'
    <3>1. waits' = waits /\ worker # "asleep" /\ worker' # "asleep"
      BY <2>1
    <3>2. waits <= signals
      BY <3>1 DEF WakeInv, OneSignal
    <3>3. waits <= signals'
      BY <1>1, <2>1, <3>2
    <3>4. QED
      BY <3>1, <3>3 DEF OneSignal
  <2>3. worker' # "top" => CommitSeen' /\ InputSeen'
    BY <2>1 DEF WakeInv, CommitSeen, InputSeen, HasWork, Buffer, Coming, queues
  <2>4. QED
    BY <2>1, <2>2, <2>3, WorkerWakeInv
<1>6. CASE Sleep /\ ws = "LOOP"
  <2>1. /\ UNCHANGED <<writer, waits, signals, queues>>
        /\ worker = "sleep" /\ worker' = "wait" /\ ws' = "SLEEP"
    BY <1>6 DEF Sleep, condex
  <2>2. \A q \in Queue : HasWork(q) => SomeoneComes
    BY <1>6, <2>1 DEF WakeInv, CommitSeen, InputSeen, Coming, SomeoneComes
  <2>3. SleepSeen'
    BY <2>1, <2>2 DEF SleepSeen, HasWork, Buffer, SomeoneComes, queues
  <2>4. SignalOwed' /\ OneSignal'
    BY <2>1 DEF WakeInv, SignalOwed, OneSignal
  <2>5. QED
    BY <2>1, <2>3, <2>4 DEF WakeInv, CommitSeen, InputSeen
<1>7. CASE Wait
  <2>1. /\ UNCHANGED <<writer, signals, queues, ws>>
        /\ worker = "wait" /\ worker' = "asleep" /\ waits' = waits + 1
    BY <1>7 DEF Wait
  <2>2. SleepSeen'
    BY <2>1 DEF WakeInv, SleepSeen, HasWork, Buffer, SomeoneComes, queues
  <2>3. SignalOwed' /\ OneSignal'
    BY <1>1, <2>1 DEF WakeInv, SignalOwed, OneSignal, SomeoneSignals
  <2>4. QED
    BY <2>1, <2>2, <2>3 DEF WakeInv, CommitSeen, InputSeen
<1>8. CASE Awake
  <2>1. /\ UNCHANGED <<writer, signals, waits, queues, ws>>
        /\ worker = "asleep" /\ worker' = "input" /\ waits <= signals
    BY <1>8 DEF Awake, condex
  <2>2. ws' # "LOOP"
    BY <2>1 DEF WakeInv, SleepSeen
  <2>3. CommitSeen' /\ OneSignal'
    BY <2>1, <2>2 DEF CommitSeen, OneSignal
  <2>4. QED
    BY <2>1, <2>3, WorkerWakeInv
<1>9. QED
  BY <1>2, <1>3, <1>4, <1>5, <1>6, <1>7, <1>8 DEF Work

LEMMA WakeStep ==
  ASSUME Thres <= 1
  PROVE  TypeOK /\ WakeInv /\ [Next]_vars => WakeInv'
<1> SUFFICES ASSUME TypeOK, WakeInv, [Next]_vars PROVE WakeInv'
  OBVIOUS
<1>1. ASSUME NEW a \in Action, Push(a) PROVE WakeInv'
  <2>1. CASE AppendAction(a)
    BY <2>1, AppendWakeInv
  <2>2. CASE SetWs(a)
    BY <2>2, SetWsWakeInv
  <2>3. CASE WakeUp(a)
    <3>1. \A b \in Action : writer[b] = "appended" => writer'[b] = "appended"
      BY <2>3 DEF WakeUp, TypeOK
    <3>2. signals' = signals + 1 /\ UNCHANGED <<queues, ws, waits, worker>>
      BY <2>3 DEF WakeUp
    <3>3. QED
      BY <3>1, <3>2, SignalWakeInv
  <2>4. QED
    BY <1>1, <2>1, <2>2, <2>3 DEF Push
<1>2. ASSUME StopSignals PROVE WakeInv'
  <2>1. signals' = signals + 1 /\ UNCHANGED <<queues, ws, waits, worker, writer>>
    BY <1>2 DEF StopSignals
  <2>2. QED
    BY <2>1, SignalWakeInv
<1>3. ASSUME UNCHANGED <<queues, ws, condex, worker, writer>> PROVE WakeInv'
  BY <1>3 DEF queues, condex, WakeInv, CommitSeen, InputSeen, SleepSeen, SignalOwed,
     OneSignal, HasWork, Buffer, Coming, SomeoneComes, SomeoneSignals
<1>4. CASE Control
  BY <1>2, <1>3, <1>4 DEF Control, Start, Stop, CheckSleeping
<1>5. CASE UNCHANGED vars
  BY <1>3, <1>5 DEF vars, queues, condex
<1>6. QED
  BY <1>1, <1>4, <1>5, WorkWakeInv DEF Next

\* A worker never sleeps through a push(): as long as it is blocked and has
\* something to take, a writer is on its way (srmwqueue.h:109-184,
\* shore_worker.h:226-288), provided every push wakes it (thresholds 0, 1).
THEOREM NoWakeupIsLost ==
  ASSUME Thres <= 1
  PROVE  Spec => []NoLostWakeup
<1>1. Init => WakeInv
  BY DEF Init, WakeInv, CommitSeen, InputSeen, SleepSeen, SignalOwed, OneSignal
<1>2. TypeOK /\ WakeInv /\ [Next]_vars => WakeInv'
  BY WakeStep
<1>3. QED
  BY <1>1, <1>2, TypeCorrect, WakeInvImplies, PTL DEF Spec
-----------------------------------------------------------------------------
(***************************************************************************)
(* One signal for one sleep.  Until stop() is called the worker sleeps     *)
(* only with the state SLEEP it set itself; the one writer that takes it   *)
(* out of SLEEP owes it one signal, and nobody else signals before the     *)
(* worker sleeps again.                                                    *)
(***************************************************************************)
NobodySignals == \A a \in Action : writer[a] # "signal"

\* start() comes first, while the worker polls the control word: it finds
\* nobody asleep.
Started ==
    /\ control = "PAUSED" => worker = "paused" /\ stopper = "start"
    /\ control = "ACTIVE" => stopper = "running"
    /\ control = "STOPPED" => stopper \in {"check", "signal", "done"}

OneSignaller ==
    \A a, b \in Action : writer[a] = "signal" /\ writer[b] = "signal" => a = b

\* The worker is up: no signal is owed to it.
UpPaid ==
    worker \notin {"wait", "asleep"} =>
        ws # "SLEEP" /\ NobodySignals /\ signals = waits

\* It goes to sleep: the signal may come before its wait().
WaitPaid ==
    worker = "wait" =>
        \/ NobodySignals /\ ws = "SLEEP" /\ signals = waits
        \/ ~NobodySignals /\ ws # "SLEEP" /\ signals = waits
        \/ NobodySignals /\ ws # "SLEEP" /\ signals = waits + 1

\* It sleeps.
AsleepPaid ==
    worker = "asleep" =>
        \/ NobodySignals /\ ws = "SLEEP" /\ waits = signals + 1
        \/ ~NobodySignals /\ ws # "SLEEP" /\ waits = signals + 1
        \/ NobodySignals /\ ws # "SLEEP" /\ signals = waits

SignalInv ==
    /\ Started
    /\ control # "STOPPED" => OneSignaller /\ UpPaid /\ WaitPaid /\ AsleepPaid

LEMMA SignalInvImplies == SignalInv => SignalsMatchWaits
BY DEF SignalInv, UpPaid, SignalsMatchWaits

LEMMA SignalInvStep == TypeOK /\ SignalInv /\ [Next]_vars => SignalInv'
<1> SUFFICES ASSUME TypeOK, SignalInv, [Next]_vars PROVE SignalInv'
  OBVIOUS
<1> USE QueueAssumption
<1>1. Started'
  <2>1. CASE Control
    BY <2>1 DEF Control, Start, Stop, CheckSleeping, StopSignals, SignalInv, Started,
       UpPaid, TypeOK
  <2>2. ASSUME NEW a \in Action, Push(a) PROVE Started'
    BY <2>2 DEF Push, AppendAction, SetWs, WakeUp, SignalInv, Started
  <2>3. CASE Work
    <3>1. UNCHANGED <<control, stopper>> /\ (worker = "paused" => control # "PAUSED")
      BY <2>3 DEF Work, LeavePaused, LeaveLoop, BeginLoop, Pop, Take, SeeFilled, Swap,
         AfterPop, Swapping, NoneCommitted, FindEmpty, CheckControl, CheckOther, Sleep, Wait, Awake
    <3>2. QED
      BY <2>3, <3>1 DEF SignalInv, Started
  <2>4. CASE UNCHANGED vars
    BY <2>4 DEF vars, SignalInv, Started
  <2>5. QED
    BY <2>1, <2>2, <2>3, <2>4 DEF Next
<1>2. SUFFICES ASSUME control' # "STOPPED"
               PROVE  (OneSignaller /\ UpPaid /\ WaitPaid /\ AsleepPaid)'
  BY <1>1 DEF SignalInv
<1>3. control # "STOPPED"
  <2>1. CASE Control
    BY <1>2, <2>1 DEF Control, Start, Stop, CheckSleeping, StopSignals, SignalInv, Started
  <2>2. CASE \E a \in Action : Push(a)
    BY <1>2, <2>2 DEF Push, AppendAction, SetWs, WakeUp
  <2>3. CASE Work
    BY <1>2, <2>3 DEF Work, LeavePaused, LeaveLoop, BeginLoop, Pop, Take, SeeFilled, Swap,
       NoneCommitted, FindEmpty, CheckControl, CheckOther, Sleep, Wait, Awake
  <2>4. CASE UNCHANGED vars
    BY <1>2, <2>4 DEF vars
  <2>5. QED
    BY <2>1, <2>2, <2>3, <2>4 DEF Next
<1>4. Started /\ OneSignaller /\ UpPaid /\ WaitPaid /\ AsleepPaid
  BY <1>3 DEF SignalInv
<1>5. signals \in Nat /\ waits \in Nat
  BY DEF TypeOK
<1>6. ASSUME NEW a \in Action, AppendAction(a)
      PROVE (OneSignaller /\ UpPaid /\ WaitPaid /\ AsleepPaid)'
  <2>1. UNCHANGED <<ws, control, signals, waits, worker, stopper>>
    BY <1>6 DEF AppendAction, condex
  <2>2. \A b \in Action : writer'[b] = "signal" <=> writer[b] = "signal"
    BY <1>6 DEF AppendAction, TypeOK
  <2>3. (NobodySignals <=> NobodySignals') /\ OneSignaller'
    BY <1>4, <2>2 DEF NobodySignals, OneSignaller
  <2>4. QED
    BY <1>4, <2>1, <2>3 DEF UpPaid, WaitPaid, AsleepPaid
<1>7. ASSUME NEW a \in Action, SetWs(a)
      PROVE (OneSignaller /\ UpPaid /\ WaitPaid /\ AsleepPaid)'
  <2>1. /\ UNCHANGED <<control, signals, waits, worker, stopper>>
        /\ ws' # "SLEEP" /\ writer[a] = "appended"
        /\ \A b \in Action : b # a => writer'[b] = writer[b]
        /\ writer'[a] = IF ws = "SLEEP" THEN "signal" ELSE "done"
    BY <1>7 DEF SetWs, condex, NewWs, Wakes, MyWs, TypeOK
  <2>2. CASE ws = "SLEEP"
    <3>1. worker \in {"wait", "asleep"} /\ NobodySignals
      BY <1>4, <2>2 DEF UpPaid, WaitPaid, AsleepPaid
    <3>2. ~NobodySignals' /\ OneSignaller'
      BY <2>1, <2>2, <3>1 DEF NobodySignals, OneSignaller
    <3>3. QED
      BY <1>4, <2>1, <2>2, <3>1, <3>2 DEF UpPaid, WaitPaid, AsleepPaid
  <2>3. CASE ws # "SLEEP"
    <3>1. (NobodySignals <=> NobodySignals') /\ OneSignaller'
      BY <1>4, <2>1, <2>3 DEF NobodySignals, OneSignaller
    <3>2. QED
      BY <1>4, <2>1, <2>3, <3>1 DEF UpPaid, WaitPaid, AsleepPaid
  <2>4. QED
    BY <2>2, <2>3
<1>8. ASSUME NEW a \in Action, WakeUp(a)
      PROVE (OneSignaller /\ UpPaid /\ WaitPaid /\ AsleepPaid)'
  <2>1. /\ UNCHANGED <<ws, control, waits, worker, stopper>> /\ signals' = signals + 1
        /\ \A b \in Action : b # a => writer'[b] = writer[b]
        /\ writer[a] = "signal" /\ writer'[a] = "done"
    BY <1>8 DEF WakeUp, TypeOK
  <2>2. ~NobodySignals /\ NobodySignals' /\ OneSignaller'
    BY <1>4, <2>1 DEF NobodySignals, OneSignaller
  <2>3. worker \in {"wait", "asleep"} /\ ws # "SLEEP"
    BY <1>4, <2>2 DEF UpPaid, WaitPaid, AsleepPaid
  <2>4. QED
    BY <1>4, <1>5, <2>1, <2>2, <2>3 DEF UpPaid, WaitPaid, AsleepPaid
<1>9. CASE Control
  <2>1. ~Stop /\ ~CheckSleeping /\ ~StopSignals
    BY <1>2, <1>3, <1>4 DEF Stop, CheckSleeping, StopSignals, Started, TypeOK
  <2>2. Start
    BY <1>9, <2>1 DEF Control
  <2>3. control = "PAUSED"
    BY <1>3, <1>4, <2>2 DEF Start, Started, TypeOK
  <2>4. worker = "paused" /\ ws # "SLEEP"
    BY <1>4, <2>3 DEF Started, UpPaid
  <2>5. QED
    BY <1>4, <2>2, <2>4 DEF Start, condex, OneSignaller, UpPaid,
       WaitPaid, AsleepPaid, NobodySignals
<1>10. CASE Work
  <2>1. UNCHANGED <<control, writer, stopper>>
    BY <1>10 DEF Work, LeavePaused, LeaveLoop, BeginLoop, Pop, Take, SeeFilled, Swap,
       NoneCommitted, FindEmpty, CheckControl, CheckOther, Sleep, Wait, Awake
  <2>2. (NobodySignals <=> NobodySignals') /\ OneSignaller'
    BY <1>4, <2>1 DEF NobodySignals, OneSignaller
  <2>3. CASE LeavePaused \/ LeaveLoop \/ BeginLoop \/ (\E q \in Queue : Pop(q))
             \/ NoneCommitted \/ FindEmpty \/ CheckControl \/ CheckOther
    <3>1. worker \notin {"wait", "asleep"} /\ worker' \notin {"wait", "asleep"}
      BY <2>3 DEF LeavePaused, LeaveLoop, BeginLoop, Pop, Take, SeeFilled, Swap,
         AfterPop, Swapping, NoneCommitted, FindEmpty, CheckControl, CheckOther
    <3>2. ws # "SLEEP" /\ NobodySignals /\ signals = waits
      BY <1>4, <3>1 DEF UpPaid
    <3>3. ws' # "SLEEP" /\ UNCHANGED condex
      BY <2>3, <3>2 DEF LeavePaused, LeaveLoop, BeginLoop, Pop, Take, SeeFilled, Swap,
         AfterPop, Swapping, NoneCommitted, FindEmpty, CheckControl, CheckOther, NewWs, Wakes, condex
    <3>4. QED
      BY <2>2, <3>1, <3>2, <3>3 DEF UpPaid, WaitPaid, AsleepPaid, condex
  <2>4. CASE Sleep
    BY <1>4, <2>2, <2>4 DEF Sleep, condex, UpPaid, WaitPaid, AsleepPaid
  <2>5. CASE Wait
    BY <1>4, <1>5, <2>2, <2>5 DEF Wait, condex, UpPaid, WaitPaid, AsleepPaid
  <2>6. CASE Awake
    BY <1>4, <1>5, <2>2, <2>6 DEF Awake, condex, UpPaid, WaitPaid, AsleepPaid
  <2>7. QED
    BY <1>10, <2>3, <2>4, <2>5, <2>6 DEF Work
<1>11. CASE UNCHANGED vars
  BY <1>4, <1>11 DEF vars, OneSignaller, UpPaid, WaitPaid, AsleepPaid,
     NobodySignals
<1>12. QED
  BY <1>6, <1>7, <1>8, <1>9, <1>10, <1>11 DEF Next, Push

\* condex_wakeup() is called once for each condex_sleep() as long as stop()
\* is not called: outside a sleep the counters _signals and _waits agree
\* (condex.h, shore_worker.h:226-288), so no later wait() passes at once.
THEOREM OneSignalForOneSleep == Spec => []SignalsMatchWaits
<1>1. Init => SignalInv
  BY DEF Init, SignalInv, Started, OneSignaller, UpPaid, WaitPaid, AsleepPaid, NobodySignals
<1>2. TypeOK /\ SignalInv /\ [Next]_vars => SignalInv'
  BY SignalInvStep
<1>3. QED
  BY <1>1, <1>2, TypeCorrect, SignalInvImplies, PTL DEF Spec
=============================================================================

------------------------- MODULE GroupCommitProofs -------------------------
(***************************************************************************)
(* Group commit for any transactions, group size and log size: clients     *)
(* hear only of durable commits while nobody stops the flusher, and the    *)
(* queues are empty when it has stopped.                                   *)
(***************************************************************************)
EXTENDS GroupCommit, SequenceTheorems, FiniteSetTheorems, TLAPS

-----------------------------------------------------------------------------
(***************************************************************************)
(* Types.                                                                  *)
(***************************************************************************)
LEMMA DiskTypesStep == DiskTypes /\ [Next]_vars => DiskTypes'
<1> SUFFICES ASSUME DiskTypes, [Next]_vars PROVE DiskTypes'
  OBVIOUS
<1> USE DEF DiskTypes
<1>1. ASSUME NEW x \in Xct, CommitLazily(x) PROVE DiskTypes'
  BY <1>1 DEF CommitLazily
<1>2. ASSUME NEW x \in Xct, EnqueueToFlush(x) PROVE DiskTypes'
  BY <1>2 DEF EnqueueToFlush
<1>3. CASE WriteLog
  BY <1>3 DEF WriteLog
<1>4. CASE UNCHANGED disk
  BY <1>4 DEF disk
<1>5. QED
  BY <1>1, <1>2, <1>3, <1>4 DEF Next, vars, StopWorkers, StopFlusher, Flush, Loop, Check,
     CheckEmpty, DecideFlush, DecideLazy, Recheck, Synced, Reread, Move, StopNotifier,
     Drain, Notify, LoopNotifier, PopToNotify, NotifyPartitions, NotifyGonePartitions,
     NotifyClient, DrainNotifier

LEMMA ThreadTypesStep == ThreadTypes /\ [Next]_vars => ThreadTypes'
<1> SUFFICES ASSUME ThreadTypes, [Next]_vars PROVE ThreadTypes'
  OBVIOUS
<1> USE DEF ThreadTypes
<1>1. ASSUME NEW x \in Xct, CommitLazily(x) \/ EnqueueToFlush(x) PROVE ThreadTypes'
  BY <1>1 DEF CommitLazily, EnqueueToFlush, notify
<1>2. CASE WriteLog \/ StopWorkers \/ StopFlusher
  BY <1>2 DEF WriteLog, StopWorkers, StopFlusher, Misses, notify
<1>3. CASE Flush
  BY <1>3 DEF Flush, Loop, Check, CheckEmpty, DecideFlush, DecideLazy, Recheck, Synced,
     Reread, Move, StopNotifier, Drain, Misses, notify
<1>4. CASE Notify
  BY <1>4 DEF Notify, LoopNotifier, PopToNotify, NotifyPartitions, NotifyGonePartitions,
     NotifyClient,
     DrainNotifier
<1>5. CASE UNCHANGED vars
  BY <1>5 DEF vars, notify
<1>6. QED
  BY <1>1, <1>2, <1>3, <1>4, <1>5 DEF Next

\* The transactions at the head of a queue.
LEMMA HeadOf == ASSUME NEW s \in Seq(Xct), s # <<>>
                PROVE  Head(s) \in Xct /\ Tail(s) \in Seq(Xct)
  OBVIOUS

LEMMA AppendTo == ASSUME NEW s \in Seq(Xct), NEW x \in Xct
                  PROVE  Append(s, x) \in Seq(Xct)
  OBVIOUS

LEMMA LocalTypesStep ==
  DiskTypes /\ QueueTypes /\ LocalTypes /\ [Next]_vars => LocalTypes'
<1> SUFFICES ASSUME DiskTypes, QueueTypes, LocalTypes, [Next]_vars PROVE LocalTypes'
  OBVIOUS
<1>1. CASE UNCHANGED locals
  BY <1>1 DEF LocalTypes, locals
<1>2. CASE Loop
  BY <1>2 DEF LocalTypes, DiskTypes, Loop
<1>3. CASE CheckEmpty \/ DecideFlush
  BY <1>3 DEF LocalTypes, CheckEmpty, DecideFlush
<1>4. CASE DecideLazy
  BY <1>4 DEF LocalTypes, DiskTypes, DecideLazy
<1>5. CASE Recheck
  BY <1>5 DEF LocalTypes, DiskTypes, Recheck
<1>6. CASE Synced
  BY <1>6 DEF LocalTypes, Synced
<1>7. CASE Reread
  BY <1>7 DEF LocalTypes, DiskTypes, Reread
<1>8. CASE Check
  <2>1. Head(toflush) \in Xct
    BY <1>8, HeadOf DEF Check, QueueTypes
  <2>2. lsn[Head(toflush)] \in Nat
    BY <2>1 DEF DiskTypes
  <2>3. maxlsn' \in {maxlsn, lsn[Head(toflush)]} /\ waiting' \in {waiting, waiting + 1}
    BY <1>8 DEF Check
  <2>4. sleepNext' = FALSE /\ UNCHANGED <<durablelsn, flush, target>>
    BY <1>8 DEF Check
  <2>5. maxlsn' \in Nat /\ waiting' \in Nat
    BY <2>2, <2>3 DEF LocalTypes
  <2>6. QED
    BY <2>4, <2>5 DEF LocalTypes
<1>9. CASE Move \/ StopNotifier \/ Drain \/ Notify
  BY <1>1, <1>9 DEF Move, StopNotifier, Drain, Notify, LoopNotifier, PopToNotify,
     NotifyPartitions, NotifyGonePartitions,
     NotifyClient, DrainNotifier
<1>10. ASSUME NEW x \in Xct, CommitLazily(x) \/ EnqueueToFlush(x) PROVE LocalTypes'
  BY <1>1, <1>10 DEF CommitLazily, EnqueueToFlush
<1>11. CASE WriteLog \/ StopWorkers \/ StopFlusher \/ UNCHANGED vars
  BY <1>1, <1>11 DEF WriteLog, StopWorkers, StopFlusher, vars
<1>12. QED
  BY <1>2, <1>3, <1>4, <1>5, <1>6, <1>7, <1>8, <1>9, <1>10, <1>11 DEF Next, Flush

LEMMA QueueTypesStep == QueueTypes /\ [Next]_vars => QueueTypes'
<1> SUFFICES ASSUME QueueTypes, [Next]_vars PROVE QueueTypes'
  OBVIOUS
<1>1. CASE UNCHANGED <<queues, told, back, held>>
  BY <1>1 DEF QueueTypes, queues
<1>2. ASSUME NEW x \in Xct, EnqueueToFlush(x) PROVE QueueTypes'
  BY <1>2 DEF QueueTypes, EnqueueToFlush, notify
<1>3. ASSUME NEW x \in Xct, CommitLazily(x) PROVE QueueTypes'
  BY <1>1, <1>3 DEF CommitLazily, notify
<1>4. CASE WriteLog \/ StopWorkers \/ StopFlusher \/ UNCHANGED vars
  BY <1>1, <1>4 DEF WriteLog, StopWorkers, StopFlusher, vars, notify
<1>5. CASE Loop \/ CheckEmpty \/ DecideFlush \/ DecideLazy \/ Recheck
  BY <1>1, <1>5 DEF Loop, CheckEmpty, DecideFlush, DecideLazy, Recheck, notify
<1>6. CASE Synced \/ Reread \/ StopNotifier \/ LoopNotifier
  BY <1>1, <1>6 DEF Synced, Reread, StopNotifier, LoopNotifier, notify
<1>7. CASE Check
  <2>1. Head(toflush) \in Xct /\ Tail(toflush) \in Seq(Xct)
    BY <1>7, HeadOf DEF Check, QueueTypes
  <2>2. toflush' = Tail(toflush) /\ UNCHANGED <<back, held>>
    BY <1>7 DEF Check, notify
  <2>3. /\ flushing' \in {flushing, Append(flushing, Head(toflush))}
        /\ tonotify' \in {tonotify, Append(tonotify, Head(toflush))}
        /\ told' \in {told, Append(told, Head(toflush))}
    BY <1>7 DEF Check, Deliver
  <2>4. flushing' \in Seq(Xct) /\ tonotify' \in Seq(Xct) /\ told' \in Seq(Xct)
    BY <2>1, <2>3, AppendTo, Zenon DEF QueueTypes
  <2>5. QED
    BY <2>1, <2>2, <2>4 DEF QueueTypes
<1>8. CASE Move
  <2>1. CASE flushing = <<>>
    BY <1>1, <1>8, <2>1 DEF Move, queues, notify
  <2>2. CASE flushing # <<>>
    <3>1. Head(flushing) \in Xct /\ Tail(flushing) \in Seq(Xct)
      BY <2>2, HeadOf DEF QueueTypes
    <3>2. flushing' = Tail(flushing) /\ UNCHANGED <<toflush, back, held>>
      BY <1>8, <2>2 DEF Move, notify
    <3>3. /\ tonotify' \in {tonotify, Append(tonotify, Head(flushing))}
          /\ told' \in {told, Append(told, Head(flushing))}
      BY <1>8, <2>2 DEF Move, Deliver
    <3>4. tonotify' \in Seq(Xct) /\ told' \in Seq(Xct)
      BY <3>1, <3>3, AppendTo, Zenon DEF QueueTypes
    <3>5. QED
      BY <3>1, <3>2, <3>4 DEF QueueTypes
  <2>3. QED
    BY <2>1, <2>2
<1>9. CASE Drain
  <2>1. UNCHANGED <<tonotify, back, held>>
    BY <1>9 DEF Drain, notify
  <2>2. ASSUME flushing # <<>>, flushing' = Tail(flushing),
               told' = Append(told, Head(flushing)), toflush' = toflush
        PROVE  QueueTypes'
    <3>1. Head(flushing) \in Xct /\ Tail(flushing) \in Seq(Xct)
      BY <2>2, HeadOf DEF QueueTypes
    <3>2. told' \in Seq(Xct)
      BY <2>2, <3>1, AppendTo, Zenon DEF QueueTypes
    <3>3. QED
      BY <2>1, <2>2, <3>1, <3>2 DEF QueueTypes
  <2>3. ASSUME toflush # <<>>, toflush' = Tail(toflush),
               told' = Append(told, Head(toflush)), flushing' = flushing
        PROVE  QueueTypes'
    <3>1. Head(toflush) \in Xct /\ Tail(toflush) \in Seq(Xct)
      BY <2>3, HeadOf DEF QueueTypes
    <3>2. told' \in Seq(Xct)
      BY <2>3, <3>1, AppendTo, Zenon DEF QueueTypes
    <3>3. QED
      BY <2>1, <2>3, <3>1, <3>2 DEF QueueTypes
  <2>4. ASSUME UNCHANGED <<toflush, flushing, told>> PROVE QueueTypes'
    BY <1>1, <2>1, <2>4 DEF queues
  <2>5. QED
    BY <1>9, <2>2, <2>3, <2>4 DEF Drain
<1>10. CASE PopToNotify \/ DrainNotifier
  <2>1. UNCHANGED <<toflush, flushing, back>>
    BY <1>10 DEF PopToNotify, DrainNotifier
  <2>2. CASE tonotify = <<>>
    BY <1>1, <1>10, <2>2 DEF PopToNotify, DrainNotifier, queues
  <2>3. CASE tonotify # <<>>
    <3>1. Head(tonotify) \in Xct /\ Tail(tonotify) \in Seq(Xct)
      BY <2>3, HeadOf DEF QueueTypes
    <3>2. /\ tonotify' = Tail(tonotify)
          /\ held' \in {held, <<Head(tonotify)>>}
          /\ told' \in {told, Append(told, Head(tonotify))}
      BY <1>10, <2>3 DEF PopToNotify, DrainNotifier
    <3>3. <<Head(tonotify)>> \in Seq(Xct)
      BY <3>1
    <3>4. held' \in Seq(Xct) /\ told' \in Seq(Xct)
      BY <3>1, <3>2, <3>3, AppendTo, Zenon DEF QueueTypes
    <3>5. QED
      BY <2>1, <3>1, <3>2, <3>4 DEF QueueTypes
  <2>4. QED
    BY <2>2, <2>3
<1>11. CASE NotifyPartitions \/ NotifyGonePartitions \/ NotifyClient
  <2>1. UNCHANGED queues
    BY <1>11 DEF NotifyPartitions, NotifyGonePartitions,
     NotifyClient
  <2>2. told' \in {told, told \o held} /\ held' \in {held, <<>>}
    BY <1>11 DEF NotifyPartitions, NotifyGonePartitions,
     NotifyClient
  <2>3. told' \in Seq(Xct) /\ held' \in Seq(Xct)
    <3>1. told \o held \in Seq(Xct) /\ <<>> \in Seq(Xct)
      BY ConcatProperties DEF QueueTypes
    <3>2. QED
      BY <2>2, <3>1, Zenon DEF QueueTypes
  <2>4. back' \subseteq Xct
    BY <1>11 DEF NotifyPartitions, NotifyGonePartitions,
     NotifyClient, QueueTypes
  <2>5. QED
    BY <2>1, <2>3, <2>4 DEF QueueTypes, queues
<1>12. QED
  BY <1>2, <1>3, <1>4, <1>5, <1>6, <1>7, <1>8, <1>9, <1>10, <1>11 DEF Next, Flush, Notify

\* Log, queues, locals and control words keep their types.
THEOREM TypeCorrect == Spec => []TypeOK
<1>1. Init => TypeOK
  <2>1. ASSUME Init PROVE DiskTypes /\ LocalTypes
    <3>1. log = 1 /\ durable = 1 /\ lsn = [x \in Xct |-> 0]
          /\ place = [x \in Xct |-> "running"]
      BY <2>1 DEF Init
    <3>2. DiskTypes
      BY <3>1 DEF DiskTypes
    <3>3. LocalTypes
      BY <2>1 DEF Init, LocalTypes
    <3>4. QED
      BY <3>2, <3>3
  <2>2. Init => QueueTypes
    BY DEF Init, QueueTypes
  <2>3. Init => ThreadTypes
    BY DEF Init, ThreadTypes
  <2>4. QED
    BY <2>1, <2>2, <2>3 DEF TypeOK
<1>2. TypeOK /\ [Next]_vars => TypeOK'
  BY DiskTypesStep, QueueTypesStep, LocalTypesStep, ThreadTypesStep DEF TypeOK
<1>3. QED
  BY <1>1, <1>2, PTL DEF Spec
-----------------------------------------------------------------------------
(***************************************************************************)
(* Shutdown: workers, then flusher, then notifier, and the flusher goes on *)
(* when the notifier has ended with an empty queue.                        *)
(***************************************************************************)
StopInv ==
    /\ control = "STOPPED" => workers = "stopped"
    /\ workers = "stopped" => Stopping /\ \A x \in Xct : place[x] # "committed"
    /\ flusher \in {"join", "drain", "stopped"} => control = "STOPPED"
    /\ ncontrol = "STOPPED" => flusher \in {"drain", "stopped"}
    /\ notifier = "drain" => ncontrol = "STOPPED"
    /\ notifier = "stopped" => tonotify = <<>> /\ (Dora => ncontrol = "STOPPED")
    /\ ~Dora => tonotify = <<>>
    /\ flusher = "stopped" => notifier = "stopped" /\ toflush = <<>> /\ flushing = <<>>

LEMMA StopStep == ThreadTypes /\ StopInv /\ [Next]_vars => StopInv'
<1> SUFFICES ASSUME ThreadTypes, StopInv, [Next]_vars PROVE StopInv'
  OBVIOUS
<1> USE DEF StopInv
<1>1. ASSUME NEW x \in Xct, CommitLazily(x) PROVE StopInv'
  BY <1>1 DEF CommitLazily, queues, notify
<1>2. ASSUME NEW x \in Xct, EnqueueToFlush(x) PROVE StopInv'
  BY <1>2 DEF EnqueueToFlush, notify
<1>3. CASE WriteLog \/ StopWorkers \/ StopFlusher
  BY <1>3 DEF WriteLog, StopWorkers, StopFlusher, queues, notify, disk
<1>4. CASE Loop
  BY <1>4 DEF Loop, ThreadTypes, queues, notify, disk
<1>5. CASE Check
  BY <1>5 DEF Check, Deliver, notify, disk
<1>6. CASE CheckEmpty \/ DecideFlush \/ DecideLazy
  BY <1>6 DEF CheckEmpty, DecideFlush, DecideLazy, queues, notify, disk
<1>7. CASE Recheck
  BY <1>7 DEF Recheck, ThreadTypes, queues, notify, disk
<1>8. CASE Synced \/ Reread
  BY <1>8 DEF Synced, Reread, queues, notify, disk
<1>9. CASE Move
  BY <1>9 DEF Move, Deliver, notify, disk
<1>10. CASE StopNotifier
  BY <1>10 DEF StopNotifier, queues, disk
<1>11. CASE Drain
  BY <1>11 DEF Drain, notify, disk
<1>12. CASE LoopNotifier
  BY <1>12 DEF LoopNotifier, ThreadTypes, queues, disk
<1>13. CASE PopToNotify
  BY <1>13 DEF PopToNotify, disk
<1>14. CASE NotifyPartitions \/ NotifyGonePartitions \/ NotifyClient
  BY <1>14 DEF NotifyPartitions, NotifyGonePartitions,
     NotifyClient, queues, disk
<1>15. CASE DrainNotifier
  BY <1>15 DEF DrainNotifier, disk
<1>16. CASE UNCHANGED vars
  BY <1>16 DEF vars, queues, notify, disk
<1>17. QED
  BY <1>1, <1>2, <1>3, <1>4, <1>5, <1>6, <1>7, <1>8, <1>9, <1>10, <1>11, <1>12, <1>13,
     <1>14, <1>15, <1>16 DEF Next, Flush, Notify

\* The queues are empty when the flusher ends (destructors of flusher_t,
\* dora_flusher_t and dora_notifier_t), in whatever step the stop falls.
THEOREM OrderlyStop == Spec => []EmptyAtStop
<1>1. Init => StopInv
  BY GroupAssumption DEF Init, StopInv
<1>2. ThreadTypes /\ StopInv /\ [Next]_vars => StopInv'
  BY StopStep
<1>3. TypeOK => ThreadTypes
  BY DEF TypeOK
<1>4. StopInv => EmptyAtStop
  BY DEF StopInv, EmptyAtStop
<1>5. QED
  BY <1>1, <1>2, <1>3, <1>4, TypeCorrect, PTL DEF Spec

-----------------------------------------------------------------------------
(***************************************************************************)
(* Durability.                                                             *)
(***************************************************************************)
\* All of a queue were committed, below position d.
Below(s, pl, ls, d) == \A i \in DOMAIN s : pl[s[i]] = "sent" /\ ls[s[i]] < d

\* The positions follow each other, and the queues that are told are durable.
LogInv ==
    /\ durable <= log /\ durablelsn <= durable /\ target <= log
    /\ \A x \in Xct : place[x] # "running" => lsn[x] < log
    /\ Below(toflush, place, lsn, log)

ToldInv ==
    /\ Below(tonotify, place, lsn, durable)
    /\ Below(held, place, lsn, durable)
    /\ Below(told, place, lsn, durable)

\* What is in flight is durable when it is moved.
FlightInv ==
    /\ Below(flushing, place, lsn, log)
    /\ flusher = "top" => flushing = <<>>
    /\ flusher \in {"check", "decide"} /\ waiting = 0 => flushing = <<>>
    /\ flusher = "sync" => Below(flushing, place, lsn, target)
    /\ flusher = "recheck" /\ ~flush => Below(flushing, place, lsn, durable)
    /\ flusher = "reread" => Below(flushing, place, lsn, durable)
    /\ flusher = "move" => Below(flushing, place, lsn, durablelsn)

DurableInv == LogInv /\ ToldInv /\ FlightInv

\* How such queues grow, shrink, and last.
LEMMA BelowGrows ==
  ASSUME NEW s \in Seq(Xct), NEW x \in Xct, NEW pl, NEW ls, NEW d,
         Below(s, pl, ls, d), pl[x] = "sent", ls[x] < d
  PROVE  Below(Append(s, x), pl, ls, d)
<1>1. SUFFICES ASSUME NEW i \in DOMAIN Append(s, x)
               PROVE  pl[Append(s, x)[i]] = "sent" /\ ls[Append(s, x)[i]] < d
  BY DEF Below
<1>2. Append(s, x)[i] = x \/ (i \in DOMAIN s /\ Append(s, x)[i] = s[i])
  BY <1>1
<1>3. QED
  BY <1>2 DEF Below

LEMMA BelowShrinks ==
  ASSUME NEW s \in Seq(Xct), s # <<>>, NEW pl, NEW ls, NEW d, Below(s, pl, ls, d)
  PROVE  Below(Tail(s), pl, ls, d) /\ pl[Head(s)] = "sent" /\ ls[Head(s)] < d
<1>1. \A i \in DOMAIN Tail(s) : i + 1 \in DOMAIN s /\ Tail(s)[i] = s[i + 1]
  OBVIOUS
<1>2. 1 \in DOMAIN s /\ Head(s) = s[1]
  OBVIOUS
<1>3. QED
  BY <1>1, <1>2 DEF Below

LEMMA BelowLasts ==
  ASSUME NEW s \in Seq(Xct), NEW pl, NEW pl2, NEW ls \in [Xct -> Nat], NEW ls2,
         NEW d \in Nat, NEW e \in Nat, d <= e, Below(s, pl, ls, d),
         \A x \in Xct : pl[x] = "sent" => pl2[x] = "sent" /\ ls2[x] = ls[x]
  PROVE  Below(s, pl2, ls2, e)
<1>1. SUFFICES ASSUME NEW i \in DOMAIN s
               PROVE  pl2[s[i]] = "sent" /\ ls2[s[i]] < e
  BY DEF Below
<1>2. s[i] \in Xct
  BY <1>1
<1>3. pl[s[i]] = "sent" /\ ls[s[i]] < d
  BY <1>1 DEF Below
<1>4. ls2[s[i]] = ls[s[i]] /\ ls[s[i]] \in Nat /\ pl2[s[i]] = "sent"
  BY <1>2, <1>3
<1>5. QED
  BY <1>3, <1>4

LEMMA BelowEmpty == \A pl, ls, d : Below(<<>>, pl, ls, d)
  BY DEF Below

\* Workers and storage manager: the queues last.
LEMMA QueuesLast ==
  ASSUME DiskTypes, DiskTypes', QueueTypes, LocalTypes, DurableInv,
         log <= log', durable <= durable', durable' <= log',
         \A x \in Xct : place[x] = "sent" => place'[x] = "sent" /\ lsn'[x] = lsn[x],
         \A x \in Xct : place'[x] # "running" => lsn'[x] < log',
         UNCHANGED <<flushing, tonotify, told, held, flusher, locals>>
  PROVE  ToldInv' /\ FlightInv' /\ (toflush' = toflush => LogInv')
<1> DEFINE Lasts(s, d, e) == Below(s, place, lsn, d) => Below(s, place', lsn', e)
<1>1. /\ log \in Nat /\ durable \in Nat /\ lsn \in [Xct -> Nat]
      /\ log' \in Nat /\ durable' \in Nat
  BY DEF DiskTypes
<1>2. \A s \in Seq(Xct), d, e \in Nat : d <= e => Lasts(s, d, e)
  BY <1>1, BelowLasts
<1>3. /\ toflush \in Seq(Xct) /\ flushing \in Seq(Xct) /\ tonotify \in Seq(Xct)
      /\ held \in Seq(Xct) /\ told \in Seq(Xct)
  BY DEF QueueTypes
<1>4. /\ target \in Nat /\ durablelsn \in Nat
  BY DEF LocalTypes
<1>5. /\ flushing' = flushing /\ tonotify' = tonotify /\ told' = told /\ held' = held
      /\ flusher' = flusher /\ waiting' = waiting /\ flush' = flush
      /\ target' = target /\ durablelsn' = durablelsn
  BY DEF locals
<1>6. /\ Lasts(toflush, log, log') /\ Lasts(flushing, log, log')
      /\ Lasts(tonotify, durable, durable') /\ Lasts(held, durable, durable')
      /\ Lasts(told, durable, durable') /\ Lasts(flushing, target, target)
      /\ Lasts(flushing, durable, durable') /\ Lasts(flushing, durablelsn, durablelsn)
  <2> HIDE DEF Lasts
  <2>1. target <= target /\ durablelsn <= durablelsn
    BY <1>4
  <2>2. QED
    BY <1>1, <1>2, <1>3, <1>4, <2>1
<1>7. ToldInv'
  BY <1>5, <1>6 DEF DurableInv, ToldInv
<1>8. FlightInv'
  BY <1>5, <1>6 DEF DurableInv, FlightInv
<1>9. ASSUME toflush' = toflush PROVE LogInv'
  <2>1. Below(toflush', place', lsn', log')
    BY <1>6, <1>9 DEF DurableInv, LogInv
  <2>2. durablelsn' <= durable' /\ target' <= log'
    BY <1>1, <1>4, <1>5 DEF DurableInv, LogInv
  <2>3. QED
    BY <2>1, <2>2 DEF LogInv
<1>10. QED
  BY <1>7, <1>8, <1>9

\* A durable transaction is delivered.
LEMMA DeliverTold ==
  ASSUME QueueTypes, ToldInv, UNCHANGED <<disk, held>>,
         NEW x \in Xct, place[x] = "sent", lsn[x] < durable, Deliver(x)
  PROVE  ToldInv'
<1>1. tonotify \in Seq(Xct) /\ told \in Seq(Xct)
  BY DEF QueueTypes
<1>2. /\ Below(Append(tonotify, x), place, lsn, durable)
      /\ Below(Append(told, x), place, lsn, durable)
  BY <1>1, BelowGrows DEF ToldInv
<1>3. /\ tonotify' \in {tonotify, Append(tonotify, x)}
      /\ told' \in {told, Append(told, x)}
  BY DEF Deliver
<1>4. place' = place /\ lsn' = lsn /\ durable' = durable /\ held' = held
  BY DEF disk
<1>5. QED
  BY <1>2, <1>3, <1>4 DEF ToldInv

LEMMA DiskDurable ==
  ASSUME TypeOK, DurableInv,
         NEW x \in Xct, CommitLazily(x) \/ EnqueueToFlush(x)
  PROVE  DiskTypes' => DurableInv'
<1> SUFFICES ASSUME DiskTypes' PROVE DurableInv'
  OBVIOUS
<1>1. /\ log \in Nat /\ durable \in Nat /\ durable <= log /\ lsn \in [Xct -> Nat]
      /\ place \in [Xct -> {"running", "committed", "sent"}]
      /\ \A y \in Xct : place[y] # "running" => lsn[y] < log
      /\ DiskTypes /\ QueueTypes /\ LocalTypes
  BY DEF TypeOK, DiskTypes, DurableInv, LogInv
<1>2. CASE CommitLazily(x)
  <2>1. /\ log' = log + 1 /\ durable' = durable /\ lsn' = [lsn EXCEPT ![x] = log]
        /\ place' = [place EXCEPT ![x] = "committed"] /\ place[x] = "running"
        /\ UNCHANGED <<queues, told, held, flusher, locals>>
    BY <1>2 DEF CommitLazily, notify
  <2>2. /\ log <= log' /\ durable <= durable' /\ durable' <= log'
        /\ UNCHANGED <<toflush, flushing, tonotify, told, held, flusher, locals>>
    BY <1>1, <2>1 DEF queues
  <2>3. \A y \in Xct : place[y] = "sent" => place'[y] = "sent" /\ lsn'[y] = lsn[y]
    BY <1>1, <2>1
  <2>4. \A y \in Xct : place'[y] # "running" => lsn'[y] < log'
    BY <1>1, <2>1
  <2>5. QED
    BY <1>1, <2>2, <2>3, <2>4, QueuesLast DEF DurableInv
<1>3. CASE EnqueueToFlush(x)
  <2>1. /\ log' = log /\ durable' = durable /\ lsn' = lsn
        /\ place' = [place EXCEPT ![x] = "sent"] /\ place[x] = "committed"
        /\ toflush' = Append(toflush, x)
        /\ UNCHANGED <<flushing, tonotify, told, held, flusher, locals>>
    BY <1>3 DEF EnqueueToFlush, notify
  <2>2. log <= log' /\ durable <= durable' /\ durable' <= log'
    BY <1>1, <2>1
  <2>3. \A y \in Xct : place[y] = "sent" => place'[y] = "sent" /\ lsn'[y] = lsn[y]
    BY <1>1, <2>1
  <2>4. \A y \in Xct : place'[y] # "running" => lsn'[y] < log'
    BY <1>1, <2>1
  <2>5. ToldInv' /\ FlightInv'
    BY <1>1, <2>1, <2>2, <2>3, <2>4, QueuesLast
  <2>6. Below(toflush', place', lsn', log')
    <3>1. toflush \in Seq(Xct) /\ Below(toflush, place, lsn, log)
      BY <1>1 DEF QueueTypes, DurableInv, LogInv
    <3>2. Below(toflush, place', lsn', log')
      BY <1>1, <2>1, <2>2, <2>3, <3>1, BelowLasts
    <3>3. place'[x] = "sent" /\ lsn'[x] < log'
      BY <1>1, <2>1
    <3>4. QED
      BY <2>1, <3>1, <3>2, <3>3, BelowGrows
  <2>7. LogInv'
    BY <1>1, <2>1, <2>4, <2>6 DEF DurableInv, LogInv, locals
  <2>8. QED
    BY <2>5, <2>7 DEF DurableInv
<1>4. QED
  BY <1>2, <1>3

LEMMA WriteLogDurable ==
  ASSUME TypeOK, DurableInv, WriteLog
  PROVE  DurableInv'
<1>1. /\ log \in Nat /\ durable \in Nat /\ durable <= log
      /\ \A y \in Xct : place[y] # "running" => lsn[y] < log
      /\ DiskTypes /\ QueueTypes /\ LocalTypes
  BY DEF TypeOK, DiskTypes, DurableInv, LogInv
<1>2. PICK d \in (durable + 1)..log : durable' = d
  BY DEF WriteLog
<1>3. /\ UNCHANGED <<log, lsn, place, toflush, flushing, tonotify, told, held, flusher, locals>>
  BY DEF WriteLog, queues, notify
<1>4. durable <= durable' /\ durable' <= log' /\ log <= log' /\ DiskTypes'
  BY <1>1, <1>2, <1>3 DEF DiskTypes
<1>5. \A y \in Xct : place'[y] # "running" => lsn'[y] < log'
  BY <1>1, <1>3
<1>6. QED
  BY <1>1, <1>3, <1>4, <1>5, QueuesLast DEF DurableInv

\* The flusher, which nobody stops.
LEMMA FlushDurable ==
  ASSUME TypeOK, DurableInv, Flush, control = "ACTIVE",
         flusher \notin {"join", "drain", "stopped"}
  PROVE  DurableInv'
<1>1. /\ log \in Nat /\ durable \in Nat /\ durable <= log
      /\ lsn \in [Xct -> Nat] /\ target \in Nat /\ durablelsn \in Nat /\ waiting \in Nat
      /\ toflush \in Seq(Xct) /\ flushing \in Seq(Xct) /\ tonotify \in Seq(Xct)
      /\ QueueTypes /\ durablelsn <= durable /\ target <= log
      /\ ToldInv /\ FlightInv /\ LogInv
  BY DEF TypeOK, DiskTypes, QueueTypes, LocalTypes, DurableInv, LogInv
<1>2. UNCHANGED <<log, durable, lsn, place, held>>
  BY DEF Flush, Loop, Check, CheckEmpty, DecideFlush, DecideLazy, Recheck, Synced, Reread,
     Move, StopNotifier, Drain, disk, notify
<1>3. ASSUME UNCHANGED <<tonotify, told>> PROVE ToldInv'
  BY <1>1, <1>2, <1>3 DEF ToldInv
<1>4. ASSUME durablelsn' \in {durable, durablelsn}, target' \in {target, log},
             toflush' = toflush
      PROVE  LogInv'
  BY <1>1, <1>2, <1>4 DEF LogInv
<1>5. \A s \in Seq(Xct), d, e \in Nat :
         d <= e /\ Below(s, place, lsn, d) => Below(s, place, lsn, e)
  BY <1>1, BelowLasts
<1>6. CASE Loop
  <2>1. /\ flusher = "top" /\ flusher' = "check" /\ durablelsn' = durable /\ target' = target
        /\ UNCHANGED <<queues, told, waiting>>
    BY <1>6 DEF Loop
  <2>2. FlightInv'
    BY <1>1, <1>2, <2>1 DEF FlightInv, queues
  <2>3. QED
    BY <1>3, <1>4, <2>1, <2>2 DEF DurableInv, queues
<1>7. CASE Check
  <2> DEFINE x == Head(toflush)
  <2>1. /\ flusher = "check" /\ flusher' = "check" /\ toflush # <<>>
        /\ toflush' = Tail(toflush) /\ UNCHANGED <<durablelsn, target>>
    BY <1>7 DEF Check
  <2>2. /\ Below(Tail(toflush), place, lsn, log) /\ place[x] = "sent" /\ lsn[x] < log
        /\ x \in Xct
    BY <1>1, <2>1, BelowShrinks, HeadOf DEF LogInv
  <2>3. LogInv'
    BY <1>1, <1>2, <2>1, <2>2 DEF LogInv
  <2>4. CASE durablelsn > lsn[x]
    <3>1. Deliver(x) /\ UNCHANGED <<flushing, waiting>>
      BY <1>7, <2>4 DEF Check
    <3>2. lsn[x] < durable
      BY <1>1, <2>2, <2>4
    <3>3. ToldInv'
      BY <1>1, <1>2, <2>2, <3>1, <3>2, DeliverTold DEF disk
    <3>4. FlightInv'
      BY <1>1, <1>2, <2>1, <3>1 DEF FlightInv
    <3>5. QED
      BY <2>3, <3>3, <3>4 DEF DurableInv
  <2>5. CASE ~(durablelsn > lsn[x])
    <3>1. /\ flushing' = Append(flushing, x) /\ waiting' = waiting + 1
          /\ UNCHANGED <<tonotify, told>>
      BY <1>7, <2>5 DEF Check
    <3>2. Below(Append(flushing, x), place, lsn, log)
      BY <1>1, <2>2, BelowGrows DEF FlightInv
    <3>3. waiting' # 0
      BY <1>1, <3>1
    <3>4. FlightInv'
      BY <1>2, <2>1, <3>1, <3>2, <3>3 DEF FlightInv
    <3>5. QED
      BY <1>3, <2>3, <3>1, <3>4 DEF DurableInv
  <2>6. QED
    BY <2>4, <2>5
<1>8. CASE CheckEmpty
  <2>1. /\ flusher = "check" /\ flusher' = "decide"
        /\ UNCHANGED <<toflush, flushing, tonotify, told, waiting, durablelsn, target>>
    BY <1>8 DEF CheckEmpty, queues
  <2>2. FlightInv'
    BY <1>1, <1>2, <2>1 DEF FlightInv
  <2>3. QED
    BY <1>3, <1>4, <2>1, <2>2 DEF DurableInv
<1>9. CASE DecideFlush
  <2>1. /\ flusher' = "recheck" /\ flush' = TRUE
        /\ UNCHANGED <<toflush, flushing, tonotify, told, waiting, durablelsn, target>>
    BY <1>9 DEF DecideFlush, queues
  <2>2. FlightInv'
    BY <1>1, <1>2, <2>1 DEF FlightInv
  <2>3. QED
    BY <1>3, <1>4, <2>1, <2>2 DEF DurableInv
<1>10. CASE DecideLazy
  <2>1. /\ flusher = "decide"
        /\ \/ waiting > 0 /\ flusher' = "sync" /\ target' = log
           \/ waiting = 0 /\ flusher' = "recheck" /\ target' = target
        /\ UNCHANGED <<toflush, flushing, tonotify, told, waiting, durablelsn, flush>>
    BY <1>1, <1>10 DEF DecideLazy, queues
  <2>2. FlightInv'
    BY <1>1, <1>2, <2>1, BelowEmpty DEF FlightInv
  <2>3. QED
    BY <1>3, <1>4, <2>1, <2>2 DEF DurableInv
<1>11. CASE Recheck
  <2>1. /\ flusher = "recheck"
        /\ \/ flush /\ flusher' = "sync" /\ target' = log
           \/ ~flush /\ flusher' = "reread" /\ target' = target
        /\ UNCHANGED <<toflush, flushing, tonotify, told, waiting, durablelsn, flush>>
    BY <1>11 DEF Recheck, queues
  <2>2. FlightInv'
    BY <1>1, <1>2, <2>1 DEF FlightInv
  <2>3. QED
    BY <1>3, <1>4, <2>1, <2>2 DEF DurableInv
<1>12. CASE Synced
  <2>1. /\ flusher = "sync" /\ target <= durable
        /\ \/ flush /\ flusher' = "reread"
           \/ ~flush /\ flusher' = "recheck"
        /\ UNCHANGED <<toflush, flushing, tonotify, told, durablelsn, flush, target>>
    BY <1>1, <1>12 DEF Synced, queues
  <2>2. Below(flushing, place, lsn, durable)
    BY <1>1, <1>5, <2>1 DEF FlightInv
  <2>3. FlightInv'
    BY <1>1, <1>2, <2>1, <2>2 DEF FlightInv
  <2>4. QED
    BY <1>3, <1>4, <2>1, <2>3 DEF DurableInv
<1>13. CASE Reread
  <2>1. /\ flusher = "reread" /\ flusher' = "move" /\ durablelsn' = durable
        /\ UNCHANGED <<toflush, flushing, tonotify, told, waiting, flush, target>>
    BY <1>13 DEF Reread, queues
  <2>2. FlightInv'
    BY <1>1, <1>2, <2>1 DEF FlightInv
  <2>3. QED
    BY <1>3, <1>4, <2>1, <2>2 DEF DurableInv
<1>14. CASE Move
  <2>1. flusher = "move" /\ UNCHANGED <<toflush, durablelsn, target, waiting, flush>>
    BY <1>14 DEF Move, locals
  <2>2. LogInv'
    BY <1>4, <2>1
  <2>3. CASE flushing = <<>>
    <3>1. flusher' = "top" /\ UNCHANGED <<flushing, tonotify, told>>
      BY <1>14, <2>3 DEF Move
    <3>2. FlightInv'
      BY <1>1, <1>2, <2>3, <3>1 DEF FlightInv
    <3>3. QED
      BY <1>3, <2>2, <3>1, <3>2 DEF DurableInv
  <2>4. CASE flushing # <<>>
    <3> DEFINE x == Head(flushing)
    <3>1. flusher' = "move" /\ flushing' = Tail(flushing) /\ Deliver(x)
      BY <1>14, <2>1, <2>4 DEF Move
    <3>2. /\ Below(Tail(flushing), place, lsn, durablelsn) /\ place[x] = "sent"
          /\ lsn[x] < durablelsn /\ Below(Tail(flushing), place, lsn, log) /\ x \in Xct
      BY <1>1, <2>1, <2>4, BelowShrinks, HeadOf DEF FlightInv
    <3>3. lsn[x] < durable
      BY <1>1, <3>2
    <3>4. ToldInv'
      BY <1>1, <1>2, <3>1, <3>2, <3>3, DeliverTold DEF disk
    <3>5. FlightInv'
      BY <1>2, <2>1, <3>1, <3>2 DEF FlightInv
    <3>6. QED
      BY <2>2, <3>4, <3>5 DEF DurableInv
  <2>5. QED
    BY <2>3, <2>4
<1>15. QED
  BY <1>6, <1>7, <1>8, <1>9, <1>10, <1>11, <1>12, <1>13, <1>14 DEF Flush, StopNotifier, Drain

\* The notifier, which nobody stops.
LEMMA NotifyDurable ==
  ASSUME TypeOK, DurableInv, Notify, notifier # "drain"
  PROVE  DurableInv'
<1>1. /\ tonotify \in Seq(Xct) /\ held \in Seq(Xct) /\ told \in Seq(Xct)
      /\ ToldInv /\ FlightInv /\ LogInv
  BY DEF TypeOK, QueueTypes, DurableInv
<1>2. /\ UNCHANGED <<log, durable, lsn, place, toflush, flushing, flusher, locals>>
  BY DEF Notify, LoopNotifier, PopToNotify, NotifyPartitions, NotifyGonePartitions,
     NotifyClient, DrainNotifier, disk, queues
<1>3. LogInv' /\ FlightInv'
  BY <1>1, <1>2 DEF LogInv, FlightInv, locals
<1>4. ASSUME UNCHANGED <<tonotify, held, told>> PROVE ToldInv'
  BY <1>1, <1>2, <1>4 DEF ToldInv
<1>5. CASE LoopNotifier \/ NotifyPartitions \/ NotifyGonePartitions
  BY <1>3, <1>4, <1>5 DEF LoopNotifier, NotifyPartitions, NotifyGonePartitions, queues, DurableInv
<1>6. CASE PopToNotify
  <2>1. CASE tonotify = <<>>
    BY <1>3, <1>4, <1>6, <2>1 DEF PopToNotify, DurableInv
  <2>2. CASE tonotify # <<>>
    <3>1. held' = <<Head(tonotify)>> /\ tonotify' = Tail(tonotify) /\ told' = told
      BY <1>6, <2>2 DEF PopToNotify
    <3>2. /\ Below(Tail(tonotify), place, lsn, durable)
          /\ place[Head(tonotify)] = "sent" /\ lsn[Head(tonotify)] < durable
      BY <1>1, <2>2, BelowShrinks DEF ToldInv
    <3>3. Below(<<Head(tonotify)>>, place, lsn, durable)
      BY <3>2 DEF Below
    <3>4. ToldInv'
      BY <1>1, <1>2, <3>1, <3>2, <3>3 DEF ToldInv
    <3>5. QED
      BY <1>3, <3>4 DEF DurableInv
  <2>3. QED
    BY <2>1, <2>2
<1>7. CASE NotifyClient
  <2>1. told' = told \o held /\ held' = <<>> /\ tonotify' = tonotify
    BY <1>7 DEF NotifyClient, queues
  <2>2. Below(told \o held, place, lsn, durable)
    <3>1. \A i \in DOMAIN (told \o held) :
             \/ i \in DOMAIN told /\ (told \o held)[i] = told[i]
             \/ i - Len(told) \in DOMAIN held /\ (told \o held)[i] = held[i - Len(told)]
      BY <1>1
    <3>2. QED
      BY <1>1, <3>1 DEF ToldInv, Below
  <2>3. ToldInv'
    BY <1>1, <1>2, <2>1, <2>2, BelowEmpty DEF ToldInv
  <2>4. QED
    BY <1>3, <2>3 DEF DurableInv
<1>8. QED
  BY <1>5, <1>6, <1>7 DEF Notify, DrainNotifier

\* A client hears of its commit only when its record is on disk
\* (terminal_rvp_t::_run, _check_waiting and _move_from_flushing), until
\* somebody stops the flusher.
THEOREM ToldAfterFlush == Spec => []DurableWhileActive
<1> DEFINE ActiveInv == control = "ACTIVE" => DurableInv
<1>1. Init => ActiveInv
  <2> SUFFICES ASSUME Init PROVE DurableInv
    OBVIOUS
  <2>1. LogInv
    BY BelowEmpty DEF Init, LogInv
  <2>2. ToldInv
    BY BelowEmpty DEF Init, ToldInv
  <2>3. FlightInv
    BY BelowEmpty DEF Init, FlightInv
  <2>4. QED
    BY <2>1, <2>2, <2>3 DEF DurableInv
<1>2. TypeOK /\ StopInv /\ ActiveInv /\ [Next]_vars => ActiveInv'
  <2> SUFFICES ASSUME TypeOK, StopInv, ActiveInv, [Next]_vars, control' = "ACTIVE"
               PROVE DurableInv'
    OBVIOUS
  <2>1. control = "ACTIVE"
    BY DEF Next, CommitLazily, EnqueueToFlush, WriteLog, StopWorkers, StopFlusher, Flush,
       Loop, Check, CheckEmpty, DecideFlush, DecideLazy, Recheck, Synced, Reread, Move,
       StopNotifier, Drain, Notify, LoopNotifier, PopToNotify, NotifyPartitions,
       NotifyGonePartitions, NotifyClient, DrainNotifier, vars
  <2>2. /\ DurableInv
        /\ flusher \notin {"join", "drain", "stopped"} /\ notifier # "drain"
    BY <2>1 DEF StopInv
  <2>3. DiskTypes'
    BY DiskTypesStep DEF TypeOK
  <2>4. ASSUME UNCHANGED <<disk, queues, held, told, flusher, locals>> PROVE DurableInv'
    BY <2>2, <2>4 DEF DurableInv, LogInv, ToldInv, FlightInv, disk, queues, locals
  <2>5. CASE StopWorkers \/ StopFlusher \/ UNCHANGED vars
    BY <2>4, <2>5 DEF StopWorkers, StopFlusher, vars, notify
  <2>6. QED
    BY <2>1, <2>2, <2>3, <2>5, DiskDurable, WriteLogDurable, FlushDurable, NotifyDurable
       DEF Next
<1>3. TypeOK => ThreadTypes
  BY DEF TypeOK
<1>4. Init => StopInv
  BY GroupAssumption DEF Init, StopInv
<1>5. ActiveInv => DurableWhileActive
  BY DEF DurableInv, ToldInv, Below, DurableWhenTold, DurableWhileActive
<1>6. QED
  BY <1>1, <1>2, <1>3, <1>4, <1>5, StopStep, TypeCorrect, PTL DEF Spec
-----------------------------------------------------------------------------
(***************************************************************************)
(* Every transaction is in one place.  The places together hold the        *)
(* transactions that were handed over, and no more entries than there are  *)
(* transactions: a step moves an entry, it neither drops nor copies it.    *)
(***************************************************************************)
Elems(s) == {s[i] : i \in DOMAIN s}
Sent     == {x \in Xct : place[x] = "sent"}
Somewhere ==
    Elems(toflush) \cup Elems(flushing) \cup Elems(tonotify) \cup Elems(held) \cup Elems(told)
Entries == Len(toflush) + Len(flushing) + Len(tonotify) + Len(held) + Len(told)

PlaceInv ==
    /\ notifier \notin {"partitions", "client", "crashed"} => held = <<>>
    /\ IsFiniteSet(Sent)
    /\ Somewhere = Sent
    /\ Entries = Cardinality(Sent)

\* What a queue holds after Append(), pop() and one queue after another.
LEMMA ElemsAppend ==
  ASSUME NEW s \in Seq(Xct), NEW x \in Xct
  PROVE  Elems(Append(s, x)) = Elems(s) \cup {x} /\ Len(Append(s, x)) = Len(s) + 1
<1>1. DOMAIN Append(s, x) = DOMAIN s \cup {Len(s) + 1}
  OBVIOUS
<1>2. Append(s, x)[Len(s) + 1] = x /\ \A i \in DOMAIN s : Append(s, x)[i] = s[i]
  OBVIOUS
<1>3. Len(Append(s, x)) = Len(s) + 1
  OBVIOUS
<1>4. QED
  BY <1>1, <1>2, <1>3 DEF Elems

LEMMA ElemsTail ==
  ASSUME NEW s \in Seq(Xct), s # <<>>
  PROVE  Elems(s) = Elems(Tail(s)) \cup {Head(s)} /\ Len(s) = Len(Tail(s)) + 1
<1>1. /\ Len(s) \in Nat /\ Len(s) # 0 /\ Len(Tail(s)) = Len(s) - 1 /\ Head(s) = s[1]
      /\ DOMAIN s = 1 .. Len(s) /\ DOMAIN Tail(s) = 1 .. (Len(s) - 1)
  OBVIOUS
<1>2. \A i \in 1 .. (Len(s) - 1) : Tail(s)[i] = s[i + 1]
  OBVIOUS
<1>3. \A i \in 1 .. Len(s) : i = 1 \/ (i - 1 \in 1 .. (Len(s) - 1) /\ s[i] = Tail(s)[i - 1])
  BY <1>1, <1>2
<1>4. ASSUME NEW x \in Elems(s) PROVE x \in Elems(Tail(s)) \cup {Head(s)}
  <2>1. PICK i \in 1 .. Len(s) : x = s[i]
    BY <1>1, Zenon DEF Elems
  <2>2. CASE i = 1
    BY <1>1, <2>1, <2>2, Zenon
  <2>3. CASE i # 1
    <3>1. i - 1 \in DOMAIN Tail(s) /\ x = Tail(s)[i - 1]
      BY <1>1, <1>3, <2>1, <2>3, Zenon
    <3>2. QED
      BY <3>1, Zenon DEF Elems
  <2>4. QED
    BY <2>2, <2>3
<1>5. Elems(Tail(s)) \cup {Head(s)} \subseteq Elems(s)
  BY <1>1, <1>2 DEF Elems
<1>6. QED
  BY <1>1, <1>4, <1>5

LEMMA ElemsConcat ==
  ASSUME NEW s \in Seq(Xct), NEW t \in Seq(Xct)
  PROVE  /\ s \o t \in Seq(Xct)
         /\ Elems(s \o t) = Elems(s) \cup Elems(t) /\ Len(s \o t) = Len(s) + Len(t)
<1>1. /\ s \o t \in Seq(Xct) /\ Len(s \o t) = Len(s) + Len(t)
      /\ Len(s) \in Nat /\ Len(t) \in Nat
      /\ DOMAIN s = 1 .. Len(s) /\ DOMAIN t = 1 .. Len(t)
      /\ DOMAIN (s \o t) = 1 .. (Len(s) + Len(t))
  OBVIOUS
<1>2. /\ \A i \in DOMAIN s : (s \o t)[i] = s[i]
      /\ \A i \in DOMAIN t : (s \o t)[Len(s) + i] = t[i]
  OBVIOUS
<1>3. \A i \in DOMAIN (s \o t) :
         i \in DOMAIN s \/ (i - Len(s) \in DOMAIN t /\ i = Len(s) + (i - Len(s)))
  BY <1>1
<1>4. Elems(s \o t) \subseteq Elems(s) \cup Elems(t)
  BY <1>2, <1>3 DEF Elems
<1>5. \A i \in DOMAIN t : Len(s) + i \in DOMAIN (s \o t)
  BY <1>1
<1>6. Elems(s) \cup Elems(t) \subseteq Elems(s \o t)
  BY <1>1, <1>2, <1>5 DEF Elems
<1>7. QED
  BY <1>1, <1>4, <1>6

LEMMA ElemsNone == Elems(<<>>) = {} /\ Len(<<>>) = 0
BY DEF Elems

\* The five places one after the other are the places together.
LEMMA PlaceInvImplies == QueueTypes /\ PlaceInv => OnePlace
<1> SUFFICES ASSUME QueueTypes, PlaceInv PROVE OnePlace
  OBVIOUS
<1>1. /\ toflush \in Seq(Xct) /\ flushing \in Seq(Xct) /\ tonotify \in Seq(Xct)
      /\ held \in Seq(Xct) /\ told \in Seq(Xct)
  BY DEF QueueTypes
<1> DEFINE two == toflush \o flushing
           three == two \o tonotify
           four == three \o held
           all == four \o told
<1>2. /\ two \in Seq(Xct) /\ Elems(two) = Elems(toflush) \cup Elems(flushing)
      /\ Len(two) = Len(toflush) + Len(flushing)
  BY <1>1, ElemsConcat
<1> HIDE DEF two
<1>3. /\ three \in Seq(Xct) /\ Elems(three) = Elems(two) \cup Elems(tonotify)
      /\ Len(three) = Len(two) + Len(tonotify)
  BY <1>1, <1>2, ElemsConcat
<1> HIDE DEF three
<1>4. /\ four \in Seq(Xct) /\ Elems(four) = Elems(three) \cup Elems(held)
      /\ Len(four) = Len(three) + Len(held)
  BY <1>1, <1>3, ElemsConcat
<1> HIDE DEF four
<1>5. Elems(all) = Elems(four) \cup Elems(told) /\ Len(all) = Len(four) + Len(told)
  BY <1>1, <1>4, ElemsConcat
<1> HIDE DEF all
<1>6. Elems(all) = Somewhere
  BY <1>2, <1>3, <1>4, <1>5 DEF Somewhere
<1>7. Len(all) = Entries
  BY <1>2, <1>3, <1>4, <1>5 DEF Entries
<1>8. Elems(all) = Sent /\ Len(all) = Cardinality(Sent)
  BY <1>6, <1>7 DEF PlaceInv
<1>9. all = toflush \o flushing \o tonotify \o held \o told
  BY DEF all, four, three, two
<1>10. QED
  BY <1>8, <1>9 DEF OnePlace, Elems, Sent

\* The entry at the head of queue s moves to the end of queue t.
Moves(s, t, s2, t2) ==
    /\ Elems(s2) \cup Elems(t2) = Elems(s) \cup Elems(t)
    /\ Len(s2) + Len(t2) = Len(s) + Len(t)

LEMMA HeadMoves ==
  ASSUME NEW s \in Seq(Xct), s # <<>>, NEW t \in Seq(Xct)
  PROVE  Moves(s, t, Tail(s), Append(t, Head(s)))
<1>1. Head(s) \in Xct /\ Tail(s) \in Seq(Xct)
  BY HeadOf
<1>2. /\ Elems(s) = Elems(Tail(s)) \cup {Head(s)} /\ Len(s) = Len(Tail(s)) + 1
      /\ Elems(Append(t, Head(s))) = Elems(t) \cup {Head(s)}
      /\ Len(Append(t, Head(s))) = Len(t) + 1
  BY <1>1, ElemsTail, ElemsAppend
<1>3. Len(t) \in Nat /\ Len(Tail(s)) \in Nat
  BY <1>1
<1>4. QED
  BY <1>2, <1>3 DEF Moves

\* _check_waiting() and _move_from_flushing() deliver what they popped: to the
\* notifier in DORA, to the client otherwise.
LEMMA DeliverMoves ==
  ASSUME QueueTypes, NEW s \in Seq(Xct), s # <<>>, Deliver(Head(s))
  PROVE  \/ Moves(s, tonotify, Tail(s), tonotify') /\ told' = told
         \/ Moves(s, told, Tail(s), told') /\ tonotify' = tonotify
<1>1. tonotify \in Seq(Xct) /\ told \in Seq(Xct)
  BY DEF QueueTypes
<1>2. CASE Dora
  <2>1. tonotify' = Append(tonotify, Head(s)) /\ told' = told
    BY <1>2 DEF Deliver
  <2>2. Moves(s, tonotify, Tail(s), Append(tonotify, Head(s)))
    BY <1>1, HeadMoves
  <2>3. QED
    BY <2>1, <2>2, Zenon
<1>3. CASE ~Dora
  <2>1. told' = Append(told, Head(s)) /\ tonotify' = tonotify
    BY <1>3 DEF Deliver
  <2>2. Moves(s, told, Tail(s), Append(told, Head(s)))
    BY <1>1, HeadMoves
  <2>3. QED
    BY <2>1, <2>2, Zenon
<1>4. QED
  BY <1>2, <1>3

\* A step that moves entries keeps the invariant.
LEMMA MovedPlace ==
  ASSUME PlaceInv, UNCHANGED place, Somewhere' = Somewhere, Entries' = Entries,
         (notifier \notin {"partitions", "client", "crashed"} => held = <<>>)'
  PROVE  PlaceInv'
<1>1. Sent' = Sent
  BY DEF Sent
<1>2. QED
  BY <1>1 DEF PlaceInv

LEMMA FlushPlace ==
  ASSUME QueueTypes, PlaceInv, Flush, QueueTypes'
  PROVE  PlaceInv'
<1>1. /\ toflush \in Seq(Xct) /\ flushing \in Seq(Xct) /\ tonotify \in Seq(Xct)
      /\ held \in Seq(Xct) /\ told \in Seq(Xct)
  BY DEF QueueTypes
<1>2. /\ Len(toflush) \in Nat /\ Len(flushing) \in Nat /\ Len(tonotify) \in Nat
      /\ Len(held) \in Nat /\ Len(told) \in Nat
      /\ Len(toflush') \in Nat /\ Len(flushing') \in Nat /\ Len(tonotify') \in Nat
      /\ Len(held') \in Nat /\ Len(told') \in Nat
  BY DEF QueueTypes
<1>3. UNCHANGED <<place, notifier, held>>
  BY DEF Flush, Loop, Check, CheckEmpty, DecideFlush, DecideLazy, Recheck, Synced, Reread,
     Move, StopNotifier, Drain, disk, notify
<1>4. ASSUME Somewhere' = Somewhere, Entries' = Entries PROVE PlaceInv'
  BY <1>3, <1>4, MovedPlace DEF PlaceInv
<1>5. ASSUME UNCHANGED <<toflush, flushing, tonotify, told>> PROVE PlaceInv'
  BY <1>3, <1>4, <1>5 DEF Somewhere, Entries
<1>6. CASE Check
  <2>1. toflush # <<>> /\ toflush' = Tail(toflush)
    BY <1>6 DEF Check
  <2>2. CASE durablelsn > lsn[Head(toflush)]
    <3>1. Deliver(Head(toflush)) /\ flushing' = flushing
      BY <1>6, <2>2 DEF Check
    <3>2. \/ Moves(toflush, tonotify, toflush', tonotify') /\ told' = told
          \/ Moves(toflush, told, toflush', told') /\ tonotify' = tonotify
      BY <1>1, <2>1, <3>1, DeliverMoves
    <3>3. Somewhere' = Somewhere
      BY <1>3, <3>1, <3>2 DEF Moves, Somewhere
    <3>4. Entries' = Entries
      <4>1. held' = held
        BY <1>3
      <4>2. CASE Moves(toflush, tonotify, toflush', tonotify') /\ told' = told
        BY <1>2, <3>1, <4>1, <4>2 DEF Moves, Entries
      <4>3. CASE Moves(toflush, told, toflush', told') /\ tonotify' = tonotify
        BY <1>2, <3>1, <4>1, <4>3 DEF Moves, Entries
      <4>4. QED
        BY <3>2, <4>2, <4>3, Zenon
    <3>5. QED
      BY <1>4, <3>3, <3>4, Zenon
  <2>3. CASE ~(durablelsn > lsn[Head(toflush)])
    <3>1. flushing' = Append(flushing, Head(toflush)) /\ UNCHANGED <<tonotify, told>>
      BY <1>6, <2>3 DEF Check
    <3>2. Moves(toflush, flushing, toflush', flushing')
      BY <1>1, <2>1, <3>1, HeadMoves
    <3>3. Somewhere' = Somewhere
      BY <1>3, <3>1, <3>2 DEF Moves, Somewhere
    <3>4. Entries' = Entries
      BY <1>2, <1>3, <3>1, <3>2 DEF Moves, Entries
    <3>5. QED
      BY <1>4, <3>3, <3>4, Zenon
  <2>4. QED
    BY <2>2, <2>3
<1>7. CASE Move
  <2>1. CASE flushing = <<>>
    BY <1>5, <1>7, <2>1 DEF Move
  <2>2. CASE flushing # <<>>
    <3>1. Deliver(Head(flushing)) /\ flushing' = Tail(flushing) /\ toflush' = toflush
      BY <1>7, <2>2 DEF Move
    <3>2. \/ Moves(flushing, tonotify, flushing', tonotify') /\ told' = told
          \/ Moves(flushing, told, flushing', told') /\ tonotify' = tonotify
      BY <1>1, <2>2, <3>1, DeliverMoves
    <3>3. Somewhere' = Somewhere
      BY <1>3, <3>1, <3>2 DEF Moves, Somewhere
    <3>4. Entries' = Entries
      <4>1. held' = held
        BY <1>3
      <4>2. CASE Moves(flushing, tonotify, flushing', tonotify') /\ told' = told
        BY <1>2, <3>1, <4>1, <4>2 DEF Moves, Entries
      <4>3. CASE Moves(flushing, told, flushing', told') /\ tonotify' = tonotify
        BY <1>2, <3>1, <4>1, <4>3 DEF Moves, Entries
      <4>4. QED
        BY <3>2, <4>2, <4>3, Zenon
    <3>5. QED
      BY <1>4, <3>3, <3>4, Zenon
  <2>3. QED
    BY <2>1, <2>2
<1>8. CASE Drain
  <2>1. tonotify' = tonotify
    BY <1>8 DEF Drain
  <2>2. \/ UNCHANGED <<toflush, flushing, told>>
        \/ flushing # <<>> /\ flushing' = Tail(flushing)
              /\ told' = Append(told, Head(flushing)) /\ toflush' = toflush
        \/ toflush # <<>> /\ toflush' = Tail(toflush)
              /\ told' = Append(told, Head(toflush)) /\ flushing' = flushing
    BY <1>8 DEF Drain
  <2>3. \/ UNCHANGED <<toflush, flushing, told>>
        \/ Moves(flushing, told, flushing', told') /\ toflush' = toflush
        \/ Moves(toflush, told, toflush', told') /\ flushing' = flushing
    BY <1>1, <2>2, HeadMoves
  <2>4. Somewhere' = Somewhere
    BY <1>3, <2>1, <2>3 DEF Moves, Somewhere
  <2>5. Entries' = Entries
    <3>1. held' = held
      BY <1>3
    <3>2. CASE UNCHANGED <<toflush, flushing, told>>
      BY <2>1, <3>1, <3>2 DEF Entries
    <3>3. CASE Moves(flushing, told, flushing', told') /\ toflush' = toflush
      BY <1>2, <2>1, <3>1, <3>3 DEF Moves, Entries
    <3>4. CASE Moves(toflush, told, toflush', told') /\ flushing' = flushing
      BY <1>2, <2>1, <3>1, <3>4 DEF Moves, Entries
    <3>5. QED
      BY <2>3, <3>2, <3>3, <3>4, Zenon
  <2>6. QED
    BY <1>4, <2>4, <2>5, Zenon
<1>9. QED
  BY <1>5, <1>6, <1>7, <1>8 DEF Flush, Loop, CheckEmpty, DecideFlush, DecideLazy, Recheck,
     Synced, Reread, StopNotifier, queues

\* The notifier moves entries, from its queue to the clients' and the partitions'.
LEMMA NotifyPlace ==
  ASSUME QueueTypes, PlaceInv, Notify, QueueTypes'
  PROVE  PlaceInv'
<1>1. /\ tonotify \in Seq(Xct) /\ held \in Seq(Xct) /\ told \in Seq(Xct)
      /\ Len(toflush) \in Nat /\ Len(flushing) \in Nat /\ Len(tonotify) \in Nat
      /\ Len(held) \in Nat /\ Len(told) \in Nat
      /\ Len(tonotify') \in Nat /\ Len(held') \in Nat /\ Len(told') \in Nat
  BY DEF QueueTypes
<1>2. UNCHANGED <<place, toflush, flushing>>
  BY DEF Notify, LoopNotifier, PopToNotify, NotifyPartitions, NotifyGonePartitions,
     NotifyClient, DrainNotifier, disk, queues
<1>3. ASSUME UNCHANGED <<tonotify, held, told>>,
             (notifier \notin {"partitions", "client", "crashed"} => held = <<>>)'
      PROVE  PlaceInv'
  BY <1>2, <1>3, MovedPlace DEF Somewhere, Entries
<1>4. CASE LoopNotifier \/ NotifyPartitions \/ NotifyGonePartitions
  <2>1. UNCHANGED <<tonotify, held, told>>
    BY <1>4 DEF LoopNotifier, NotifyPartitions, NotifyGonePartitions, queues
  <2>2. (notifier \notin {"partitions", "client", "crashed"} => held = <<>>)'
    BY <1>4, <2>1 DEF PlaceInv, LoopNotifier, NotifyPartitions,
       NotifyGonePartitions
  <2>3. QED
    BY <1>3, <2>1, <2>2
<1>5. CASE PopToNotify
  <2>1. notifier = "pop" /\ held = <<>> /\ told' = told
    BY <1>5 DEF PopToNotify, PlaceInv
  <2>2. CASE tonotify = <<>>
    BY <1>3, <1>5, <2>1, <2>2 DEF PopToNotify
  <2>3. CASE tonotify # <<>>
    <3>1. /\ notifier' = "partitions"
          /\ held' = <<Head(tonotify)>> /\ tonotify' = Tail(tonotify)
      BY <1>5, <2>3 DEF PopToNotify
    <3>2. held' = Append(held, Head(tonotify))
      BY <2>1, <3>1
    <3>3. Moves(tonotify, held, tonotify', held')
      BY <1>1, <2>3, <3>1, <3>2, HeadMoves
    <3>4. Somewhere' = Somewhere /\ Entries' = Entries
      BY <1>1, <1>2, <2>1, <3>3 DEF Moves, Somewhere, Entries
    <3>5. QED
      BY <1>2, <3>1, <3>4, MovedPlace
  <2>4. QED
    BY <2>2, <2>3
<1>6. CASE NotifyClient
  <2>1. told' = told \o held /\ held' = <<>> /\ tonotify' = tonotify
    BY <1>6 DEF NotifyClient, queues
  <2>2. Elems(told') = Elems(told) \cup Elems(held) /\ Len(told') = Len(told) + Len(held)
    BY <1>1, <2>1, ElemsConcat
  <2>3. Elems(held') = {} /\ Len(held') = 0
    BY <2>1, ElemsNone
  <2>4. Somewhere' = Somewhere /\ Entries' = Entries
    BY <1>1, <1>2, <2>1, <2>2, <2>3 DEF Somewhere, Entries
  <2>5. QED
    BY <1>2, <2>1, <2>4, MovedPlace
<1>7. CASE DrainNotifier
  <2>1. notifier = "drain" /\ notifier' \in {"drain", "stopped"} /\ held' = held
    BY <1>7 DEF DrainNotifier
  <2>2. (notifier \notin {"partitions", "client", "crashed"} => held = <<>>)'
    BY <2>1 DEF PlaceInv
  <2>3. CASE tonotify = <<>>
    BY <1>3, <1>7, <2>1, <2>2, <2>3 DEF DrainNotifier
  <2>4. CASE tonotify # <<>>
    <3>1. told' = Append(told, Head(tonotify)) /\ tonotify' = Tail(tonotify)
      BY <1>7, <2>4 DEF DrainNotifier
    <3>2. Moves(tonotify, told, tonotify', told')
      BY <1>1, <2>4, <3>1, HeadMoves
    <3>3. Somewhere' = Somewhere /\ Entries' = Entries
      <4>1. Somewhere' = Somewhere
        <5>1. /\ Elems(toflush') = Elems(toflush) /\ Elems(flushing') = Elems(flushing)
              /\ Elems(held') = Elems(held)
              /\ Elems(tonotify') \cup Elems(told') = Elems(tonotify) \cup Elems(told)
          BY <1>2, <2>1, <3>2 DEF Moves
        <5>2. QED
          BY <5>1 DEF Somewhere
      <4>2. Entries' = Entries
        <5>1. /\ Len(toflush') = Len(toflush) /\ Len(flushing') = Len(flushing)
              /\ Len(held') = Len(held)
              /\ Len(tonotify') + Len(told') = Len(tonotify) + Len(told)
          BY <1>2, <2>1, <3>2 DEF Moves
        <5>2. PICK a \in Nat, b \in Nat, c \in Nat, d \in Nat, e \in Nat, c2 \in Nat, e2 \in Nat :
                  /\ a = Len(toflush) /\ b = Len(flushing) /\ c = Len(tonotify)
                  /\ d = Len(held) /\ e = Len(told)
                  /\ c2 = Len(tonotify') /\ e2 = Len(told')
          BY <1>1, Zenon
        <5>3. c2 + e2 = c + e
          BY <5>1, <5>2, Zenon
        <5>4. a + b + c2 + d + e2 = a + b + c + d + e
          BY <5>3
        <5>5. QED
          BY <5>1, <5>2, <5>4, Zenon DEF Entries
      <4>3. QED
        BY <4>1, <4>2
    <3>4. QED
      BY <1>2, <2>2, <3>3, MovedPlace
  <2>5. QED
    BY <2>3, <2>4
<1>8. QED
  BY <1>4, <1>5, <1>6, <1>7 DEF Notify

LEMMA PlaceStep == TypeOK /\ PlaceInv /\ [Next]_vars => PlaceInv'
<1> SUFFICES ASSUME TypeOK, PlaceInv, [Next]_vars PROVE PlaceInv'
  OBVIOUS
<1>1. QueueTypes /\ QueueTypes'
  BY QueueTypesStep DEF TypeOK
<1>2. ASSUME UNCHANGED <<queues, told, held, notifier>>, Sent' = Sent PROVE PlaceInv'
  BY <1>2 DEF PlaceInv, Somewhere, Entries, queues
<1>3. ASSUME NEW x \in Xct, CommitLazily(x) PROVE PlaceInv'
  <2>1. UNCHANGED <<queues, told, held, notifier>>
    BY <1>3 DEF CommitLazily, notify
  <2>2. Sent' = Sent
    BY <1>3 DEF CommitLazily, Sent, TypeOK, DiskTypes
  <2>3. QED
    BY <1>2, <2>1, <2>2
<1>4. ASSUME NEW x \in Xct, EnqueueToFlush(x) PROVE PlaceInv'
  <2>1. /\ toflush' = Append(toflush, x)
        /\ UNCHANGED <<flushing, tonotify, held, told, notifier>>
    BY <1>4 DEF EnqueueToFlush, notify
  <2>2. Sent' = Sent \cup {x} /\ x \notin Sent
    BY <1>4 DEF EnqueueToFlush, Sent, TypeOK, DiskTypes
  <2>3. IsFiniteSet(Sent') /\ Cardinality(Sent') = Cardinality(Sent) + 1
    BY <2>2, FS_AddElement DEF PlaceInv
  <2>4. Elems(toflush') = Elems(toflush) \cup {x} /\ Len(toflush') = Len(toflush) + 1
    BY <1>1, <2>1, ElemsAppend DEF QueueTypes
  <2>5. /\ Len(toflush) \in Nat /\ Len(flushing) \in Nat /\ Len(tonotify) \in Nat
        /\ Len(held) \in Nat /\ Len(told) \in Nat
    BY <1>1 DEF QueueTypes
  <2>6. Entries' = Entries + 1
    BY <2>1, <2>4, <2>5 DEF Entries
  <2>7. Somewhere' = Somewhere \cup {x}
    BY <2>1, <2>4 DEF Somewhere
  <2>8. QED
    BY <2>1, <2>2, <2>3, <2>6, <2>7 DEF PlaceInv
<1>5. CASE WriteLog \/ StopWorkers \/ StopFlusher \/ UNCHANGED vars
  <2>1. UNCHANGED <<queues, told, held, notifier, place>>
    BY <1>5 DEF WriteLog, StopWorkers, StopFlusher, vars, notify, disk
  <2>2. QED
    BY <1>2, <2>1 DEF Sent
<1>6. QED
  BY <1>1, <1>3, <1>4, <1>5, FlushPlace, NotifyPlace DEF Next

\* Every transaction that was handed to the flusher (enqueue_toflush) is in
\* one place, once: no pop() of flusher or notifier loses it or tells its
\* client twice, in whatever order their threads run, also while they stop
\* (shore_flusher.cpp, dflusher.cpp).
THEOREM NeitherLostNorToldTwice == Spec => []OnePlace
<1>1. Init => PlaceInv
  <2> SUFFICES ASSUME Init PROVE PlaceInv
    OBVIOUS
  <2>1. Sent = {}
    BY DEF Init, Sent
  <2>2. /\ toflush = <<>> /\ flushing = <<>> /\ tonotify = <<>> /\ held = <<>> /\ told = <<>>
    BY DEF Init
  <2>3. Somewhere = {} /\ Entries = 0
    BY <2>2, ElemsNone DEF Somewhere, Entries
  <2>4. QED
    BY <2>1, <2>2, <2>3, FS_EmptySet DEF PlaceInv
<1>2. TypeOK /\ PlaceInv /\ [Next]_vars => PlaceInv'
  BY PlaceStep
<1>3. TypeOK /\ PlaceInv => OnePlace
  BY PlaceInvImplies DEF TypeOK
<1>4. QED
  BY <1>1, <1>2, <1>3, TypeCorrect, PTL DEF Spec
=============================================================================

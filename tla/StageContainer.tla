--------------------------- MODULE StageContainer ---------------------------
(***************************************************************************)
(* A QPipe stage container (src/qpipe/core/stage_container.cpp): clients   *)
(* reserve workers for the packets of their queries and dispatch the       *)
(* packets; a packet waits in the container queue or is merged with        *)
(* packets that do the same work, queued or already running; a worker runs *)
(* a list of packets and sends every page to each of them; a packet that   *)
(* came too late for the first pages is queued again and runs until it has *)
(* those too.                                                              *)
(*                                                                         *)
(* A page stands for its tuples, so _next_tuple counts pages.  The stage   *)
(* object produces pages 1 .. Pages, like a scan.  A stage adaptor is      *)
(* named by its primary packet, which is primary once.  Output buffers are *)
(* reduced to who ended them; consumers read or terminate.                 *)
(***************************************************************************)
EXTENDS ResourcePool, SequencesExt

CONSTANTS
    PacketsOf,  \* the packets of each query (a client of the pool)
    Shared,     \* packets with merging enabled, of one and the same plan
    Quits,      \* packets whose consumer may terminate the buffer
    Fails,      \* packets whose stage may throw an error when they are primary
    Pages,      \* pages the stage produces
    MaxThreads  \* _max_threads

Packet == UNION {PacketsOf[q] : q \in Client}

ASSUME ContainerAssumption ==
    /\ PacketsOf \in [Client -> SUBSET Packet]
    /\ \A q \in Client : IsFiniteSet(PacketsOf[q]) /\ Need[q] = Cardinality(PacketsOf[q])
    /\ \A q, r \in Client : q # r => PacketsOf[q] \cap PacketsOf[r] = {}
    /\ Shared \subseteq Packet /\ Quits \subseteq Packet /\ Fails \subseteq Packet
    /\ Pages \in Nat \ {0}
    /\ MaxThreads \in Nat
    /\ \A q \in Client : Need[q] <= MaxThreads

QueryOf(p) == CHOOSE q \in Client : p \in PacketsOf[q]

VARIABLES
    asked,      \* queries whose client called acquire_resources()
    status,     \* where the dispatch of each packet is
    queue,      \* _container_queue: packet lists
    running,    \* _container_current_stages: primaries of the running adaptors
    stage,      \* the adaptor of each primary
    onMerge,    \* _next_tuple_on_merge
    needed,     \* _next_tuple_needed
    stream,     \* the output buffer of each packet: how it ended
    got,        \* history: the pages each packet received
    cut,        \* history: packets that were in a list when its stage stopped early
    crashed     \* a corrupted packet list was traversed: undefined behaviour

lists == <<queue, running, stage>>
progress == <<onMerge, needed>>
output == <<stream, got>>
vars == <<pool, asked, status, lists, progress, output, cut, crashed>>

Uninitialized == 0
Initial == 1

PacketList == Seq(Packet)

\* The elements of a list that are in a set, in their order: an iterator that erases.
Only(list, S) ==
    LET only[n \in 0 .. Len(list)] ==
            IF n = 0 THEN <<>>
            ELSE IF list[n] \in S THEN Append(only[n - 1], list[n]) ELSE only[n - 1]
    IN  only[Len(list)]

(***************************************************************************)
(* stage_adaptor_t.  `todo' is the iterator of output_page(), as the       *)
(* number of packets from it to the end of the list: other threads only    *)
(* prepend.  `remaining' is packets_remaining.                             *)
(***************************************************************************)
Adaptor == [pc : {"process", "deliver", "erase", "stopping", "error", "cleanup", "abort", "none"},
            list : PacketList, next : Nat, accepting : BOOLEAN, late : BOOLEAN,
            todo : Nat, remaining : BOOLEAN]

NewAdaptor(list) == [pc |-> "process", list |-> list, next |-> Initial, accepting |-> TRUE,
                     late |-> FALSE, todo |-> 0, remaining |-> FALSE]
NoAdaptor == [NewAdaptor(<<>>) EXCEPT !.pc = "none", !.accepting = FALSE]

TypeOK ==
    /\ PoolTypeOK
    /\ asked \subseteq Client
    /\ status \in [Packet -> {"new", "release", "sent"}]
    /\ queue \in Seq(PacketList)
    /\ running \in Seq(Packet)
    /\ stage \in [Packet -> Adaptor]
    /\ onMerge \in [Packet -> Nat]
    /\ needed \in [Packet -> Nat]
    /\ stream \in [Packet -> {"open", "eof", "terminated", "aborted", "lost"}]
    /\ got \in [Packet -> Seq(1 .. Pages)]
    /\ cut \subseteq Packet
    /\ crashed \in BOOLEAN

Init ==
    /\ PoolInit
    /\ asked = {}
    /\ status = [p \in Packet |-> "new"]
    /\ queue = <<>>
    /\ running = <<>>
    /\ stage = [p \in Packet |-> NoAdaptor]
    /\ onMerge = [p \in Packet |-> Uninitialized]
    /\ needed = [p \in Packet |-> Initial]
    /\ stream = [p \in Packet |-> "open"]
    /\ got = [p \in Packet |-> <<>>]
    /\ cut = {}
    /\ crashed = FALSE

(***************************************************************************)
(* The container lock is free: nobody is inside waiter_wake() with it.     *)
(* The lock of an adaptor is never kept for more than a step.              *)
(***************************************************************************)
LockFree == ~waking /\ ~crashed

At(s, pc) == stage[s].pc = pc /\ ~crashed

-----------------------------------------------------------------------------
(***************************************************************************)
(* _reserve(): existing threads if they suffice, otherwise threads are     *)
(* created until the request fits or there are _max_threads.  The pool     *)
(* grows only while nobody waits (NobodyWaitsBelowLimit), so that the      *)
(* waiter_wake() of notify_capacity_increase() finds nobody.               *)
(***************************************************************************)
\* Slip: no more threads are created than the request needs by itself.
GrownToNeed(q) ==
    IF Unreserved >= Need[q] \/ capacity >= Need[q] THEN capacity ELSE Need[q]

Grown(q) ==
    IF Unreserved >= Need[q] THEN capacity
    ELSE IF reserved + Need[q] <= MaxThreads THEN reserved + Need[q] ELSE MaxThreads

Reserve(q) ==
    /\ LockFree
    /\ q \notin asked
    /\ asked' = asked \cup {q}
    /\ PoolReserve(q, Grown(q))
    /\ UNCHANGED <<status, lists, progress, output, cut, crashed>>

Admitted(q) == q \in asked /\ q \notin Waiting

-----------------------------------------------------------------------------
(***************************************************************************)
(* enqueue(): a packet with merging disabled goes to the queue; another    *)
(* joins the first running stage that accepts it, or the first queued list *)
(* whose front packet does the same work, or goes to the queue.  The two   *)
(* locks are held all the time, except that the release of the reservation *)
(* of a merged packet comes after.                                         *)
(***************************************************************************)
Dispatching(p) ==
    /\ LockFree
    /\ status[p] = "new"
    /\ \E q \in Client : p \in PacketsOf[q] /\ Admitted(q)

Accepts(s) == s \in Shared /\ stage[s].accepting
FirstHost(p, i) ==
    /\ p \in Shared
    /\ Accepts(running[i])
    /\ \A j \in 1 .. i - 1 : ~Accepts(running[j])
FirstQueuedHost(p, i) ==
    /\ p \in Shared
    /\ Head(queue[i]) \in Shared
    /\ \A j \in 1 .. i - 1 : Head(queue[j]) \notin Shared

NoHost(p) == \A i \in DOMAIN running : ~FirstHost(p, i)

EnqueueAlone(p) ==
    /\ Dispatching(p)
    /\ NoHost(p)
    /\ \A i \in DOMAIN queue : ~FirstQueuedHost(p, i)
    /\ queue' = Append(queue, <<p>>)
    /\ status' = [status EXCEPT ![p] = "sent"]
    /\ UNCHANGED <<pool, asked, running, stage, progress, output, cut, crashed>>

MergeQueued(p) ==
    /\ Dispatching(p)
    /\ NoHost(p)
    /\ \E i \in DOMAIN queue :
          /\ FirstQueuedHost(p, i)
          /\ queue' = [queue EXCEPT ![i] = Append(@, p)]
    /\ status' = [status EXCEPT ![p] = "release"]
    /\ UNCHANGED <<pool, asked, running, stage, progress, output, cut, crashed>>

(***************************************************************************)
(* try_merge().  A merger that missed a page keeps its reservation for the *)
(* second run, unless another late merger of the stage already keeps one.  *)
(***************************************************************************)
\* Slips: no merger of a running stage keeps its reservation; the first does.
LateNever(s) == FALSE
LateAlways(s) == TRUE

Late(s) == stage[s].next # Initial

Merged(p, s) ==
    /\ onMerge' = [onMerge EXCEPT ![p] = stage[s].next]
    /\ status' = [status EXCEPT ![p] = IF Late(s) /\ ~stage[s].late THEN "sent" ELSE "release"]

JoinList(p, s, list) ==
    stage' = [stage EXCEPT ![s].list = list, ![s].late = @ \/ Late(s)]

Merge(p) ==
    /\ Dispatching(p)
    /\ \E i \in DOMAIN running :
          /\ FirstHost(p, i)
          /\ Merged(p, running[i])
          /\ JoinList(p, running[i], <<p>> \o stage[running[i]].list)
    /\ UNCHANGED <<pool, asked, queue, running, needed, output, cut, crashed>>

ErasingFirst(s) == stage[s].pc = "erase" /\ stage[s].todo = Len(stage[s].list)

(***************************************************************************)
(* push_front() on a list whose first node output_page() erases at the     *)
(* same time, without the lock.  Beside the outcomes of one after the      *)
(* other (Merge), the erase may overwrite the link to the new node, or the *)
(* new node may link to the erased one, which is traversed later.          *)
(***************************************************************************)
MergeRaces(p) ==
    /\ Dispatching(p)
    /\ \E i \in DOMAIN running :
          /\ FirstHost(p, i)
          /\ ErasingFirst(running[i])
          /\ Merged(p, running[i])
          /\ JoinList(p, running[i], stage[running[i]].list)
    /\ stream' = [stream EXCEPT ![p] = "lost"]
    /\ crashed' \in BOOLEAN
    /\ UNCHANGED <<pool, asked, queue, running, needed, got, cut>>

Release(p) ==
    /\ LockFree
    /\ status[p] = "release"
    /\ status' = [status EXCEPT ![p] = "sent"]
    /\ PoolUnreserve(1) /\ UNCHANGED nonIdle
    /\ UNCHANGED <<asked, lists, progress, output, cut, crashed>>

Dispatch(p) == EnqueueAlone(p) \/ MergeQueued(p) \/ Merge(p) \/ MergeRaces(p) \/ Release(p)

-----------------------------------------------------------------------------
(***************************************************************************)
(* run(): a worker that is free takes a list and becomes non-idle.  A      *)
(* worker of an aborted list is free too, without having become idle.      *)
(***************************************************************************)
FreeWorkers == capacity - Len(running)

Dequeue ==
    /\ LockFree
    /\ queue # <<>>
    /\ FreeWorkers > 0
    /\ LET list == Head(queue)
       IN  /\ running' = Append(running, Head(list))
           /\ stage' = [stage EXCEPT ![Head(list)] = NewAdaptor(list)]
           /\ onMerge' = [p \in Packet |-> IF p \in ToSet(list) THEN Initial ELSE onMerge[p]]
    /\ queue' = Tail(queue)
    /\ nonIdle' = nonIdle + 1
    /\ UNCHANGED <<capacity, reserved, waiters, waking, asked, status, needed, output, cut, crashed>>

(***************************************************************************)
(* output_page(): under the lock of the adaptor it counts the page and     *)
(* notes the packets that are in the list now.  A packet that merges later *)
(* does not get the page.                                                  *)
(***************************************************************************)
\* Slip: a page past the end of the input.
OutputPagePast(s) ==
    /\ At(s, "process")
    /\ stage' = [stage EXCEPT ![s].pc = "deliver", ![s].next = @ + 1,
                              ![s].todo = Len(stage[s].list), ![s].remaining = FALSE]
    /\ UNCHANGED <<pool, asked, status, queue, running, progress, output, cut, crashed>>

OutputPage(s) ==
    /\ At(s, "process")
    /\ stage[s].next <= Pages
    /\ stage' = [stage EXCEPT ![s].pc = "deliver", ![s].next = @ + 1,
                              ![s].todo = Len(stage[s].list), ![s].remaining = FALSE]
    /\ UNCHANGED <<pool, asked, status, queue, running, progress, output, cut, crashed>>

Current(s) == Len(stage[s].list) - stage[s].todo + 1
CurrentPacket(s) == stage[s].list[Current(s)]

(***************************************************************************)
(* The page goes to the current packet.  The writer of a buffer learns     *)
(* that the consumer terminated it only when it needs a new page in it, so *)
(* perhaps not yet.  A packet that has what it needs, or whose consumer is *)
(* gone, is finished and then erased from the list.                        *)
(***************************************************************************)
\* Slip: a packet in its second run gets one page too many.
FinishesLate(s) == stage[s].next = needed[CurrentPacket(s)] + 1

Finishes(s) == stage[s].next = needed[CurrentPacket(s)]

(***************************************************************************)
(* finish_packet(): send_eof(), unless the consumer terminated the buffer. *)
(***************************************************************************)
\* Slip: the end of the stream is not sent.
FinishedSilently(ended) == ended

Finished(ended) == IF ended = "open" THEN "eof" ELSE ended

Finish(s) ==
    /\ stage' = [stage EXCEPT ![s].pc = "erase"]
    /\ stream' = [stream EXCEPT ![CurrentPacket(s)] = Finished(@)]

KeepPacket(s) ==
    /\ stage' = [stage EXCEPT ![s].todo = @ - 1, ![s].remaining = TRUE]
    /\ UNCHANGED stream

Deliver(s) ==
    /\ At(s, "deliver") /\ stage[s].todo > 0
    /\ LET p == CurrentPacket(s)
       IN  \/ /\ stream[p] = "terminated"
              /\ Finish(s)
              /\ UNCHANGED got
           \/ /\ got' = [got EXCEPT ![p] = IF stream[p] = "open"
                                           THEN Append(@, stage[s].next - 1) ELSE @]
              /\ IF Finishes(s) THEN Finish(s) ELSE KeepPacket(s)
    /\ UNCHANGED <<pool, asked, status, queue, running, progress, cut, crashed>>

Erase(s) ==
    /\ At(s, "erase")
    /\ stage' = [stage EXCEPT ![s].pc = "deliver", ![s].todo = @ - 1,
                              ![s].list = RemoveAt(@, Current(s))]
    /\ UNCHANGED <<pool, asked, status, queue, running, progress, output, cut, crashed>>

(***************************************************************************)
(* The end of output_page(): stop_exception when none of the packets it    *)
(* went through needs more.                                                *)
(***************************************************************************)
PageDone(s) ==
    /\ At(s, "deliver") /\ stage[s].todo = 0
    /\ stage' = [stage EXCEPT ![s].pc = IF stage[s].remaining THEN "process" ELSE "stopping"]
    /\ UNCHANGED <<pool, asked, status, queue, running, progress, output, cut, crashed>>

EndOfInput(s) ==
    /\ At(s, "process")
    /\ stage[s].next = Pages + 1
    /\ stage' = [stage EXCEPT ![s].pc = "stopping"]
    /\ UNCHANGED <<pool, asked, status, queue, running, progress, output, cut, crashed>>

Throw(s) ==
    /\ s \in Fails
    /\ At(s, "process")
    /\ stage' = [stage EXCEPT ![s].pc = "error"]
    /\ UNCHANGED <<pool, asked, status, queue, running, progress, output, cut, crashed>>

StopAccepting(s) ==
    /\ At(s, "stopping") \/ At(s, "error")
    /\ stage' = [stage EXCEPT ![s].accepting = FALSE,
                              ![s].pc = IF @ = "error" THEN "abort" ELSE "cleanup"]
    /\ cut' = IF stage[s].pc = "stopping" /\ stage[s].next <= Pages
              THEN cut \cup ToSet(stage[s].list) ELSE cut
    /\ UNCHANGED <<pool, asked, status, queue, running, progress, output, crashed>>

(***************************************************************************)
(* cleanup(): packets that were there from the first page are finished,    *)
(* the others are queued again and need the pages that went out before     *)
(* they merged.  The worker gives back the reservation of its primary.     *)
(***************************************************************************)
Unfinished(s) == Only(stage[s].list, {p \in Packet : onMerge[p] # Initial})

RunAgain(s) ==
    LET again == ToSet(Unfinished(s))
    IN  /\ needed' = [p \in Packet |-> IF p \in again THEN onMerge[p] ELSE needed[p]]
        /\ onMerge' = [p \in Packet |-> IF p \in again THEN Uninitialized ELSE onMerge[p]]
        /\ queue' = IF again = {} THEN queue ELSE Append(queue, Unfinished(s))
        /\ stream' = [p \in Packet |->
                        IF p \in ToSet(stage[s].list) \ again THEN Finished(stream[p]) ELSE stream[p]]

Cleanup(s) ==
    /\ LockFree
    /\ At(s, "cleanup")
    /\ RunAgain(s)
    /\ nonIdle' = nonIdle - 1
    /\ PoolUnreserve(1)
    /\ running' = Only(running, Packet \ {s})
    /\ stage' = [stage EXCEPT ![s] = NoAdaptor]
    /\ UNCHANGED <<asked, status, got, cut, crashed>>

(***************************************************************************)
(* abort_queries() deletes the packets, which terminates their buffers.    *)
(* The worker neither becomes idle nor gives back a reservation.           *)
(***************************************************************************)
Abort(s) ==
    /\ LockFree
    /\ At(s, "abort")
    /\ stream' = [p \in Packet |->
                    IF p \in ToSet(stage[s].list) /\ stream[p] = "open" THEN "aborted" ELSE stream[p]]
    /\ running' = Only(running, Packet \ {s})
    /\ stage' = [stage EXCEPT ![s] = NoAdaptor]
    /\ UNCHANGED <<pool, asked, status, queue, progress, got, cut, crashed>>

Work(s) == OutputPage(s) \/ Deliver(s) \/ Erase(s) \/ PageDone(s) \/ EndOfInput(s)
           \/ StopAccepting(s) \/ Cleanup(s) \/ Abort(s)

(***************************************************************************)
(* The consumer of a packet loses interest: terminate() of the buffer.     *)
(***************************************************************************)
Quit(p) ==
    /\ p \in Quits
    /\ status[p] # "new" /\ stream[p] = "open" /\ ~crashed
    /\ stream' = [stream EXCEPT ![p] = "terminated"]
    /\ UNCHANGED <<pool, asked, status, lists, progress, got, cut, crashed>>

Wake ==
    /\ ~crashed
    /\ WakeOne \/ WakeDone
    /\ UNCHANGED <<asked, status, lists, progress, output, cut, crashed>>

Next ==
    \/ \E q \in Client : Reserve(q)
    \/ \E p \in Packet : Dispatch(p) \/ Work(p) \/ Throw(p) \/ Quit(p)
    \/ Dequeue
    \/ Wake

Spec == Init /\ [][Next]_vars

(***************************************************************************)
(* Clients dispatch what they reserved for; workers keep running, since    *)
(* the consumers of their buffers read or terminate.  A packet has finitely*)
(* many steps, so that the threads need no fairness among themselves.      *)
(***************************************************************************)
FairSpec ==
    /\ Spec
    /\ WF_vars((\E p \in Packet : Dispatch(p) \/ Work(p)) \/ Dequeue \/ Wake)

-----------------------------------------------------------------------------
(***************************************************************************)
(* Reservations somebody answers for: packets still to be dispatched, or   *)
(* merged and not yet released, queued lists, running stages, and late     *)
(* mergers that keep theirs for their list.                                *)
(***************************************************************************)
AdmittedPackets == UNION {PacketsOf[q] : q \in {r \in Client : Admitted(r)}}
Owed == Cardinality({p \in AdmittedPackets : status[p] \in {"new", "release"}})
        + Len(queue) + Len(running)
        + Cardinality({s \in ToSet(running) : stage[s].late})

Hurt(p) == stream[p] \in {"terminated", "aborted", "lost"}

(***************************************************************************)
(* Every queued list has a worker reserved and free to take it, and the    *)
(* pool never promises threads that do not exist (stage_container.h:119).  *)
(***************************************************************************)
WorkersReserved ==
    /\ Len(queue) + nonIdle <= reserved /\ reserved <= capacity /\ capacity <= MaxThreads
    /\ Len(queue) <= FreeWorkers
    /\ Owed <= reserved

(***************************************************************************)
(* A reservation is lost only by a query that was terminated or aborted.   *)
(***************************************************************************)
OnlyTheHurtLeak == reserved > Owed => \E p \in Packet : Hurt(p)

(***************************************************************************)
(* Nobody is left waiting for workers that are there, and the pool has     *)
(* grown to its limit before anybody waits (the deadlock that _reserve()   *)
(* guards against).                                                        *)
(***************************************************************************)
NobodyWaitsBelowLimit ==
    waiters # <<>> => capacity = MaxThreads /\ (~waking => Need[Head(waiters)] > Unreserved)

(***************************************************************************)
(* A packet that is told the end of its stream has every page once, in     *)
(* whatever run and however late it merged, unless its stage stopped early *)
(* when it had just merged.                                                *)
(***************************************************************************)
EveryPageOnce(p) == Len(got[p]) = Pages /\ ToSet(got[p]) = 1 .. Pages
WholeUnlessCut == \A p \in Packet : stream[p] = "eof" /\ p \notin cut => EveryPageOnce(p)

(***************************************************************************)
(* The same without exception: output_page() finishes a packet of a second *)
(* run because it `has received all tuples it needs'.                      *)
(***************************************************************************)
WholeStream == \A p \in Packet : stream[p] = "eof" => EveryPageOnce(p)

(***************************************************************************)
(* Every dispatched packet is answered; only the race on a packet list can *)
(* lose one.                                                               *)
(***************************************************************************)
EveryPacketAnswered ==
    \A p \in Packet : status[p] # "new" ~> stream[p] # "open" \/ crashed

(***************************************************************************)
(* A query that reserves gets its workers, unless reservations were lost.  *)
(***************************************************************************)
EveryQueryAdmitted ==
    \A q \in Client : q \in asked ~> Admitted(q) \/ reserved > Owed \/ crashed
=============================================================================

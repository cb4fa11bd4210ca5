----------------------------- MODULE TupleFifo -----------------------------
(***************************************************************************)
(* The buffer between two stages of a query plan (tuple_fifo,              *)
(* src/qpipe/core/tuple_fifo.cpp): a bounded queue of pages with one       *)
(* writer, the worker of the producing stage, and one reader, that of the  *)
(* consuming stage.  Once a side waits it waits for `_threshold' pages of  *)
(* tuples or of space, to batch the context switches.  Either side may     *)
(* leave early; terminate() and send_eof() decide between the two which    *)
(* side deletes the buffer.                                                *)
(*                                                                         *)
(* FLUSH_TO_DISK_ON_FULL is FALSE, so the buffer is always in memory.      *)
(***************************************************************************)
EXTENDS Integers, Sequences

CONSTANTS
    Capacity,   \* _memory_capacity, in pages
    Threshold,  \* _threshold, in pages
    MaxPages    \* bound: the pages the writer fills at most

\* 100 and 64, in every buffer of the query plans.
ASSUME SizeAssumption ==
    /\ Capacity \in Nat /\ Threshold \in Nat /\ MaxPages \in Nat
    /\ 0 < Threshold /\ Threshold <= Capacity

VARIABLES
    state,      \* _state
    pages,      \* _pages: the numbers of the pages in the buffer
    written,    \* how many pages were put in the buffer
    got,        \* history: the pages the reader took
    writer,     \* place of the writer, what its write page holds, and
                \* whether it is in send_eof()
    reader,     \* place of the reader, and the timeout of its call
    deleted     \* whether the buffer was deleted

vars == <<state, pages, written, got, writer, reader, deleted>>

State == {"IN_MEMORY", "DONE_WRITING", "TERMINATED"}
\* "waiting" on the condition variable, "woken" but without the lock yet.
Blocked == {"waiting", "woken"}
Place == {"busy", "leaving", "deleting", "gone"} \cup Blocked
\* Timeouts of a read: none at all, wait for ever, a number of milliseconds.
Timeout == {"poll", "block", "timed"}

TypeOK ==
    /\ state \in State
    /\ pages \in Seq(Nat) /\ Len(pages) <= Capacity
    /\ got \in Seq(Nat) /\ written \in Nat
    /\ writer \in [pc : Place, page : {"sentinel", "partial", "full"}, eof : BOOLEAN]
    /\ reader \in [pc : Place, timeout : Timeout, eof : BOOLEAN]
    /\ deleted \in BOOLEAN

Init ==
    /\ state = "IN_MEMORY"
    /\ pages = <<>> /\ written = 0 /\ got = <<>>
    /\ writer = [pc |-> "busy", page |-> "sentinel", eof |-> FALSE]
    /\ reader = [pc |-> "busy", timeout |-> "block", eof |-> FALSE]
    /\ deleted = FALSE

\* thread_cond_signal(): at most one thread waits on each condition.
Signalled(side) == [side EXCEPT !.pc = IF @ = "waiting" THEN "woken" ELSE @]

-----------------------------------------------------------------------------
(***************************************************************************)
(* The writer: append() and allocate() flush a full write page, or the     *)
(* sentinel before the first tuple; send_eof() flushes what there is.      *)
(***************************************************************************)
Space == Capacity - Len(pages)

\* Slip: the reader is woken only by full batches, also at the end.
PushAtThreshold(eof) ==
    /\ pages' = IF writer.page = "sentinel" THEN pages ELSE Append(pages, written + 1)
    /\ written' = IF writer.page = "sentinel" THEN written ELSE written + 1
    /\ state' = IF eof THEN "DONE_WRITING" ELSE state
    /\ \E page \in {"partial", "full"} :
          writer' = IF eof THEN [writer EXCEPT !.pc = "gone", !.eof = TRUE]
                    ELSE [writer EXCEPT !.pc = "busy", !.page = page, !.eof = FALSE]
    /\ reader' = IF Len(pages') >= Threshold THEN Signalled(reader) ELSE reader
    /\ UNCHANGED <<got, deleted>>

\* Slip: the writer keeps its guard of the buffer after send_eof().
PushKeepsGuard(eof) ==
    /\ pages' = IF writer.page = "sentinel" THEN pages ELSE Append(pages, written + 1)
    /\ written' = IF writer.page = "sentinel" THEN written ELSE written + 1
    /\ state' = IF eof THEN "DONE_WRITING" ELSE state
    /\ \E page \in {"partial", "full"} :
          writer' = IF eof THEN [writer EXCEPT !.pc = "leaving", !.eof = TRUE]
                    ELSE [writer EXCEPT !.pc = "busy", !.page = page, !.eof = FALSE]
    /\ reader' = IF eof \/ Len(pages') >= Threshold THEN Signalled(reader) ELSE reader
    /\ UNCHANGED <<got, deleted>>

\* The rest of _flush_write_page() when there is space: the page goes in, a
\* new one gets its first tuples, or the writer is done and lets go.
Push(eof) ==
    /\ pages' = IF writer.page = "sentinel" THEN pages ELSE Append(pages, written + 1)
    /\ written' = IF writer.page = "sentinel" THEN written ELSE written + 1
    /\ state' = IF eof THEN "DONE_WRITING" ELSE state
    /\ \E page \in {"partial", "full"} :
          writer' = IF eof THEN [writer EXCEPT !.pc = "gone", !.eof = TRUE]
                    ELSE [writer EXCEPT !.pc = "busy", !.page = page, !.eof = FALSE]
    /\ reader' = IF eof \/ Len(pages') >= Threshold THEN Signalled(reader) ELSE reader
    /\ UNCHANGED <<got, deleted>>

\* The terminated buffer throws, and the writer gives the packet up.
WriterThrows ==
    /\ state = "TERMINATED"
    /\ writer' = [writer EXCEPT !.pc = "leaving"]
    /\ UNCHANGED <<state, pages, written, got, reader, deleted>>

WriterWaits(eof) ==
    /\ writer' = [writer EXCEPT !.pc = "waiting", !.eof = eof]
    /\ UNCHANGED <<state, pages, written, got, reader, deleted>>

Flush(eof) ==
    /\ writer.pc = "busy"
    /\ eof \/ (writer.page # "partial" /\ written < MaxPages)
    /\ \/ WriterThrows
       \/ state # "TERMINATED" /\ Space < 1 /\ WriterWaits(eof)
       \/ state # "TERMINATED" /\ Space >= 1 /\ Push(eof)

\* Slip: a woken writer does not look for space again.
FlushResumesOnce ==
    /\ writer.pc = "woken"
    /\ \/ WriterThrows
       \/ state # "TERMINATED" /\ Push(writer.eof)

FlushResumes ==
    /\ writer.pc = "woken"
    /\ \/ WriterThrows
       \/ state # "TERMINATED" /\ Space < Threshold /\ WriterWaits(writer.eof)
       \/ state # "TERMINATED" /\ Space >= Threshold /\ Push(writer.eof)

-----------------------------------------------------------------------------
(***************************************************************************)
(* The reader: _get_read_page().                                           *)
(***************************************************************************)
ReaderThrows ==
    /\ state = "TERMINATED"
    /\ reader' = [reader EXCEPT !.pc = "leaving"]
    /\ UNCHANGED <<state, pages, written, got, writer, deleted>>

ReaderWaits(timeout) ==
    /\ reader' = [reader EXCEPT !.pc = "waiting", !.timeout = timeout]
    /\ UNCHANGED <<state, pages, written, got, writer, deleted>>

\* A page is there: the reader takes the first one.
Take ==
    /\ pages # <<>>
    /\ pages' = Tail(pages) /\ got' = Append(got, Head(pages))
    /\ reader' = [reader EXCEPT !.pc = "busy"]
    /\ writer' = IF state = "IN_MEMORY" /\ Capacity - Len(pages') >= Threshold
                 THEN Signalled(writer) ELSE writer
    /\ UNCHANGED <<state, written, deleted>>

\* -1: the buffer was closed; the reader has no more to do with it.
\* 0: nothing yet; the reader goes on to its other input.
TakeNothing ==
    /\ pages = <<>>
    /\ reader' = IF state = "DONE_WRITING" THEN [reader EXCEPT !.pc = "leaving", !.eof = TRUE]
                 ELSE [reader EXCEPT !.pc = "busy"]
    /\ UNCHANGED <<state, pages, written, got, writer, deleted>>

GetPage(timeout) ==
    /\ reader.pc = "busy"
    /\ \/ ReaderThrows
       \/ /\ state = "IN_MEMORY" /\ pages = <<>> /\ timeout # "poll"
          /\ ReaderWaits(timeout)
       \/ /\ state # "TERMINATED"
          /\ state = "DONE_WRITING" \/ pages # <<>> \/ timeout = "poll"
          /\ Take \/ TakeNothing

\* Slip: a woken reader takes it that the writer is done when nothing is there.
GetPageResumesEof ==
    /\ reader.pc = "woken"
    /\ IF pages = <<>>
       THEN /\ reader' = [reader EXCEPT !.pc = "leaving", !.eof = TRUE]
            /\ UNCHANGED <<state, pages, written, got, writer, deleted>>
       ELSE Take

GetPageResumes ==
    /\ reader.pc = "woken"
    /\ \/ ReaderThrows
       \/ /\ state = "IN_MEMORY" /\ Len(pages) < Threshold
          /\ ReaderWaits(reader.timeout)
       \/ /\ state # "TERMINATED"
          /\ state = "DONE_WRITING" \/ Len(pages) >= Threshold
          /\ Take \/ TakeNothing

\* A timed wait ends by itself, and the loop without another look at the
\* state: on a terminated buffer that still has pages, `unreachable()' throws.
TimedOut ==
    /\ reader.pc \in Blocked
    /\ reader.timeout = "timed"
    /\ IF state = "TERMINATED" /\ pages # <<>> THEN ReaderThrows ELSE Take \/ TakeNothing

-----------------------------------------------------------------------------
(***************************************************************************)
(* Leaving.  A stage whose query is aborted drops its packets, a consumer  *)
(* may stop reading (a join with an empty side), and what has thrown or    *)
(* read the end drops the buffer too: guard<tuple_fifo> calls terminate(), *)
(* and deletes the buffer if that returns false.                           *)
(***************************************************************************)
WriterAborts ==
    /\ writer.pc = "busy"
    /\ writer' = [writer EXCEPT !.pc = "leaving"]
    /\ UNCHANGED <<state, pages, written, got, reader, deleted>>

ReaderQuits ==
    /\ reader.pc = "busy"
    /\ reader' = [reader EXCEPT !.pc = "leaving"]
    /\ UNCHANGED <<state, pages, written, got, writer, deleted>>

\* Slip: terminate() fails only when the other side was terminated.
EndedTerminated == state = "TERMINATED"

\* terminate() returns false.
Ended == state \in {"TERMINATED", "DONE_WRITING"}

Terminate ==
    /\ state' = IF Ended THEN state ELSE "TERMINATED"
    /\ \/ /\ writer.pc = "leaving"
          /\ writer' = [writer EXCEPT !.pc = IF Ended THEN "deleting" ELSE "gone"]
          /\ reader' = IF Ended THEN reader ELSE Signalled(reader)
       \/ /\ reader.pc = "leaving"
          /\ reader' = [reader EXCEPT !.pc = IF Ended THEN "deleting" ELSE "gone"]
          /\ writer' = IF Ended THEN writer ELSE Signalled(writer)
    /\ UNCHANGED <<pages, written, got, deleted>>

Delete ==
    /\ \/ /\ writer.pc = "deleting"
          /\ writer' = [writer EXCEPT !.pc = "gone"] /\ UNCHANGED reader
       \/ /\ reader.pc = "deleting"
          /\ reader' = [reader EXCEPT !.pc = "gone"] /\ UNCHANGED writer
    /\ deleted' = TRUE
    /\ UNCHANGED <<state, pages, written, got>>

\* A condition variable may wake its thread for no reason.
Spurious ==
    /\ \/ writer.pc = "waiting" /\ writer' = Signalled(writer) /\ UNCHANGED reader
       \/ reader.pc = "waiting" /\ reader' = Signalled(reader) /\ UNCHANGED writer
    /\ UNCHANGED <<state, pages, written, got, deleted>>

Write == (\E eof \in BOOLEAN : Flush(eof)) \/ FlushResumes
Read  == (\E t \in Timeout : GetPage(t)) \/ GetPageResumes \/ TimedOut
Leave == Terminate \/ Delete

Next == Write \/ Read \/ WriterAborts \/ ReaderQuits \/ Leave \/ Spurious

Spec == Init /\ [][Next]_vars

\* Both worker threads are scheduled, and a stage ends its output: it does
\* not produce tuples for ever.
Fairness ==
    /\ WF_vars(Flush(TRUE)) /\ WF_vars(FlushResumes)
    /\ WF_vars(\E t \in Timeout : GetPage(t)) /\ WF_vars(GetPageResumes)
    /\ WF_vars(Leave)

FairSpec == Spec /\ Fairness

-----------------------------------------------------------------------------
(***************************************************************************)
(* Pages come out as they went in: what the reader took and what is in the *)
(* buffer is what the writer put in, in order; and a reader that was told  *)
(* the end has it all.  A side that gives up may lose pages, never         *)
(* reorder them.                                                           *)
(***************************************************************************)
InOrder ==
    /\ Len(got) + Len(pages) = written
    /\ \A i \in DOMAIN got : got[i] = i
    /\ \A i \in DOMAIN pages : pages[i] = Len(got) + i
    /\ reader.eof => pages = <<>> /\ writer.eof /\ writer.pc \notin Blocked

(***************************************************************************)
(* One side deletes: "the caller must not access the FIFO again if         *)
(* terminate() returns true" (tuple_fifo.cpp:284-296).  The side that      *)
(* deletes is the last one that has the buffer, whatever the order of end  *)
(* of file, early leave, and the guards' calls of terminate().             *)
(***************************************************************************)
OneDeletes ==
    /\ writer.pc = "deleting" => reader.pc = "gone"
    /\ reader.pc = "deleting" => writer.pc = "gone"
    /\ deleted => writer.pc = "gone" /\ reader.pc = "gone"

(***************************************************************************)
(* No lost wakeup, and not both asleep: with 37 to 63 of 100 pages full    *)
(* neither a waiting reader nor a waiting writer would be signalled, but   *)
(* then at most one of them waits.                                         *)
(***************************************************************************)
SomeoneGoesOn ==
    /\ reader.pc = "waiting" => state = "IN_MEMORY" /\ Len(pages) < Threshold
    /\ writer.pc = "waiting" => state = "IN_MEMORY" /\ Space < Threshold
    /\ reader.pc # "waiting" \/ writer.pc # "waiting"

(***************************************************************************)
(* The buffer is deleted in the end, and both sides got away: no side      *)
(* sleeps on a buffer the other side left, and none leaves it to the other *)
(* while the other leaves it too.                                          *)
(***************************************************************************)
BufferGoes == <>(deleted /\ writer.pc = "gone" /\ reader.pc = "gone")
=============================================================================

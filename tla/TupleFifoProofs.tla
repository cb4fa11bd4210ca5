-------------------------- MODULE TupleFifoProofs --------------------------
(***************************************************************************)
(* Proofs about TupleFifo, for any capacity and threshold with             *)
(* 0 < Threshold <= Capacity: the types, and with them the bound of the    *)
(* buffer; the order of the pages; that one side deletes; that a waiting   *)
(* side is not forgotten and at most one side waits.                       *)
(***************************************************************************)
EXTENDS TupleFifo, TLAPS

-----------------------------------------------------------------------------
(***************************************************************************)
(* The outcomes of the calls of flush and read, whichever of the calls'    *)
(* ways leads to them.                                                     *)
(***************************************************************************)
ReaderIn == reader.pc \in {"busy", "waiting", "woken"}
WriterIn == writer.pc \in {"busy", "woken"}

WThrow == WriterIn /\ WriterThrows
WWait  == /\ state # "TERMINATED" /\ WriterIn
          /\ Space < Threshold
          /\ writer.pc = "busy" => Space < 1
          /\ \E eof \in BOOLEAN : WriterWaits(eof)
WPush  == /\ state # "TERMINATED" /\ WriterIn /\ Space >= 1
          /\ \E eof \in BOOLEAN : Push(eof)
RThrow == ReaderIn /\ ReaderThrows
RWait  == /\ state = "IN_MEMORY" /\ reader.pc \in {"busy", "woken"}
          /\ Len(pages) < Threshold
          /\ reader.pc = "busy" => pages = <<>>
          /\ \E t \in Timeout : ReaderWaits(t)
RTake  == state # "TERMINATED" /\ ReaderIn /\ Take
RNone  == ReaderIn /\ TakeNothing
WLeave == writer.pc = "leaving" /\ Terminate
RLeave == reader.pc = "leaving" /\ Terminate

\* Every step is one of the outcomes, or a side leaves, or a spurious wakeup.
LEMMA Outcomes ==
    ASSUME TypeOK, Next
    PROVE  \/ WThrow \/ WWait \/ WPush \/ RThrow \/ RWait \/ RTake \/ RNone
           \/ WriterAborts \/ ReaderQuits \/ WLeave \/ RLeave \/ Delete \/ Spurious
<1> USE SizeAssumption
<1>1. CASE Write
  <2>1. CASE \E eof \in BOOLEAN : Flush(eof)
    <3>1. PICK eof \in BOOLEAN : Flush(eof)  BY <2>1
    <3>2. writer.pc = "busy"  BY <3>1 DEF Flush
    <3>3. CASE WriterThrows  BY <3>2, <3>3 DEF WThrow, WriterIn
    <3>4. CASE state # "TERMINATED" /\ Space < 1 /\ WriterWaits(eof)
      <4>1. Space < Threshold  BY <3>4 DEF TypeOK, Space
      <4> QED  BY <3>2, <3>4, <4>1 DEF WWait, WriterIn
    <3>5. CASE state # "TERMINATED" /\ Space >= 1 /\ Push(eof)
      BY <3>2, <3>5 DEF WPush, WriterIn
    <3> QED  BY <3>1, <3>3, <3>4, <3>5 DEF Flush
  <2>2. CASE FlushResumes
    <3>1. writer.pc = "woken" /\ writer.eof \in BOOLEAN  BY <2>2 DEF FlushResumes, TypeOK
    <3>2. CASE WriterThrows  BY <3>1, <3>2 DEF WThrow, WriterIn
    <3>3. CASE state # "TERMINATED" /\ Space < Threshold /\ WriterWaits(writer.eof)
      BY <3>1, <3>3 DEF WWait, WriterIn
    <3>4. CASE state # "TERMINATED" /\ Space >= Threshold /\ Push(writer.eof)
      <4>1. Space >= 1  BY <3>4 DEF TypeOK, Space
      <4> QED  BY <3>1, <3>4, <4>1 DEF WPush, WriterIn
    <3> QED  BY <2>2, <3>2, <3>3, <3>4 DEF FlushResumes
  <2> QED  BY <1>1, <2>1, <2>2 DEF Write
<1>2. CASE Read
  <2>1. CASE \E t \in Timeout : GetPage(t)
    <3>1. PICK t \in Timeout : GetPage(t)  BY <2>1
    <3>2. reader.pc = "busy"  BY <3>1 DEF GetPage
    <3>3. CASE state = "IN_MEMORY" /\ pages = <<>> /\ ReaderWaits(t)
      <4>1. Len(pages) < Threshold  BY <3>3
      <4> QED  BY <3>2, <3>3, <4>1 DEF RWait
    <3>4. CASE ReaderThrows \/ (state # "TERMINATED" /\ (Take \/ TakeNothing))
      BY <3>2, <3>4 DEF RThrow, RTake, RNone, ReaderIn
    <3> QED  BY <3>1, <3>3, <3>4 DEF GetPage
  <2>2. CASE GetPageResumes
    <3>1. reader.pc = "woken" /\ reader.timeout \in Timeout  BY <2>2 DEF GetPageResumes, TypeOK
    <3>2. CASE state = "IN_MEMORY" /\ Len(pages) < Threshold /\ ReaderWaits(reader.timeout)
      BY <3>1, <3>2 DEF RWait
    <3>3. CASE ReaderThrows \/ (state # "TERMINATED" /\ (Take \/ TakeNothing))
      BY <3>1, <3>3 DEF RThrow, RTake, RNone, ReaderIn
    <3> QED  BY <2>2, <3>2, <3>3 DEF GetPageResumes
  <2>3. CASE TimedOut
    <3>1. CASE state = "TERMINATED" /\ pages # <<>>
      BY <2>3, <3>1 DEF TimedOut, RThrow, ReaderIn, Blocked
    <3>2. CASE ~(state = "TERMINATED" /\ pages # <<>>)
      BY <2>3, <3>2 DEF TimedOut, RTake, RNone, ReaderIn, Blocked, Take
    <3> QED  BY <3>1, <3>2
  <2> QED  BY <1>2, <2>1, <2>2, <2>3 DEF Read
<1>3. CASE Terminate
  BY <1>3 DEF Terminate, WLeave, RLeave
<1> QED  BY <1>1, <1>2, <1>3 DEF Next, Leave

-----------------------------------------------------------------------------
(***************************************************************************)
(* The types, and the bound of the buffer: a page goes in only when there  *)
(* is space, whichever threshold let the writer go on.                     *)
(***************************************************************************)
Writers == [pc : Place, page : {"sentinel", "partial", "full"}, eof : BOOLEAN]
Readers == [pc : Place, timeout : Timeout, eof : BOOLEAN]

\* Signalling a side keeps its type.
LEMMA SignalledTypes ==
    /\ \A side \in Writers : Signalled(side) \in Writers
    /\ \A side \in Readers : Signalled(side) \in Readers
<1>1. ASSUME NEW side \in Writers  PROVE Signalled(side) \in Writers
  BY DEF Writers, Signalled, Place, Blocked
<1>2. ASSUME NEW side \in Readers  PROVE Signalled(side) \in Readers
  BY DEF Readers, Signalled, Place, Blocked
<1> QED  BY <1>1, <1>2

\* terminate(), called by either side, keeps the types.
LEMMA TerminateTypes ==
    ASSUME TypeOK, Terminate
    PROVE  TypeOK'
<1>1. writer \in Writers /\ reader \in Readers  BY DEF TypeOK, Writers, Readers
<1>2. /\ [writer EXCEPT !.pc = IF Ended THEN "deleting" ELSE "gone"] \in Writers
      /\ [reader EXCEPT !.pc = IF Ended THEN "deleting" ELSE "gone"] \in Readers
  <2>1. [writer EXCEPT !.pc = IF Ended THEN "deleting" ELSE "gone"] \in Writers
    BY <1>1 DEF Writers, Place
  <2>2. [reader EXCEPT !.pc = IF Ended THEN "deleting" ELSE "gone"] \in Readers
    BY <1>1 DEF Readers, Place
  <2> QED  BY <2>1, <2>2
<1>3. Signalled(writer) \in Writers /\ Signalled(reader) \in Readers
  BY <1>1, SignalledTypes, Zenon
<1>4. writer' \in Writers /\ reader' \in Readers
  BY <1>1, <1>2, <1>3, Zenon DEF Terminate
<1>5. state' \in State /\ UNCHANGED <<pages, written, got, deleted>>
  BY DEF Terminate, State, TypeOK
<1> QED  BY <1>4, <1>5, Zenon DEF TypeOK, Writers, Readers

LEMMA TypeStep ==
    ASSUME TypeOK, [Next]_vars
    PROVE  TypeOK'
<1> USE SizeAssumption DEF TypeOK
<1>1. CASE WThrow  BY <1>1 DEF WThrow, WriterThrows, Place
<1>2. CASE WWait   BY <1>2 DEF WWait, WriterWaits, Place, Blocked
<1>3. CASE WPush
  <2>1. PICK eof \in BOOLEAN : Push(eof)  BY <1>3 DEF WPush
  <2>2. Len(pages) + 1 <= Capacity  BY <1>3 DEF WPush, Space
  <2>3. pages' \in Seq(Nat) /\ Len(pages') <= Capacity /\ written' \in Nat
    BY <2>1, <2>2 DEF Push
  <2>4. state' \in State /\ got' \in Seq(Nat) /\ deleted' \in BOOLEAN
    BY <2>1 DEF Push, State
  <2>5. writer' \in [pc : Place, page : {"sentinel", "partial", "full"}, eof : BOOLEAN]
    BY <2>1 DEF Push, Place
  <2>6. reader' \in [pc : Place, timeout : Timeout, eof : BOOLEAN]
    BY <2>1 DEF Push, Signalled, Place, Blocked
  <2> QED  BY <2>3, <2>4, <2>5, <2>6
<1>4. CASE RThrow  BY <1>4 DEF RThrow, ReaderThrows, Place
<1>5. CASE RWait   BY <1>5 DEF RWait, ReaderWaits, Place, Blocked
<1>6. CASE RTake
  <2>1. Take  BY <1>6 DEF RTake
  <2>2. Head(pages) \in Nat /\ Tail(pages) \in Seq(Nat) /\ Len(Tail(pages)) = Len(pages) - 1
    BY <2>1 DEF Take
  <2>3. pages' \in Seq(Nat) /\ Len(pages') <= Capacity /\ got' \in Seq(Nat)
    BY <2>1, <2>2 DEF Take
  <2>4. writer' \in [pc : Place, page : {"sentinel", "partial", "full"}, eof : BOOLEAN]
    BY <2>1 DEF Take, Signalled, Place, Blocked
  <2>5. reader' \in [pc : Place, timeout : Timeout, eof : BOOLEAN]
    BY <2>1 DEF Take, Place
  <2> QED  BY <2>1, <2>3, <2>4, <2>5 DEF Take
<1>7. CASE RNone         BY <1>7 DEF RNone, TakeNothing, Place
<1>8. CASE WriterAborts  BY <1>8 DEF WriterAborts, Place
<1>9. CASE ReaderQuits   BY <1>9 DEF ReaderQuits, Place
<1>10. CASE WLeave  BY <1>10, TerminateTypes, Zenon DEF WLeave
<1>11. CASE RLeave  BY <1>11, TerminateTypes, Zenon DEF RLeave
<1>12. CASE Delete    BY <1>12 DEF Delete, Place
<1>13. CASE Spurious  BY <1>13 DEF Spurious, Signalled, Place, Blocked
<1>14. CASE UNCHANGED vars  BY <1>14 DEF vars
<1> QED  BY <1>1, <1>2, <1>3, <1>4, <1>5, <1>6, <1>7, <1>8, <1>9, <1>10, <1>11,
            <1>12, <1>13, <1>14, Outcomes

(***************************************************************************)
(* TypeOK of tuple_fifo, and that it never holds more than its capacity.   *)
(***************************************************************************)
THEOREM TypeCorrect == Spec => []TypeOK
<1>1. ASSUME Init  PROVE TypeOK
  <2>1. Len(pages) = 0 /\ pages \in Seq(Nat) /\ got \in Seq(Nat)  BY <1>1 DEF Init
  <2>2. writer \in [pc : Place, page : {"sentinel", "partial", "full"}, eof : BOOLEAN]
    BY <1>1 DEF Init, Place
  <2>3. reader \in [pc : Place, timeout : Timeout, eof : BOOLEAN]
    BY <1>1 DEF Init, Place, Timeout
  <2>4. Len(pages) <= Capacity  BY <2>1, SizeAssumption
  <2>5. state \in State /\ written \in Nat /\ deleted \in BOOLEAN  BY <1>1 DEF Init, State
  <2> QED  BY <2>1, <2>2, <2>3, <2>4, <2>5 DEF TypeOK
<1>2. TypeOK /\ [Next]_vars => TypeOK'  BY TypeStep
<1> QED  BY <1>1, <1>2, PTL DEF Spec

-----------------------------------------------------------------------------
(***************************************************************************)
(* The state of the buffer says who may still be there.                    *)
(***************************************************************************)
StateMatches ==
    /\ state = "IN_MEMORY" =>
         writer.pc \notin {"deleting", "gone"} /\ reader.pc \notin {"deleting", "gone"}
    /\ state = "DONE_WRITING" => writer.pc = "gone" /\ writer.eof
    /\ state = "TERMINATED" => writer.pc = "gone" \/ reader.pc = "gone"
    /\ reader.eof => state = "DONE_WRITING"

EndInv == StateMatches /\ OneDeletes

LEMMA EndStep ==
    ASSUME TypeOK, EndInv, [Next]_vars
    PROVE  EndInv'
<1> USE DEF TypeOK, EndInv, StateMatches, OneDeletes, State
<1>1. CASE WThrow  BY <1>1 DEF WThrow, WriterIn, WriterThrows
<1>2. CASE WWait   BY <1>2 DEF WWait, WriterIn, WriterWaits
<1>3. CASE WPush
  <2>1. PICK eof \in BOOLEAN : Push(eof)  BY <1>3 DEF WPush
  <2>2. writer.pc \in {"busy", "woken"} /\ state = "IN_MEMORY"  BY <1>3 DEF WPush, WriterIn
  <2>3. (eof /\ writer'.pc = "gone" /\ writer'.eof /\ state' = "DONE_WRITING")
        \/ (~eof /\ writer'.pc = "busy" /\ state' = state)
    BY <2>1 DEF Push
  <2>4. reader' = reader \/ (reader.pc = "waiting" /\ reader'.pc = "woken" /\ reader'.eof = reader.eof)
    BY <2>1 DEF Push, Signalled
  <2>5. deleted' = deleted  BY <2>1 DEF Push
  <2> QED  BY <2>2, <2>3, <2>4, <2>5
<1>4. CASE RThrow  BY <1>4 DEF RThrow, ReaderIn, ReaderThrows
<1>5. CASE RWait   BY <1>5 DEF RWait, ReaderWaits
<1>6. CASE RTake
  <2>1. reader.pc \in {"busy", "waiting", "woken"} /\ Take  BY <1>6 DEF RTake, ReaderIn
  <2>2. writer'.pc = writer.pc \/ (state = "IN_MEMORY" /\ writer'.pc = "woken")
    BY <2>1 DEF Take, Signalled
  <2>3. reader'.pc = "busy"  BY <2>1 DEF Take
  <2> QED  BY <2>1, <2>2, <2>3 DEF Take
<1>7. CASE RNone         BY <1>7 DEF RNone, ReaderIn, TakeNothing
<1>8. CASE WriterAborts  BY <1>8 DEF WriterAborts
<1>9. CASE ReaderQuits   BY <1>9 DEF ReaderQuits
<1>10. CASE WLeave  BY <1>10 DEF WLeave, Terminate, Ended, Signalled
<1>11. CASE RLeave  BY <1>11 DEF RLeave, Terminate, Ended, Signalled
<1>12. CASE Delete    BY <1>12 DEF Delete
<1>13. CASE Spurious  BY <1>13 DEF Spurious, Signalled
<1>14. CASE UNCHANGED vars  BY <1>14 DEF vars
<1> QED  BY <1>1, <1>2, <1>3, <1>4, <1>5, <1>6, <1>7, <1>8, <1>9, <1>10, <1>11,
            <1>12, <1>13, <1>14, Outcomes

(***************************************************************************)
(* Whichever side deletes the buffer, the other one has let go of it.      *)
(***************************************************************************)
THEOREM OneSideDeletes == Spec => []OneDeletes
<1>1. Init => EndInv  BY DEF Init, EndInv, StateMatches, OneDeletes
<1>2. TypeOK /\ EndInv /\ [Next]_vars => EndInv'  BY EndStep
<1>3. Spec => []EndInv  BY <1>1, <1>2, TypeCorrect, PTL DEF Spec
<1> QED  BY <1>3, PTL DEF EndInv

-----------------------------------------------------------------------------
(***************************************************************************)
(* The order of the pages.  Only Push and Take touch it; that a reader     *)
(* that was told the end has it all needs StateMatches: once the buffer is *)
(* closed its writer is gone.                                              *)
(***************************************************************************)
LEMMA OrderStep ==
    ASSUME TypeOK, EndInv, InOrder, [Next]_vars
    PROVE  InOrder'
<1> USE DEF TypeOK
<1>1. EndInv'  BY EndStep
<1>2. reader'.eof => writer'.eof /\ writer'.pc \notin Blocked
  BY <1>1 DEF EndInv, StateMatches, Blocked
<1>3. ASSUME UNCHANGED <<pages, written, got>>, reader'.eof => reader.eof
      PROVE  InOrder'
  BY <1>2, <1>3 DEF InOrder
<1>4. CASE WThrow  BY <1>3, <1>4 DEF WThrow, WriterThrows
<1>5. CASE WWait   BY <1>3, <1>5 DEF WWait, WriterWaits
<1>6. CASE WPush
  <2>1. PICK eof \in BOOLEAN : Push(eof)  BY <1>6 DEF WPush
  <2>2. ~reader.eof  BY <1>6 DEF WPush, WriterIn, EndInv, StateMatches
  <2>3. reader'.eof = reader.eof /\ got' = got  BY <2>1 DEF Push, Signalled
  <2>4. CASE writer.page = "sentinel"
    BY <2>1, <2>2, <2>3, <2>4, <1>3 DEF Push
  <2>5. CASE writer.page # "sentinel"
    <3>1. pages' = Append(pages, written + 1) /\ written' = written + 1
      BY <2>1, <2>5 DEF Push
    <3>2. Len(pages') = Len(pages) + 1  BY <3>1
    <3>4. Len(got') + Len(pages') = written'
      <4>1. Len(got) + Len(pages) = written /\ Len(got) \in Nat /\ Len(pages) \in Nat
        BY DEF InOrder
      <4> QED  BY <4>1, <3>1, <3>2, <2>3
    <3>3. ASSUME NEW i \in DOMAIN pages'  PROVE pages'[i] = Len(got') + i
      <4>1. CASE i = Len(pages) + 1
        <5>1. pages'[i] = written + 1  BY <3>1, <4>1
        <5>2. Len(got) + Len(pages) = written /\ Len(got) \in Nat /\ Len(pages) \in Nat
          BY DEF InOrder
        <5> QED  BY <5>1, <5>2, <4>1, <2>3
      <4>2. CASE i \in DOMAIN pages  BY <3>1, <2>3, <4>2 DEF InOrder
      <4> QED  BY <3>1, <3>2, <4>1, <4>2
    <3>5. \A i \in DOMAIN got' : got'[i] = i  BY <2>3 DEF InOrder
    <3> QED  BY <3>3, <3>4, <3>5, <2>2, <2>3 DEF InOrder
  <2> QED  BY <2>4, <2>5
<1>7. CASE RThrow  BY <1>3, <1>7 DEF RThrow, ReaderThrows
<1>8. CASE RWait   BY <1>3, <1>8 DEF RWait, ReaderWaits
<1>9. CASE RTake
  <2>1. /\ pages # <<>> /\ pages' = Tail(pages) /\ got' = Append(got, Head(pages))
        /\ written' = written /\ reader'.eof = reader.eof
    BY <1>9 DEF RTake, Take
  <2>2. ~reader.eof  BY <2>1 DEF InOrder
  <2>3. Head(pages) = Len(got) + 1  BY <2>1 DEF InOrder
  <2>4. Len(got') = Len(got) + 1 /\ Len(pages') = Len(pages) - 1  BY <2>1
  <2>5. \A i \in DOMAIN got' : got'[i] = i  BY <2>1, <2>3 DEF InOrder
  <2>6. \A i \in DOMAIN pages' : pages'[i] = pages[i + 1] /\ i + 1 \in DOMAIN pages
    BY <2>1, <2>4
  <2>7. \A i \in DOMAIN pages' : pages'[i] = Len(got') + i
    BY <2>4, <2>6, <2>1 DEF InOrder
  <2>8. Len(got') + Len(pages') = written'
    <3>1. Len(got) + Len(pages) = written /\ Len(got) \in Nat /\ Len(pages) \in Nat
      BY DEF InOrder
    <3>2. written' = written  BY <2>1
    <3> QED  BY <3>1, <3>2, <2>4
  <2> QED  BY <2>1, <2>2, <2>5, <2>7, <2>8 DEF InOrder
<1>10. CASE RNone
  <2>1. UNCHANGED <<pages, written, got>> /\ pages = <<>>  BY <1>10 DEF RNone, TakeNothing
  <2> QED  BY <1>2, <2>1 DEF InOrder
<1>11. CASE WriterAborts  BY <1>3, <1>11 DEF WriterAborts
<1>12. CASE ReaderQuits   BY <1>3, <1>12 DEF ReaderQuits
<1>13. CASE WLeave \/ RLeave
  BY <1>3, <1>13 DEF WLeave, RLeave, Terminate, Signalled
<1>14. CASE Delete    BY <1>3, <1>14 DEF Delete
<1>15. CASE Spurious  BY <1>3, <1>15 DEF Spurious, Signalled
<1>16. CASE UNCHANGED vars  BY <1>3, <1>16 DEF vars
<1> QED  BY <1>4, <1>5, <1>6, <1>7, <1>8, <1>9, <1>10, <1>11, <1>12, <1>13, <1>14,
            <1>15, <1>16, Outcomes

(***************************************************************************)
(* What the reader took and what is in the buffer is what the writer put   *)
(* in, in order, and a reader that was told the end has all of it.         *)
(***************************************************************************)
THEOREM PagesInOrder == Spec => []InOrder
<1>1. Init => EndInv /\ InOrder
  BY DEF Init, EndInv, StateMatches, OneDeletes, InOrder
<1>2. TypeOK /\ EndInv /\ [Next]_vars => EndInv'  BY EndStep
<1>3. TypeOK /\ EndInv /\ InOrder /\ [Next]_vars => InOrder'  BY OrderStep
<1> QED  BY <1>1, <1>2, <1>3, TypeCorrect, PTL DEF Spec

-----------------------------------------------------------------------------
(***************************************************************************)
(* Both sides on their conditions at once: then one of them was signalled, *)
(* and finds the batch it waits for.                                       *)
(***************************************************************************)
OneIsServed ==
    writer.pc \in Blocked /\ reader.pc \in Blocked =>
        \/ writer.pc = "woken" /\ Space >= Threshold
        \/ reader.pc = "woken" /\ Len(pages) >= Threshold

WaitInv == SomeoneGoesOn /\ OneIsServed

LEMMA WaitStep ==
    ASSUME TypeOK, EndInv, WaitInv, [Next]_vars
    PROVE  WaitInv'
<1> USE SizeAssumption DEF TypeOK, WaitInv, SomeoneGoesOn, OneIsServed, Blocked, Space
<1>1. CASE WThrow  BY <1>1 DEF WThrow, WriterIn, WriterThrows
<1>2. CASE WWait
  <2>1. state = "IN_MEMORY"  BY <1>2 DEF WWait, WriterIn, EndInv, StateMatches, State
  <2>2. /\ UNCHANGED <<state, pages, reader>> /\ writer'.pc = "waiting"
        /\ Capacity - Len(pages) < Threshold
    BY <1>2 DEF WWait, WriterWaits
  <2>3. CASE writer.pc = "busy"
    <3>1. Len(pages) >= Threshold  BY <1>2, <2>3 DEF WWait
    <3> QED  BY <2>1, <2>2, <3>1
  <2>4. CASE writer.pc = "woken"  BY <2>1, <2>2, <2>4
  <2> QED  BY <1>2, <2>3, <2>4 DEF WWait, WriterIn
<1>3. CASE WPush
  <2>1. PICK eof \in BOOLEAN : Push(eof)  BY <1>3 DEF WPush
  <2>2. writer'.pc \notin Blocked  BY <2>1 DEF Push
  <2>3. reader'.pc = "waiting" => Len(pages') < Threshold /\ state' = state /\ reader.pc = "waiting"
    <3>1. pages' \in Seq(Nat)  BY <2>1 DEF Push
    <3> QED  BY <2>1, <3>1 DEF Push, Signalled
  <2> QED  BY <2>2, <2>3
<1>4. CASE RThrow  BY <1>4 DEF RThrow, ReaderIn, ReaderThrows
<1>5. CASE RWait
  <2>1. /\ UNCHANGED <<state, pages, writer>> /\ reader'.pc = "waiting"
        /\ state = "IN_MEMORY" /\ Len(pages) < Threshold
    BY <1>5 DEF RWait, ReaderWaits
  <2>2. CASE reader.pc = "busy"
    <3>1. Capacity - Len(pages) >= Threshold  BY <1>5, <2>2 DEF RWait
    <3> QED  BY <2>1, <3>1
  <2>3. CASE reader.pc = "woken"  BY <2>1, <2>3
  <2> QED  BY <1>5, <2>2, <2>3 DEF RWait
<1>6. CASE RTake
  <2>1. Take  BY <1>6 DEF RTake
  <2>2. reader'.pc = "busy" /\ state' = state  BY <2>1 DEF Take
  <2>3. writer'.pc = "waiting" =>
            writer.pc = "waiting" /\ ~(state = "IN_MEMORY" /\ Capacity - Len(pages') >= Threshold)
    BY <2>1 DEF Take, Signalled
  <2>4. pages' \in Seq(Nat)  BY <2>1 DEF Take
  <2> QED  BY <2>2, <2>3, <2>4
<1>7. CASE RNone         BY <1>7 DEF RNone, ReaderIn, TakeNothing
<1>8. CASE WriterAborts  BY <1>8 DEF WriterAborts
<1>9. CASE ReaderQuits   BY <1>9 DEF ReaderQuits
<1>10. CASE WLeave
  <2>1. state # "DONE_WRITING"  BY <1>10 DEF WLeave, EndInv, StateMatches
  <2>2. Ended => state = "TERMINATED"  BY <2>1 DEF Ended
  <2> QED  BY <1>10, <2>2 DEF WLeave, Terminate, Signalled
<1>11. CASE RLeave  BY <1>11 DEF RLeave, Terminate, Ended, Signalled
<1>12. CASE Delete    BY <1>12 DEF Delete
<1>13. CASE Spurious  BY <1>13 DEF Spurious, Signalled
<1>14. CASE UNCHANGED vars  BY <1>14 DEF vars
<1> QED  BY <1>1, <1>2, <1>3, <1>4, <1>5, <1>6, <1>7, <1>8, <1>9, <1>10, <1>11,
            <1>12, <1>13, <1>14, Outcomes

(***************************************************************************)
(* No side sleeps when its batch is there or the buffer is closed, and     *)
(* never do both: the threshold is not above the capacity.                 *)
(***************************************************************************)
THEOREM NoSideIsForgotten == Spec => []SomeoneGoesOn
<1>1. Init => EndInv /\ WaitInv
  BY DEF Init, EndInv, StateMatches, OneDeletes, WaitInv, SomeoneGoesOn, OneIsServed, Blocked
<1>2. TypeOK /\ EndInv /\ [Next]_vars => EndInv'  BY EndStep
<1>3. TypeOK /\ EndInv /\ WaitInv /\ [Next]_vars => WaitInv'  BY WaitStep
<1>4. Spec => []WaitInv  BY <1>1, <1>2, <1>3, TypeCorrect, PTL DEF Spec
<1> QED  BY <1>4, PTL DEF WaitInv
=============================================================================

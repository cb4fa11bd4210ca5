----------------------- MODULE StrictExecutionProofs -----------------------
(***************************************************************************)
(* Serializability and atomicity of strict executions, for any             *)
(* transactions, steps and conflicts.  DoraFlow implements StrictExecution *)
(* (its property KeepsPromise), so this is what a DORA client relies on.   *)
(***************************************************************************)
EXTENDS StrictExecution, TLAPS

(***************************************************************************)
(* A committed transaction has ended, so that no step of it runs, and      *)
(* dooms it, any more.                                                     *)
(***************************************************************************)
CommittedEnded == \A x \in committed : HasEnded(x)

IInv == TypeOK /\ EndOrderSerializes /\ AllOrNothing /\ CommittedEnded

\* Every step of transactions keeps the types (the history variables of
\* worker.cpp:200-305 and rvp.cpp:237-320).
THEOREM TypeCorrect == Spec => []TypeOK
<1>1. Init => TypeOK
  BY DEF Init, TypeOK
<1>2. TypeOK /\ [Next]_vars => TypeOK'
  <2> SUFFICES ASSUME TypeOK, [Next]_vars PROVE TypeOK'
    OBVIOUS
  <2>1. ASSUME NEW s \in Step, Run(s) PROVE TypeOK'
    <3>1. \A t \in Step : XctOf[t] \in Xct
      BY StepAssumption
    <3>2. ran' \subseteq Step /\ doomed' \subseteq Xct
      BY <2>1, <3>1 DEF TypeOK, Run
    <3>3. {<<XctOf[t], XctOf[s]>> : t \in {u \in ran : <<u, s>> \in Clash}} \subseteq Xct \X Xct
      <4>1. ASSUME NEW t \in Step PROVE <<XctOf[t], XctOf[s]>> \in Xct \X Xct
        BY <3>1
      <4>2. {u \in ran : <<u, s>> \in Clash} \subseteq Step
        BY DEF TypeOK
      <4>3. QED
        BY <4>1, <4>2
    <3>4. prec' \subseteq Xct \X Xct
      BY <2>1, <3>3 DEF TypeOK, Run
    <3>5. ended' = ended /\ committed' = committed
      BY <2>1 DEF Run
    <3>6. QED
      BY <3>2, <3>4, <3>5 DEF TypeOK
  <2>2. ASSUME NEW x \in Xct, Commit(x) PROVE TypeOK'
    BY <2>2 DEF TypeOK, Commit
  <2>3. ASSUME NEW x \in Xct, Abort(x) PROVE TypeOK'
    BY <2>3 DEF TypeOK, Abort
  <2>4. CASE UNCHANGED vars
    BY <2>4 DEF TypeOK, vars
  <2>5. QED
    BY <2>1, <2>2, <2>3, <2>4 DEF Next
<1>3. QED
  BY <1>1, <1>2, PTL DEF Spec

\* A transaction that ends (terminal_rvp_t::_run) comes after those that
\* ended before it, and changes nothing in their order.
LEMMA EndKeepsOrder ==
  ASSUME TypeOK, EndOrderSerializes,
         NEW z \in Xct, ended' = Append(ended, z), prec' = prec
  PROVE  EndOrderSerializes'
<1> SUFFICES ASSUME NEW x \in Xct, NEW y \in Xct, <<x, y>> \in prec
             PROVE  \E i \in DOMAIN ended' :
                       ended'[i] = x /\ \A j \in DOMAIN ended' : ended'[j] = y => i < j
  BY DEF EndOrderSerializes
<1>1. PICK i \in DOMAIN ended :
         ended[i] = x /\ \A j \in DOMAIN ended : ended[j] = y => i < j
  BY DEF EndOrderSerializes
<1>2. /\ DOMAIN ended = 1 .. Len(ended)
      /\ Len(ended) \in Nat
      /\ DOMAIN ended' = 1 .. Len(ended) + 1
      /\ \A j \in DOMAIN ended : ended'[j] = ended[j]
  BY DEF TypeOK
<1>3. i \in DOMAIN ended' /\ ended'[i] = x
  BY <1>1, <1>2
<1>4. ASSUME NEW j \in DOMAIN ended', ended'[j] = y PROVE i < j
  <2>1. CASE j \in DOMAIN ended
    BY <1>1, <1>2, <1>4, <2>1
  <2>2. CASE j \notin DOMAIN ended
    BY <1>2, <2>2
  <2>3. QED
    BY <2>1, <2>2
<1>5. QED
  BY <1>3, <1>4

\* Who has ended stays ended.
LEMMA EndIsFinal ==
  ASSUME TypeOK, NEW z \in Xct, ended' = Append(ended, z)
  PROVE  /\ HasEnded(z)'
         /\ \A x \in Xct : HasEnded(x) => HasEnded(x)'
<1>1. /\ DOMAIN ended = 1 .. Len(ended)
      /\ Len(ended) \in Nat
      /\ DOMAIN ended' = 1 .. Len(ended) + 1
      /\ ended'[Len(ended) + 1] = z
      /\ \A j \in DOMAIN ended : ended'[j] = ended[j]
  BY DEF TypeOK
<1>2. QED
  BY <1>1 DEF HasEnded

\* A step of s in conflict with steps that ran (serve, worker.cpp:200-305)
\* finds their transactions ended, and its own not: it adds only pairs that
\* agree with the order of the ends.
LEMMA RunKeepsOrder ==
  ASSUME TypeOK, EndOrderSerializes, NEW s \in Step, Run(s)
  PROVE  EndOrderSerializes'
<1>1. ended' = ended
  BY DEF Run
<1>2. ASSUME NEW x \in Xct, NEW y \in Xct, <<x, y>> \in prec', <<x, y>> \notin prec
      PROVE  HasEnded(x) /\ ~HasEnded(y)
  BY <1>2 DEF Run, TypeOK
<1>3. QED
  BY <1>1, <1>2 DEF EndOrderSerializes, HasEnded

\* The inductive invariant is kept by every step.
LEMMA IInvStep == TypeOK' /\ IInv /\ [Next]_vars => IInv'
<1> SUFFICES ASSUME TypeOK', IInv, [Next]_vars PROVE IInv'
  OBVIOUS
<1> USE StepAssumption
<1>1. ASSUME NEW s \in Step, Run(s) PROVE IInv'
  <2>1. EndOrderSerializes'
    BY <1>1, RunKeepsOrder DEF IInv
  <2>2. CommittedEnded'
    BY <1>1 DEF IInv, CommittedEnded, HasEnded, Run
  <2>3. XctOf[s] \in Xct /\ XctOf[s] \notin committed
    BY <1>1 DEF IInv, CommittedEnded, Run
  <2>4. AllOrNothing'
    BY <1>1, <2>3 DEF IInv, AllOrNothing, Run
  <2>5. QED
    BY <2>1, <2>2, <2>4 DEF IInv
<1>2. ASSUME NEW x \in Xct, Commit(x) PROVE IInv'
  <2>1. EndOrderSerializes'
    BY <1>2, EndKeepsOrder DEF IInv, Commit
  <2>2. CommittedEnded'
    BY <1>2, EndIsFinal DEF IInv, CommittedEnded, Commit, TypeOK
  <2>3. AllOrNothing'
    BY <1>2 DEF IInv, AllOrNothing, Commit
  <2>4. QED
    BY <2>1, <2>2, <2>3 DEF IInv
<1>3. ASSUME NEW x \in Xct, Abort(x) PROVE IInv'
  <2>1. EndOrderSerializes'
    BY <1>3, EndKeepsOrder DEF IInv, Abort
  <2>2. CommittedEnded'
    BY <1>3, EndIsFinal DEF IInv, CommittedEnded, Abort, TypeOK
  <2>3. AllOrNothing'
    BY <1>3 DEF IInv, AllOrNothing, Abort
  <2>4. QED
    BY <2>1, <2>2, <2>3 DEF IInv
<1>4. CASE UNCHANGED vars
  BY <1>4 DEF IInv, EndOrderSerializes, AllOrNothing, CommittedEnded, HasEnded, vars
<1>5. QED
  BY <1>1, <1>2, <1>3, <1>4 DEF Next

LEMMA IInvHolds == Spec => []IInv
<1>1. Init => IInv
  BY DEF Init, IInv, TypeOK, EndOrderSerializes, AllOrNothing, CommittedEnded
<1>2. QED
  BY <1>1, TypeCorrect, IInvStep, PTL DEF Spec

\* Serializability: the order in which terminal rendezvous points run
\* (rvp.cpp:237-320) is a serial order of the transactions.
THEOREM Serializable == Spec => []EndOrderSerializes
<1>1. IInv => EndOrderSerializes
  BY DEF IInv
<1>2. QED
  BY <1>1, IInvHolds, PTL

\* Atomicity: a transaction that committed (rvp.cpp:269-305) ran all its
\* steps and none of them failed, also later.
LEMMA Atomic == Spec => []AllOrNothing
<1>1. IInv => AllOrNothing
  BY DEF IInv
<1>2. QED
  BY <1>1, IInvHolds, PTL

(***************************************************************************)
(* Strictness: of two steps in conflict that both ran, one is of a         *)
(* transaction that has ended: an action is served (worker.cpp:200-305)    *)
(* only when those in conflict with it went back to their partitions       *)
(* after the end of their transaction (rvp.cpp:237-320).                   *)
(***************************************************************************)
Strict ==
    \A s, t \in ran : <<s, t>> \in Clash /\ <<t, s>> \in Clash =>
        HasEnded(XctOf[s]) \/ HasEnded(XctOf[t])

THEOREM StrictHolds == Spec => []Strict
<1>1. Init => Strict
  BY DEF Init, Strict
<1>2. TypeOK /\ TypeOK' /\ Strict /\ [Next]_vars => Strict'
  <2> SUFFICES ASSUME TypeOK, TypeOK', Strict, [Next]_vars PROVE Strict'
    OBVIOUS
  <2>1. ASSUME NEW u \in Step, Run(u) PROVE Strict'
    <3>1. ended' = ended /\ ran' = ran \cup {u}
      BY <2>1 DEF Run
    <3>2. \A t \in ran : <<t, u>> \in Clash => HasEnded(XctOf[t])
      BY <2>1 DEF Run
    <3>3. ASSUME NEW s \in ran', NEW t \in ran', <<s, t>> \in Clash, <<t, s>> \in Clash
          PROVE  HasEnded(XctOf[s]) \/ HasEnded(XctOf[t])
      <4>1. CASE s \in ran /\ t \in ran
        BY <3>3, <4>1 DEF Strict
      <4>2. CASE s \in ran /\ t = u
        BY <3>2, <3>3, <4>2
      <4>3. CASE s = u /\ t \in ran
        BY <3>2, <3>3, <4>3
      <4>4. CASE s = u /\ t = u
        BY <3>3, <4>4, StepAssumption
      <4>5. QED
        BY <3>1, <3>3, <4>1, <4>2, <4>3, <4>4
    <3>4. QED
      BY <3>1, <3>3 DEF Strict, HasEnded
  <2>2. ASSUME NEW x \in Xct, ended' = Append(ended, x), ran' = ran PROVE Strict'
    <3>1. \A y \in Xct : HasEnded(y) => HasEnded(y)'
      BY <2>2, EndIsFinal
    <3>2. \A s \in ran : XctOf[s] \in Xct
      BY StepAssumption DEF TypeOK
    <3>3. QED
      BY <2>2, <3>1, <3>2 DEF Strict
  <2>3. CASE UNCHANGED vars
    BY <2>3 DEF vars, Strict, HasEnded
  <2>4. QED
    BY <2>1, <2>2, <2>3 DEF Next, Commit, Abort
<1>3. QED
  BY <1>1, <1>2, TypeCorrect, PTL DEF Spec
=============================================================================

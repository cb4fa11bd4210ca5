-------------------------- MODULE StrictExecution --------------------------
(***************************************************************************)
(* What DORA promises to the clients of its transactions, without          *)
(* partitions, queues, locks or workers: the steps of a transaction run    *)
(* phase after phase, a step runs only when every transaction it conflicts *)
(* with and that came first has ended, and a transaction commits only when *)
(* all its steps ran and none failed.                                      *)
(*                                                                         *)
(* Module DoraFlow is shown to implement this one.  That the executions    *)
(* are serializable follows from this specification alone.                 *)
(***************************************************************************)
EXTENDS Integers, Sequences

CONSTANTS
    Xct,        \* transactions
    Step,       \* the steps of all transactions
    XctOf,      \* the transaction of a step
    Clash,      \* pairs of steps of different transactions that conflict
    Before      \* pairs of steps of one transaction in different phases

ASSUME StepAssumption ==
    /\ XctOf \in [Step -> Xct]
    /\ Clash \subseteq {p \in Step \X Step : XctOf[p[1]] # XctOf[p[2]]}
    /\ Before \subseteq Step \X Step

VARIABLES
    ran,        \* the steps that ran
    doomed,     \* the transactions one of whose steps failed
    ended,      \* the transactions that committed or aborted, in order
    committed,  \* those that committed
    prec        \* <<x, y>>: a step of x ran before a conflicting step of y

vars == <<ran, doomed, ended, committed, prec>>

HasEnded(x) == \E i \in DOMAIN ended : ended[i] = x

TypeOK ==
    /\ ran \subseteq Step
    /\ doomed \subseteq Xct
    /\ ended \in Seq(Xct)
    /\ committed \subseteq Xct
    /\ prec \subseteq Xct \X Xct

Init ==
    /\ ran = {}
    /\ doomed = {}
    /\ ended = <<>>
    /\ committed = {}
    /\ prec = {}

\* Slip: a step waits for conflicting steps, but not for the end of their
\* transactions.
RunEagerly(s) ==
    /\ s \notin ran
    /\ ~HasEnded(XctOf[s])
    /\ \A t \in Step : <<t, s>> \in Before => t \in ran
    /\ ran' = ran \cup {s}
    /\ doomed' \in {doomed, doomed \cup {XctOf[s]}}
    /\ prec' = prec \cup {<<XctOf[t], XctOf[s]>> : t \in {u \in ran : <<u, s>> \in Clash}}
    /\ UNCHANGED <<ended, committed>>

Run(s) ==
    /\ s \notin ran
    /\ ~HasEnded(XctOf[s])
    /\ \A t \in Step : <<t, s>> \in Before => t \in ran
    /\ \A t \in ran : <<t, s>> \in Clash => HasEnded(XctOf[t])
    /\ ran' = ran \cup {s}
    /\ doomed' \in {doomed, doomed \cup {XctOf[s]}}
    /\ prec' = prec \cup {<<XctOf[t], XctOf[s]>> : t \in {u \in ran : <<u, s>> \in Clash}}
    /\ UNCHANGED <<ended, committed>>

Commit(x) ==
    /\ ~HasEnded(x)
    /\ x \notin doomed
    /\ \A s \in Step : XctOf[s] = x => s \in ran
    /\ ended' = Append(ended, x)
    /\ committed' = committed \cup {x}
    /\ UNCHANGED <<ran, doomed, prec>>

Abort(x) ==
    /\ ~HasEnded(x)
    /\ ended' = Append(ended, x)
    /\ UNCHANGED <<ran, doomed, committed, prec>>

Next ==
    \/ \E s \in Step : Run(s)
    \/ \E x \in Xct : Commit(x) \/ Abort(x)

Spec == Init /\ [][Next]_vars

-----------------------------------------------------------------------------
(***************************************************************************)
(* Serializability: the order in which transactions end (the order of the  *)
(* terminal rendezvous points, rvp.cpp:237-320) is a serial order.  If x   *)
(* touched a datum before y did, in conflict, then x ended, and y did not  *)
(* end before it.                                                          *)
(***************************************************************************)
EndOrderSerializes ==
    \A x, y \in Xct : <<x, y>> \in prec =>
        \E i \in DOMAIN ended :
            ended[i] = x /\ \A j \in DOMAIN ended : ended[j] = y => i < j

(***************************************************************************)
(* Atomicity: a committed transaction ran all its steps, none of which     *)
(* failed.                                                                 *)
(***************************************************************************)
AllOrNothing ==
    /\ committed \cap doomed = {}
    /\ \A s \in Step : XctOf[s] \in committed => s \in ran
=============================================================================

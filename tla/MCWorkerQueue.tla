--------------------------- MODULE MCWorkerQueue ---------------------------
(***************************************************************************)
(* Two actions come in and two come back committed.                        *)
(***************************************************************************)
EXTENDS WorkerQueue

MCAction  == {"in1", "in2", "com1", "com2"}
MCQueue   == {"input", "commit"}
MCQueueOf == [a \in MCAction |-> IF a \in {"in1", "in2"} THEN "input" ELSE "commit"]

\* One action of each queue is enough to confuse the worker.
TwoAction  == {"in1", "com1"}
TwoQueueOf == [a \in TwoAction |-> IF a = "in1" THEN "input" ELSE "commit"]
=============================================================================

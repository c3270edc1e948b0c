----------------------------- MODULE PipelineMC -----------------------------
(***************************************************************************)
(* Small instances of Pipeline for TLC.  Batches meet only where a worker  *)
(* process is free and where a queue is evicted, so one batch, with its    *)
(* duplicated messages, is enough for properties that speak of each batch. *)
(***************************************************************************)
EXTENDS Pipeline

\* Every batch takes two transactions.
TwoChunks == [b \in Batches |-> 2]

\* Retries can run out, a process can die, a queue can be evicted.
SomeFaults == [k \in FaultKinds |-> IF k = "error" THEN 2 ELSE 1]
=============================================================================

--------------------------- MODULE BufferSenderMC ---------------------------
(***************************************************************************)
(* Small instances of BufferSender for TLC: the faults each run allows.    *)
(***************************************************************************)
EXTENDS BufferSender

\* One fault of each kind: every pair of faults is met in one behaviour.
OneOfEach == [k \in FaultKinds |-> 1]

\* One outage and nothing else.
OneOutage == [k \in FaultKinds |-> IF k = "outage" THEN 1 ELSE 0]
=============================================================================

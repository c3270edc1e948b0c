------------------------------ MODULE Delivery ------------------------------
(***************************************************************************)
(* What the backend promises about a batch it answered 202 to, with no     *)
(* word on queues, tasks, retries or transactions (the docs of             *)
(* bulk_persist_logs and of the Celery settings): it is carried until the  *)
(* database has all of it, in one copy and at most one more for each       *)
(* fault; nothing but a fault takes it away unstored; and the alert of a   *)
(* batch with a threat is on its way before the batch is stored.  Pipeline *)
(* implements this specification.                                          *)
(***************************************************************************)
EXTENDS Naturals

CONSTANTS
    Batches,   \* batches the API can accept
    Critical   \* batches with a malicious or suspicious domain

VARIABLES
    carried,   \* batches that are on their way to the database
    copies,    \* complete copies of each batch in the database
    alerted,   \* batches whose alert has been sent
    broken,    \* batches of which a fault has taken something away
    faults     \* faults so far

vars == <<carried, copies, alerted, broken, faults>>

Stored == {b \in Batches : copies[b] > 0}

Init ==
    /\ carried = {} /\ alerted = {} /\ broken = {}
    /\ copies = [b \in Batches |-> 0]
    /\ faults = 0

\* A batch is accepted, once.
Accept ==
    /\ \E b \in Batches \ (carried \cup Stored \cup broken) : carried' = carried \cup {b}
    /\ UNCHANGED <<copies, alerted, broken, faults>>

Alert ==
    /\ \E b \in carried \cap Critical : alerted' = alerted \cup {b}
    /\ UNCHANGED <<carried, copies, broken, faults>>

\* One more copy of a carried batch is complete.
Store ==
    /\ \E b \in carried :
          /\ b \in Critical => b \in alerted
          /\ copies[b] <= faults
          /\ copies' = [copies EXCEPT ![b] = @ + 1]
    /\ UNCHANGED <<carried, alerted, broken, faults>>

\* A batch is let go of: all of it is in the database, unless a fault hit it.
Release ==
    /\ \E b \in carried \cap (Stored \cup broken) : carried' = carried \ {b}
    /\ UNCHANGED <<copies, alerted, broken, faults>>

\* A fault may take something away from batches that are still carried.
Fault ==
    /\ faults' = faults + 1
    /\ \E B \in SUBSET carried : \E G \in SUBSET B :
          /\ broken' = broken \cup B
          /\ carried' = carried \ G
    /\ UNCHANGED <<copies, alerted>>

Next == Accept \/ Alert \/ Store \/ Release \/ Fault

Spec == Init /\ [][Next]_vars
=============================================================================

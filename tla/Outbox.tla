------------------------------- MODULE Outbox -------------------------------
(***************************************************************************)
(* What the sender process of the edge agent promises about every captured *)
(* DNS log, with no word on queues, batches, HTTP or SQLite (the module    *)
(* doc of agent/buffer_sender.py, lines 3-15): a log that entered the      *)
(* agent is held by it until the API has it, and only a fault (a crash, a  *)
(* restart after one, a failed disk write) can take an undelivered log out *)
(* of its hands.  BufferSender implements this specification.              *)
(***************************************************************************)
EXTENDS Naturals

CONSTANT Logs

VARIABLES
    held,        \* logs the agent still keeps somewhere
    delivered,   \* logs the API accepted at least once
    lost,        \* logs dropped without ever having been delivered
    faults       \* faults the agent has suffered

vars == <<held, delivered, lost, faults>>

Init ==
    /\ held = {} /\ delivered = {} /\ lost = {}
    /\ faults = 0

\* A new log enters the agent.
Accept ==
    /\ \E l \in Logs \ (held \cup delivered \cup lost) : held' = held \cup {l}
    /\ UNCHANGED <<delivered, lost, faults>>

\* The API accepts logs the agent holds.  The agent learns it later, or never
\* when the answer is lost, so it goes on holding them.
Deliver ==
    /\ \E B \in SUBSET held : delivered' = delivered \cup B
    /\ UNCHANGED <<held, lost, faults>>

\* The agent lets go of logs, every one of them delivered.
Release ==
    /\ \E B \in SUBSET (held \cap delivered) : held' = held \ B
    /\ UNCHANGED <<delivered, lost, faults>>

\* A fault: what leaves the agent undelivered is lost.
Fault ==
    /\ \E B \in SUBSET held :
          /\ held' = held \ B
          /\ lost' = lost \cup (B \ delivered)
    /\ faults' = faults + 1
    /\ UNCHANGED delivered

Next == Accept \/ Deliver \/ Release \/ Fault

Spec == Init /\ [][Next]_vars
=============================================================================

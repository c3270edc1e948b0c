---------------------------- MODULE BufferSender ----------------------------
(***************************************************************************)
(* The sender process of the edge agent (agent/buffer_sender.py, class     *)
(* BufferSender, started by _sender_worker of agent/sniffer.py).  It takes *)
(* logs from the IPC queue, batches them in memory, POSTs a batch to the   *)
(* API and stores a batch that failed as one row of a local SQLite table,  *)
(* which it re-sends one row at a time.                                    *)
(*                                                                         *)
(* The process is sequential: pc is where it stands between two steps that *)
(* something outside it can see or cut short (a get on the queue, the POST *)
(* reaching the server, its answer, a SQLite transaction).  Around it act  *)
(* the capture process (Capture), the agent's main process (PutStop,       *)
(* Restart), the API (up or down, an answer lost) and faults (Crash, disk).*)
(*                                                                         *)
(* Abstracted: the order of logs inside one batch, the retry_count column  *)
(* and _batch_sequence (written, never read), log lines and time (due says *)
(* that flush_interval has elapsed).                                       *)
(***************************************************************************)
EXTENDS Integers, Sequences, FiniteSets, Functions

CONSTANTS
    Logs,            \* DNS logs that can be captured, each at most once
    Poison,          \* logs the API answers 422 to (schemas.py DNSLogItem)
    Stop,            \* STOP_SENTINEL
    FlushSize,       \* flush_size
    QueueCap,        \* maxsize of the IPC queue
    MaxBatch,        \* most logs the API takes in one request
    InitialBackoff,  \* INITIAL_BACKOFF_SECONDS
    MaxBackoff,      \* MAX_BACKOFF_SECONDS
    AgentIdFixed,    \* how it may be restarted: TRUE with --agent-id, FALSE with agent-<PID>
    MaxFaults        \* bound on the faults of each kind

FaultKinds == {"outage", "answer", "disk", "crash", "restart"}

ASSUME ConstantsAssumption ==
    /\ Poison \subseteq Logs
    /\ Stop \notin Logs
    /\ FlushSize \in Nat \ {0}
    /\ QueueCap \in Nat \ {0}
    /\ MaxBatch \in Nat \ {0}
    /\ InitialBackoff \in Nat \ {0}
    /\ MaxBackoff \in Nat /\ MaxBackoff > InitialBackoff
    /\ AgentIdFixed \in (SUBSET BOOLEAN) \ {{}}
    /\ MaxFaults \in [FaultKinds -> Nat]

VARIABLES
    queue,      \* multiprocessing.Queue between capture, main and sender
    sentinels,  \* sentinels main has put since the agent started
    pc,         \* where the sender process stands
    buffer,     \* self._buffer
    flight,     \* the batch in hand and the row it came from (0: memory)
    ctx,        \* which caller the batch in hand returns to
    reply,      \* what _send_batch will see
    pending,    \* rows of pending_logs
    nextId,     \* the AUTOINCREMENT key
    orphaned,   \* logs in the fallback files of earlier agent ids
    healthy,    \* self._api_healthy
    backoff,    \* self._current_backoff
    due,        \* now - last_flush_time >= flush_interval
    stats,      \* self.stats
    apiUp,      \* the API gateway can be reached
    captured,   \* history: logs handed to the queue
    received,   \* history: how often the API accepted each log
    lost,       \* history: logs dropped without having been delivered
    spent       \* history: faults of each kind so far

procVars == <<pc, buffer, flight, ctx, reply, due>>
diskVars == <<pending, nextId, orphaned>>
healthVars == <<healthy, backoff>>
queueVars == <<queue, sentinels, captured>>
envVars == <<apiUp, received, lost, spent>>
vars == <<procVars, diskVars, healthVars, queueVars, envVars, stats>>

Batches == {B \in SUBSET Logs : IsFiniteSet(B)}
Rows == [id : Nat \ {0}, logs : Batches]
NoFlight == [logs |-> {}, row |-> 0]
Counters == [enqueued : Nat, sent : Nat, failed : Nat, recovered : Nat]
NoStats == [enqueued |-> 0, sent |-> 0, failed |-> 0, recovered |-> 0]

-----------------------------------------------------------------------------
(* Where a log can be.                                                     *)

InQueue == Range(queue) \ {Stop}
Fresh == IF flight.row = 0 THEN flight.logs ELSE {}
Memory == buffer \cup Fresh
OnDisk == UNION {r.logs : r \in pending}
Delivered == {l \in Logs : received[l] > 0}
Held == InQueue \cup Memory \cup OnDisk \cup orphaned

Alive == pc \notin {"stopped", "dead"}

\* LogBatchCreate: 1..5000 logs, each of them a valid DNSLogItem.
Valid(batch) == Cardinality(batch) <= MaxBatch /\ batch \cap Poison = {}

\* One more fault of kind k, within the bound.
Suffer(k) ==
    /\ spent[k] < MaxFaults[k]
    /\ spent' = [spent EXCEPT ![k] = @ + 1]

-----------------------------------------------------------------------------
Init ==
    /\ queue = <<>> /\ sentinels = 0 /\ captured = {}
    /\ pc = "select" /\ ctx = "drain" /\ reply = "none"
    /\ buffer = {} /\ flight = NoFlight
    /\ pending = {} /\ nextId = 1 /\ orphaned = {}
    /\ healthy = TRUE /\ backoff = InitialBackoff
    /\ due = FALSE
    /\ stats = NoStats
    /\ apiUp = TRUE
    /\ received = [l \in Logs |-> 0]
    /\ lost = {}
    /\ spent = [k \in FaultKinds |-> 0]

-----------------------------------------------------------------------------
(* The processes at the other end of the queue.                            *)

\* process_packet: queue.put blocks while the queue is full.  The capture
\* process is over before main puts the sentinel.
Capture(l) ==
    /\ sentinels = 0
    /\ l \notin captured
    /\ Len(queue) < QueueCap
    /\ queue' = Append(queue, l)
    /\ captured' = captured \cup {l}
    /\ UNCHANGED <<sentinels, procVars, diskVars, healthVars, envVars, stats>>

\* ipc_queue.put(None): once by main when the capture process has ended, and
\* once more by a signal handler that interrupts it.
PutStop ==
    /\ sentinels < 2
    /\ Len(queue) < QueueCap
    /\ queue' = Append(queue, Stop)
    /\ sentinels' = sentinels + 1
    /\ UNCHANGED <<captured, procVars, diskVars, healthVars, envVars, stats>>

-----------------------------------------------------------------------------
(* run: the loop around queue.get.                                         *)

\* flush_interval has gone by since last_flush_time.
Tick ==
    /\ pc = "wait" /\ ~due
    /\ due' = TRUE
    /\ UNCHANGED <<pc, buffer, flight, ctx, reply, diskVars, healthVars,
                   queueVars, envVars, stats>>

\* _flush up to its POST: the buffer becomes the batch in hand.
Flush(batch, caller) ==
    /\ pc' = "post"
    /\ ctx' = caller
    /\ flight' = [logs |-> batch, row |-> 0]
    /\ buffer' = {}
    /\ UNCHANGED <<reply, due>>

\* The buffer has reached flush_size.
FullOneLate(batch) == Cardinality(batch) > FlushSize
Full(batch) == Cardinality(batch) >= FlushSize

\* A log arrives: flush by size, else by time, else keep it in the buffer.
GetLog ==
    /\ pc = "wait"
    /\ queue # <<>> /\ Head(queue) # Stop
    /\ queue' = Tail(queue)
    /\ stats' = [stats EXCEPT !.enqueued = @ + 1]
    /\ LET grown == buffer \cup {Head(queue)}
       IN  \/ /\ Full(grown)
              /\ Flush(grown, "size")
           \/ /\ ~Full(grown) /\ due
              /\ Flush(grown, "time")
           \/ /\ ~Full(grown) /\ ~due
              /\ buffer' = grown
              /\ UNCHANGED <<pc, flight, ctx, reply, due>>
    /\ UNCHANGED <<sentinels, captured, diskVars, healthVars, envVars>>

\* Mutant: the flush by time is skipped when there is nothing to send or when
\* the API is believed down.
GetTimeoutSkips ==
    /\ pc = "wait" /\ queue = <<>> /\ due
    /\ \/ buffer # {} /\ healthy /\ Flush(buffer, "time")
       \/ /\ buffer = {} \/ ~healthy
          /\ due' = FALSE
          /\ UNCHANGED <<pc, buffer, flight, ctx, reply>>
    /\ UNCHANGED <<diskVars, healthVars, queueVars, envVars, stats>>

\* queue.get times out: flush by time.  With an empty buffer _flush returns at
\* once and SQLite is drained only if the API is believed healthy.
GetTimeout ==
    /\ pc = "wait"
    /\ queue = <<>> /\ due
    /\ \/ buffer # {} /\ Flush(buffer, "time")
       \/ /\ buffer = {} /\ healthy
          /\ pc' = "select" /\ ctx' = "drain"
          /\ UNCHANGED <<buffer, flight, reply, due>>
       \/ /\ buffer = {} /\ ~healthy
          /\ due' = FALSE
          /\ UNCHANGED <<pc, buffer, flight, ctx, reply>>
    /\ UNCHANGED <<diskVars, healthVars, queueVars, envVars, stats>>

\* What the final flush has to send: the buffer and what the queue still held.
Remaining == buffer \cup InQueue

\* Mutant: the loop ends without _final_flush.
GetStopNoFlush ==
    /\ pc = "wait" /\ queue # <<>> /\ Head(queue) = Stop
    /\ queue' = <<>> /\ buffer' = Remaining
    /\ pc' = "stopped"
    /\ UNCHANGED <<flight, ctx, reply, due, sentinels, captured, diskVars, healthVars,
                   envVars, stats>>

\* The sentinel arrives: _drain_queue_remaining empties the queue (capture being
\* over, only a second sentinel can be there), then _final_flush sends what is
\* left, or stores it unsent when the API is believed down.
GetStop ==
    /\ pc = "wait"
    /\ queue # <<>> /\ Head(queue) = Stop
    /\ queue' = <<>>
    /\ stats' = [stats EXCEPT !.enqueued = @ + Cardinality(InQueue)]
    /\ \/ Remaining = {} /\ pc' = "stopped" /\ UNCHANGED <<buffer, flight, ctx>>
       \/ /\ Remaining # {}
          /\ pc' = IF healthy THEN "post" ELSE "persist"
          /\ ctx' = "final"
          /\ flight' = [logs |-> Remaining, row |-> 0]
          /\ buffer' = {}
    /\ UNCHANGED <<reply, due, sentinels, captured, diskVars, healthVars, envVars>>

\* Mutant: the break after the final flush is missing.
ReturnAlways ==
    /\ pc' = "wait" /\ ctx' = "none" /\ reply' = "none"
    /\ flight' = NoFlight /\ due' = FALSE
    /\ UNCHANGED buffer

\* A flush or a drain is over: back to queue.get with the timer reset, or out
\* of the loop after the final flush.
Return ==
    /\ pc' = IF ctx = "final" THEN "stopped" ELSE "wait"
    /\ ctx' = "none" /\ reply' = "none"
    /\ flight' = NoFlight
    /\ due' = FALSE
    /\ UNCHANGED buffer

-----------------------------------------------------------------------------
(* _send_batch: the POST, then what the sender makes of the answer.        *)

AtPost == pc = "post" /\ pc' = "answer" /\ UNCHANGED <<buffer, flight, ctx, due>>

Receive(batch) ==
    received' = [l \in Logs |-> received[l] + IF l \in batch THEN 1 ELSE 0]

\* The API queues the batch and answers 202.
PostAccepted ==
    /\ AtPost /\ apiUp /\ Valid(flight.logs)
    /\ Receive(flight.logs)
    /\ reply' = "ok"
    /\ UNCHANGED <<diskVars, healthVars, queueVars, apiUp, lost, spent, stats>>

\* The API queues the batch, but the sender times out or loses the connection.
PostAnswerLost ==
    /\ AtPost /\ apiUp /\ Valid(flight.logs)
    /\ Suffer("answer")
    /\ Receive(flight.logs)
    /\ reply' = "fail"
    /\ UNCHANGED <<diskVars, healthVars, queueVars, apiUp, lost, stats>>

\* The API cannot be reached, or answers 422.
PostFailed ==
    /\ AtPost /\ (~apiUp \/ ~Valid(flight.logs))
    /\ reply' = "fail"
    /\ UNCHANGED <<diskVars, healthVars, queueVars, envVars, stats>>

\* 200 or 202: the API is healthy again.  A drained row is deleted next, a
\* flush by time goes on to drain SQLite.
AnswerOk ==
    /\ pc = "answer" /\ reply = "ok"
    /\ healthy' = TRUE /\ backoff' = InitialBackoff
    /\ stats' = [stats EXCEPT !.sent = @ + Cardinality(flight.logs)]
    /\ \/ /\ ctx = "drain"
          /\ pc' = "delete" /\ reply' = "none"
          /\ UNCHANGED <<buffer, flight, ctx, due>>
       \/ /\ ctx = "time"
          /\ pc' = "select" /\ ctx' = "drain" /\ reply' = "none"
          /\ flight' = NoFlight
          /\ UNCHANGED <<buffer, due>>
       \/ ctx \in {"size", "final"} /\ Return
    /\ UNCHANGED <<diskVars, queueVars, envVars>>

\* _escalate_backoff, up to MaxBackoff.
Escalated == IF 2 * backoff < MaxBackoff THEN 2 * backoff ELSE MaxBackoff

\* Anything else: a fresh batch is stored next, a drained row stays.
AnswerFail ==
    /\ pc = "answer" /\ reply = "fail"
    /\ healthy' = FALSE
    /\ backoff' = Escalated
    /\ \/ ctx = "drain" /\ Return
       \/ /\ ctx # "drain"
          /\ pc' = "persist" /\ reply' = "none"
          /\ UNCHANGED <<buffer, flight, ctx, due>>
    /\ UNCHANGED <<diskVars, queueVars, envVars, stats>>

-----------------------------------------------------------------------------
(* The SQLite fallback.  Its exceptions are logged and swallowed.          *)

\* _persist_to_sqlite: the batch in hand becomes one row.
Persist ==
    /\ pc = "persist"
    /\ pending' = pending \cup {[id |-> nextId, logs |-> flight.logs]}
    /\ nextId' = nextId + 1
    /\ stats' = [stats EXCEPT !.failed = @ + Cardinality(flight.logs)]
    /\ Return
    /\ UNCHANGED <<orphaned, healthVars, queueVars, envVars>>

\* The INSERT fails: the batch exists nowhere any more.
PersistFails ==
    /\ pc = "persist"
    /\ Suffer("disk")
    /\ lost' = lost \cup (flight.logs \ Delivered)
    /\ Return
    /\ UNCHANGED <<diskVars, healthVars, queueVars, apiUp, received, stats>>

\* ORDER BY id ASC LIMIT 1.
Newest(r) == \A q \in pending : r.id >= q.id
Oldest(r) == \A q \in pending : r.id <= q.id

\* _drain_sqlite: the row with the lowest id is sent, if there is one.
SelectRow ==
    /\ pc = "select"
    /\ \/ pending = {} /\ Return
       \/ \E r \in pending :
             /\ Oldest(r)
             /\ flight' = [logs |-> r.logs, row |-> r.id]
             /\ pc' = "post"
             /\ UNCHANGED <<buffer, ctx, reply, due>>
    /\ UNCHANGED <<diskVars, healthVars, queueVars, envVars, stats>>

\* DELETE ... WHERE id = ?
NoneDeleted == pending
AllDeleted == {}
Undeleted == {r \in pending : r.id # flight.row}

\* The row was accepted: it is deleted.
DeleteRow ==
    /\ pc = "delete"
    /\ pending' = Undeleted
    /\ stats' = [stats EXCEPT !.recovered = @ + Cardinality(flight.logs)]
    /\ Return
    /\ UNCHANGED <<nextId, orphaned, healthVars, queueVars, envVars>>

\* The SELECT or the DELETE fails: the row stays, and is sent (again) later.
DrainFails ==
    /\ pc \in {"select", "delete"}
    /\ Suffer("disk")
    /\ Return
    /\ UNCHANGED <<diskVars, healthVars, queueVars, apiUp, received, lost, stats>>

-----------------------------------------------------------------------------
(* The API, and the life of the agent.                                     *)

OutageStarts ==
    /\ apiUp
    /\ Suffer("outage")
    /\ apiUp' = FALSE
    /\ UNCHANGED <<procVars, diskVars, healthVars, queueVars, received, lost, stats>>

OutageEnds ==
    /\ ~apiUp
    /\ apiUp' = TRUE
    /\ UNCHANGED <<procVars, diskVars, healthVars, queueVars, received, lost,
                   spent, stats>>

\* The process dies anywhere (killed, or terminated by main): what it had in
\* memory is gone.
Crash ==
    /\ Alive
    /\ Suffer("crash")
    /\ pc' = "dead" /\ ctx' = "none" /\ reply' = "none"
    /\ buffer' = {} /\ flight' = NoFlight /\ due' = FALSE
    /\ lost' = lost \cup (Memory \ Delivered)
    /\ UNCHANGED <<diskVars, healthVars, queueVars, apiUp, received, stats>>

\* The agent is started again: a new queue, a new BufferSender, and the
\* fallback file named after the agent id.
Restart ==
    /\ ~Alive
    /\ Suffer("restart")
    /\ pc' = "select" /\ ctx' = "drain"
    /\ queue' = <<>> /\ sentinels' = 0
    /\ buffer' = {} /\ flight' = NoFlight
    /\ lost' = lost \cup ((InQueue \cup Memory) \ Delivered)
    /\ healthy' = TRUE /\ backoff' = InitialBackoff
    /\ stats' = NoStats
    /\ \/ TRUE \in AgentIdFixed /\ UNCHANGED diskVars
       \/ /\ FALSE \in AgentIdFixed
          /\ pending' = {} /\ nextId' = 1
          /\ orphaned' = orphaned \cup OnDisk
    /\ UNCHANGED <<reply, due, captured, apiUp, received>>

-----------------------------------------------------------------------------
Post == PostAccepted \/ PostAnswerLost \/ PostFailed
Answer == AnswerOk \/ AnswerFail
Get == GetLog \/ GetTimeout \/ GetStop

Next ==
    \/ \E l \in Logs : Capture(l)
    \/ PutStop
    \/ Tick
    \/ Get
    \/ Post
    \/ Answer
    \/ Persist \/ PersistFails
    \/ SelectRow \/ DeleteRow \/ DrainFails
    \/ OutageStarts \/ OutageEnds
    \/ Crash \/ Restart

Spec == Init /\ [][Next]_vars

\* The sender is one sequential process that blocks only in queue.get and in
\* a POST, both with a timeout: it always takes its next step, and the clock
\* goes on.  No capture, sentinel, recovery of the API or restart is assumed.
Fairness ==
    /\ WF_vars(Tick)
    /\ WF_vars(Get)
    /\ WF_vars(Post)
    /\ WF_vars(Answer)
    /\ WF_vars(Persist \/ PersistFails)
    /\ WF_vars(SelectRow \/ DeleteRow \/ DrainFails)

FairSpec == Spec /\ Fairness

-----------------------------------------------------------------------------
(* Safety.                                                                 *)

\* Type correctness of every variable.
TypeOK ==
    /\ queue \in Seq(Logs \cup {Stop})
    /\ sentinels \in 0..2
    /\ pc \in {"wait", "post", "answer", "persist", "select", "delete",
               "stopped", "dead"}
    /\ buffer \in Batches
    /\ flight \in [logs : Batches, row : Nat]
    /\ ctx \in {"none", "size", "time", "final", "drain"}
    /\ reply \in {"none", "ok", "fail"}
    /\ pending \in SUBSET Rows
    /\ nextId \in Nat \ {0}
    /\ orphaned \in SUBSET Logs
    /\ healthy \in BOOLEAN
    /\ backoff \in InitialBackoff..MaxBackoff
    /\ due \in BOOLEAN
    /\ stats \in Counters
    /\ apiUp \in BOOLEAN
    /\ captured \in SUBSET Logs
    /\ received \in [Logs -> Nat]
    /\ lost \in SUBSET Logs
    /\ spent \in [FaultKinds -> Nat]

\* Every captured log is in the agent's hands, delivered, or counted lost: no
\* flush, drain, shutdown or restart forgets one (buffer_sender.py line 13).
Accounted == captured = Held \cup Delivered \cup lost

\* Only a crash or a failed SQLite write loses a log: no outage of the API,
\* lost answer, full queue or shutdown does.
LossNeedsFault == lost # {} => spent["crash"] + spent["disk"] > 0

\* The API receives a log again only after a fault, at most once per fault:
\* a lost answer, a failed DELETE, or a crash between the answer and what the
\* sender does about it.  Outages and restarts alone never duplicate.
DuplicatesNeedFaults ==
    \A l \in Logs :
        received[l] <= 1 + spent["answer"] + spent["disk"] + spent["crash"]

\* The main loop has ended: nothing is left in the queue or in memory, so all
\* that is undelivered is on disk (lines 143-147: drain, final flush, break).
CleanStop == pc = "stopped" => InQueue \cup Memory = {}

\* A batch flushed in the loop has at most flush_size logs and the last one
\* fewer, so no stored row is larger either: with a flush_size up to the limit
\* of the API no batch is too large for it, not even after an outage.
BatchesBounded ==
    /\ pc = "wait" => Cardinality(buffer) < FlushSize
    /\ ctx = "final" => Cardinality(flight.logs) < FlushSize
    /\ Cardinality(flight.logs) <= FlushSize
    /\ \A r \in pending : Cardinality(r.logs) <= FlushSize

\* The counters logged at the end add up: every log taken from the queue since
\* the process started is in memory, stored, or sent other than from SQLite.
StatsAddUp ==
    (spent["disk"] = 0 /\ pc # "dead") =>
        stats.enqueued =
            Cardinality(buffer) + Cardinality(Fresh) + stats.failed
            + stats.sent - stats.recovered
            - IF pc = "delete" THEN Cardinality(flight.logs) ELSE 0

\* The sender believes the API healthy exactly when the backoff is back at its
\* initial value: each failed POST moves both, each accepted one resets both.
BackoffTracksHealth == healthy <=> backoff = InitialBackoff

\* A row leaves pending_logs only when the API has all of its logs and no older
\* row is left; the one other way out is a restart that changes the agent id.
RowsLeaveDelivered ==
    [][\A r \in pending \ pending' :
          \/ /\ r.logs \subseteq Delivered
             /\ \A q \in pending : r.id <= q.id
          \/ FALSE \in AgentIdFixed /\ r.logs \subseteq orphaned']_vars

\* The sender implements the promise stated by Outbox.
Faults == spent["crash"] + spent["disk"] + spent["restart"]

O == INSTANCE Outbox WITH held <- Held, delivered <- Delivered, faults <- Faults

ImplementsOutbox == O!Spec

-----------------------------------------------------------------------------
(* The inductive invariant behind the safety properties.                   *)

\* What the program counter says of the batch in hand and of the queue.
Control ==
    /\ ctx = "none" <=> pc \in {"wait", "stopped", "dead"}
    /\ pc \in {"select", "delete"} => ctx = "drain"
    /\ pc = "persist" => ctx # "drain"
    /\ pc = "answer" <=> reply # "none"
    /\ ctx = "none" \/ pc = "select" => flight = NoFlight
    /\ ctx = "drain" /\ pc # "select" <=> flight.row # 0
    /\ pc # "wait" => buffer = {}
    /\ Stop \in Range(queue) \/ ctx = "final" \/ pc = "stopped" => sentinels > 0
    /\ ctx = "final" \/ pc = "stopped" => InQueue = {}

\* The row in hand is the oldest of the table, and ids name rows.
RowIds ==
    /\ \A r \in pending : r.id < nextId
    /\ \A r, q \in pending : r.id = q.id => r = q
    /\ flight.row # 0 => /\ [id |-> flight.row, logs |-> flight.logs] \in pending
                         /\ \A r \in pending : flight.row <= r.id

\* An answer other than an error means the API has the batch in hand.
Answered == pc = "delete" \/ reply = "ok"
AnsweredMeansDelivered == Answered => flight.logs \subseteq Delivered

\* A process is found dead after a crash only.
DeadMeansCrashed == pc = "dead" => spent["crash"] > 0

\* A log is in one place at a time.
OnePlace ==
    /\ \A i, j \in DOMAIN queue : queue[i] = queue[j] /\ queue[i] # Stop => i = j
    /\ InQueue \cap Memory = {}
    /\ (InQueue \cup Memory) \cap (OnDisk \cup orphaned) = {}
    /\ \A r, q \in pending : r.logs \cap q.logs # {} => r = q

\* How often the API can have received a log, by the place it is in.
Doubts == spent["answer"] + spent["disk"] + spent["crash"]
Copies ==
    /\ \A l \in InQueue \cup buffer : received[l] = 0
    /\ \A l \in Fresh :
          received[l] <= IF pc = "post" THEN 0 ELSE IF reply = "ok" THEN 1 ELSE Doubts
    /\ \A r \in pending : \A l \in r.logs :
          received[l] <= Doubts + IF r.id = flight.row /\ Answered THEN 1 ELSE 0

IInv ==
    /\ TypeOK /\ Control /\ RowIds /\ AnsweredMeansDelivered
    /\ Accounted /\ LossNeedsFault /\ DeadMeansCrashed /\ BackoffTracksHealth
    /\ OnePlace /\ Copies /\ DuplicatesNeedFaults

-----------------------------------------------------------------------------
(* Liveness, of FairSpec.                                                  *)

\* A sentinel in the queue ends the process, whatever the API does.
SentinelEnds == Stop \in Range(queue) ~> ~Alive

\* A captured log does not stay in memory: it is delivered or stored within
\* some flush, unless the process dies.
MemoryDrains ==
    \A l \in Logs : l \in InQueue \cup Memory
                        ~> l \notin InQueue \cup Memory \/ pc = "dead"

\* When arrivals have ended and the sender goes on believing the API healthy, it empties
\* SQLite, a row at each flush by time.  Without the premise on the queue this is not
\* so: a log that fills the buffer is flushed by size and the loop continues without a
\* drain (lines 154-157), so steady traffic keeps the rows where they are.
HealthyDrains == <>[](Alive /\ healthy /\ queue = <<>>) => <>[](pending = {})

-----------------------------------------------------------------------------
(* What of them is safety: everything but the fairness rule.               *)

Step == Get \/ Post \/ Answer \/ Persist \/ PersistFails \/ SelectRow \/ DeleteRow \/ DrainFails

\* What is left of a flush or a drain: the row and its POST, the answer, the INSERT or
\* the DELETE, and for a flush by time the drain behind it.
RoundLeft ==
    LET drain == IF ctx = "time" THEN 4 ELSE 0
    IN  CASE pc = "select"               -> 4
          [] pc = "post"                 -> 3 + drain
          [] pc = "answer"               -> 2 + drain
          [] pc \in {"persist", "delete"} -> 1
          [] ~Alive \/ pc = "wait"       -> 0

\* Steps to the end once the sentinel is in the queue, a flush for each log before it.
ToStop == 8 * Len(queue) + RoundLeft

\* Behind a sentinel nothing but the other sentinel makes the way to the end longer, and
\* each step of the sender makes it shorter, whatever the API and SQLite do.
SentinelNears ==
    [][(Stop \in Range(queue) /\ Alive) =>
          /\ Step => ToStop' < ToStop
          /\ ToStop' <= ToStop \/ sentinels' > sentinels]_vars

\* A log before the end of its flush: a round for each log it waits behind, or for each
\* that still fits in the buffer, then what is left of the round, and of flush_interval.
Place(l) == CHOOSE i \in DOMAIN queue : queue[i] = l
Behind(l) ==
    IF l \in InQueue THEN (16 * FlushSize + 18) * Place(l)
    ELSE IF l \in buffer THEN 16 * (FlushSize - Cardinality(buffer)) ELSE 0
Clock == IF due THEN 0 ELSE 1
ToFlush(l) == Behind(l) + 2 * RoundLeft + Clock

\* A log in memory comes nearer to its flush with each step of the sender and each lapse
\* of flush_interval, and nothing puts it back: no further log, no outage, no refused or
\* failing batch before it.
LogsAdvance ==
    [][\A l \in InQueue \cup Memory :
          Alive /\ Alive' => /\ Step \/ Tick => ToFlush(l)' < ToFlush(l)
                             /\ ToFlush(l)' <= ToFlush(l)]_vars

\* While the sender believes the API healthy SQLite only empties: no flush stores
\* anything, and each drain that ends without a fault has taken a row out or found none.
HealthyOnlyDrains ==
    [][healthy /\ healthy' /\ UNCHANGED spent =>
          /\ pending' \subseteq pending
          /\ ctx = "drain" /\ ctx' = "none" => pending = {} \/ pending' # pending]_vars

\* Nothing is stored while the API is believed healthy.
StoresWhenDown == pc = "persist" => ~healthy

-----------------------------------------------------------------------------
(* What the documentation says and the code does not do.                   *)

\* "NENHUM log e perdido, mesmo com a API fora do ar por horas": when the API
\* is back for good, the stored rows are delivered (lines 11 and 13).
RecoveryDrains == <>[](apiUp /\ Alive) => <>[](pending = {})
=============================================================================

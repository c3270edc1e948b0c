------------------------------ MODULE Pipeline ------------------------------
(***************************************************************************)
(* What becomes of a batch the API has answered 202 to: the Celery tasks   *)
(* process_and_enrich_batch, bulk_persist_logs and send_alert_task (under  *)
(* backend/workers), the messages that carry them, and the rows and alerts *)
(* they leave.  Enrichment has the inside of the classification.           *)
(*                                                                         *)
(* A message stays with the broker until its task has ended (acks_late); a *)
(* worker process that dies gives it back (task_reject_on_worker_lost); a  *)
(* task that raises sends itself again with one more retry, before its own *)
(* message is acknowledged, and is dropped when max_retries are used up.   *)
(* The sink commits a batch chunk by chunk and a retry starts again with   *)
(* the first chunk.                                                        *)
(*                                                                         *)
(* Abstracted: the logs of a chunk (inserted by one transaction), the      *)
(* alerts of a batch (one, if it holds a threat) and the countdown of a    *)
(* retry (a queued task may wait for any time).                            *)
(***************************************************************************)
EXTENDS Integers, FiniteSets

CONSTANTS
    Batches,      \* batches the API can accept
    Chunks,       \* transactions each batch takes: ceil(logs / bulk_insert_size)
    Critical,     \* batches with a malicious or suspicious domain
    MaxRetries,   \* max_retries of the three tasks
    Processes,    \* worker_concurrency
    MaxFaults     \* bound on the faults of each kind

FaultKinds == {"error", "crash", "evict"}

ASSUME PipelineAssumption ==
    /\ Chunks \in [Batches -> Nat \ {0}]
    /\ Critical \subseteq Batches
    /\ MaxRetries \in Nat /\ Processes \in Nat \ {0}
    /\ MaxFaults \in [FaultKinds -> Nat]

VARIABLES
    tasks,      \* messages of the three queues, those being worked on included
    accepted,   \* history: batches answered 202
    rows,       \* copies of each chunk of each batch in dns_logs
    posted,     \* history: how often the webhook got the alert of a batch
    dropped,    \* history: kind and batch of messages that ended unprocessed
    spent       \* history: faults of each kind so far

vars == <<tasks, accepted, rows, posted, dropped, spent>>

Kinds == {"enrich", "sink", "alert"}
Tasks == [id : Nat \ {0}, kind : Kinds, batch : Batches, retries : 0..MaxRetries,
          at : {"queued", "run", "send", "retried", "ack"}, done : Nat]

Suffer(k) ==
    /\ spent[k] < MaxFaults[k]
    /\ spent' = [spent EXCEPT ![k] = @ + 1]

\* Ids tell apart the messages of a kind and a batch; the lowest free one is taken.
FreeId(kind, b) ==
    CHOOSE n \in 1..(Cardinality(tasks) + 1) :
        \A t \in tasks : t.kind = kind /\ t.batch = b => t.id # n

Key(t) == <<t.id, t.kind, t.batch>>

Message(kind, b, n) ==
    [id |-> FreeId(kind, b), kind |-> kind, batch |-> b, retries |-> n,
     at |-> "queued", done |-> 0]

Replace(t, new) == tasks' = (tasks \ {t}) \cup new

Init ==
    /\ tasks = {}
    /\ accepted = {}
    /\ rows = [b \in Batches |-> [i \in 1..Chunks[b] |-> 0]]
    /\ posted = [b \in Batches |-> 0]
    /\ dropped = {}
    /\ spent = [k \in FaultKinds |-> 0]

-----------------------------------------------------------------------------
\* ingest_batch: the message is sent before the 202.
Accept(b) ==
    /\ b \notin accepted
    /\ accepted' = accepted \cup {b}
    /\ tasks' = tasks \cup {Message("enrich", b, 0)}
    /\ UNCHANGED <<rows, posted, dropped, spent>>

\* A free worker process takes a message.
Fetch(t) ==
    /\ t.at = "queued"
    /\ Cardinality({u \in tasks : u.at # "queued"}) < Processes
    /\ Replace(t, {[t EXCEPT !.at = "run"]})
    /\ UNCHANGED <<accepted, rows, posted, dropped, spent>>

\* Mutant: the logs go to the sink where the alert should.
EnrichSendsFirst(t) ==
    /\ t.kind = "enrich" /\ t.at = "run"
    /\ Replace(t, {[t EXCEPT !.at = "send"], Message("sink", t.batch, 0)})
    /\ UNCHANGED <<accepted, rows, posted, dropped, spent>>

\* process_and_enrich_batch classifies and sends the alert, if there is one ...
EnrichAlerts(t) ==
    /\ t.kind = "enrich" /\ t.at = "run"
    /\ Replace(t, {[t EXCEPT !.at = "send"]}
                    \cup {u \in {Message("alert", t.batch, 0)} : t.batch \in Critical})
    /\ UNCHANGED <<accepted, rows, posted, dropped, spent>>

\* ... and then the enriched logs to the sink.
EnrichSends(t) ==
    /\ t.kind = "enrich" /\ t.at = "send"
    /\ Replace(t, {[t EXCEPT !.at = "ack"], Message("sink", t.batch, 0)})
    /\ UNCHANGED <<accepted, rows, posted, dropped, spent>>

\* Mutant: only the last chunk is inserted.
NextChunkSkips(t) == Chunks[t.batch]
\* Mutant: the loop does not advance.
NextChunkStays(t) == IF t.done = 0 THEN 1 ELSE t.done
NextChunk(t) == t.done + 1

\* bulk_persist_logs: one more chunk is inserted and committed.
SinkInserts(t) ==
    /\ t.kind = "sink" /\ t.at = "run"
    /\ LET i == NextChunk(t)
       IN  /\ rows' = [rows EXCEPT ![t.batch][i] = @ + 1]
           /\ Replace(t, {[t EXCEPT !.done = i,
                                    !.at = IF i = Chunks[t.batch] THEN "ack" ELSE "run"]})
    /\ UNCHANGED <<accepted, posted, dropped, spent>>

\* send_alert_task: the webhook answers 2xx.
AlertPosts(t) ==
    /\ t.kind = "alert" /\ t.at = "run"
    /\ posted' = [posted EXCEPT ![t.batch] = @ + 1]
    /\ Replace(t, {[t EXCEPT !.at = "ack"]})
    /\ UNCHANGED <<accepted, rows, dropped, spent>>

\* Mutant: the acknowledgement comes too late, the broker delivers again.
AckTooLate(t) ==
    /\ t.at \in {"retried", "ack"}
    /\ Replace(t, {[t EXCEPT !.at = "queued", !.done = 0]})
    /\ UNCHANGED <<accepted, rows, posted, dropped, spent>>

\* The task has returned, or raised Retry: the message is acknowledged.
Ack(t) ==
    /\ t.at \in {"retried", "ack"}
    /\ tasks' = tasks \ {t}
    /\ UNCHANGED <<accepted, rows, posted, dropped, spent>>

\* self.retry publishes a message with one more retry, the old one waits for Ack;
\* when the retries are used up, it raises and the message is dropped.
Retry(t) ==
    \/ /\ t.retries < MaxRetries
       /\ Replace(t, {[t EXCEPT !.at = "retried"],
                      Message(t.kind, t.batch, t.retries + 1)})
       /\ UNCHANGED dropped
    \/ /\ t.retries = MaxRetries
       /\ tasks' = tasks \ {t}
       /\ dropped' = dropped \cup {<<t.kind, t.batch>>}

\* PostgreSQL, Redis or the webhook raises, anywhere in the task.
TaskFails(t) ==
    /\ t.at \in {"run", "send"}
    /\ Suffer("error")
    /\ Retry(t)
    /\ UNCHANGED <<accepted, rows, posted>>

\* The webhook took the alert, but not in 5 s: the task is retried.
AlertAnswerLost(t) ==
    /\ t.kind = "alert" /\ t.at = "run"
    /\ Suffer("error")
    /\ posted' = [posted EXCEPT ![t.batch] = @ + 1]
    /\ Retry(t)
    /\ UNCHANGED <<accepted, rows>>

\* Mutant: the message of a dead worker is not requeued.
WorkerLostAcks(t) ==
    /\ t.at # "queued" /\ Suffer("crash")
    /\ tasks' = tasks \ {t}
    /\ UNCHANGED <<accepted, rows, posted, dropped>>

\* A worker process dies, before the acknowledgement: the message is requeued.
WorkerLost(t) ==
    /\ t.at # "queued"
    /\ Suffer("crash")
    /\ Replace(t, {[t EXCEPT !.at = "queued", !.done = 0]})
    /\ UNCHANGED <<accepted, rows, posted, dropped>>

\* The broker is the Redis that docker-compose.yml runs with allkeys-lru: a
\* full memory may evict a queue, which is one key, with all that waits in it.
Evict(kind) ==
    LET waiting == {t \in tasks : t.kind = kind /\ t.at = "queued"}
    IN  /\ waiting # {}
        /\ Suffer("evict")
        /\ tasks' = tasks \ waiting
        /\ dropped' = dropped \cup {<<t.kind, t.batch>> : t \in waiting}
        /\ UNCHANGED <<accepted, rows, posted>>

-----------------------------------------------------------------------------
Work(t) == \/ Fetch(t) \/ EnrichAlerts(t) \/ EnrichSends(t)
           \/ SinkInserts(t) \/ AlertPosts(t) \/ Ack(t)

Next ==
    \/ \E b \in Batches : Accept(b)
    \/ \E t \in tasks : Work(t) \/ TaskFails(t) \/ AlertAnswerLost(t) \/ WorkerLost(t)
    \/ \E kind \in Kinds : Evict(kind)

Spec == Init /\ [][Next]_vars

\* The workers go on taking and finishing messages; which ones first is open.
Fairness == WF_vars(\E t \in tasks : Work(t))

FairSpec == Spec /\ Fairness

-----------------------------------------------------------------------------
Carried(b) == \E t \in tasks : t.batch = b /\ t.kind # "alert"
Persisted(b) == \A i \in 1..Chunks[b] : rows[b][i] > 0
Dropped(kinds, b) == \E k \in kinds : <<k, b>> \in dropped
Alerted(b) == \/ posted[b] > 0 \/ Dropped({"alert"}, b)
              \/ \E t \in tasks : t.kind = "alert" /\ t.batch = b

TypeOK ==
    /\ tasks \subseteq Tasks
    /\ \A t \in tasks : t.kind = "sink" => t.done <= Chunks[t.batch]
    /\ \A t, u \in tasks : Key(t) = Key(u) => t = u
    /\ accepted \subseteq Batches
    /\ DOMAIN rows = Batches /\ \A b \in Batches : rows[b] \in [1..Chunks[b] -> Nat]
    /\ posted \in [Batches -> Nat]
    /\ dropped \subseteq Kinds \X Batches
    /\ spent \in [FaultKinds -> Nat]

\* An accepted batch is carried by some message until all of it is in the
\* database: crashes, retries and duplicated messages never leave a batch, or
\* the tail of one, behind.  Only retries that ran out or an eviction do.
NothingLeftBehind ==
    \A b \in accepted : Carried(b) \/ Persisted(b) \/ Dropped({"enrich", "sink"}, b)

\* A batch is persisted from its first chunk on: what a failure leaves in the
\* database is a prefix of the batch, and every retry rewrites the prefix.
RowsArePrefixes ==
    \A b \in Batches : \A i, j \in 1..Chunks[b] : i <= j => rows[b][i] >= rows[b][j]

\* Rows and alerts are duplicated by faults only, once per fault at most.
CopiesNeedFaults ==
    \A b \in Batches :
        /\ \A i \in 1..Chunks[b] : rows[b][i] <= 1 + spent["error"] + spent["crash"]
        /\ posted[b] <= 1 + spent["error"] + spent["crash"]

\* No row of a batch with a threat is in the database before its alert is on
\* the way, whatever is retried, lost or delivered twice.
AlertBeforeRows ==
    \A b \in Critical : (\E i \in 1..Chunks[b] : rows[b][i] > 0) => Alerted(b)

\* Retries are not for ever: an accepted batch ends up persisted, and its alert
\* posted, or a message of it dropped.
BatchSettles ==
    \A b \in Batches :
        /\ b \in accepted ~> Persisted(b) \/ Dropped({"enrich", "sink"}, b)
        /\ b \in accepted \cap Critical ~> posted[b] > 0 \/ Dropped(Kinds, b)

-----------------------------------------------------------------------------
(* What the backend promises of a batch, Delivery, and how this module     *)
(* implements it: a copy is complete with its last chunk.                  *)

InTransit == {b \in Batches : Carried(b)}
Copies == [b \in Batches |-> rows[b][Chunks[b]]]
WithAlert == {b \in Critical : Alerted(b)}
Broken == {b \in Batches : Dropped({"enrich", "sink"}, b)}
AllFaults == spent["error"] + spent["crash"] + spent["evict"]

D == INSTANCE Delivery WITH carried <- InTransit, copies <- Copies, alerted <- WithAlert,
                            broken <- Broken, faults <- AllFaults

\* Whatever is retried, requeued, delivered twice or evicted, a batch is carried
\* until it is stored, is stored once and once more per fault at most, after
\* its alert, and is let go of unstored only where a fault took a message.
ImplementsDelivery == D!Spec

-----------------------------------------------------------------------------
(* The end of the work.                                                    *)

\* What the workers still have to do for a message, the messages it will send
\* included: fetch it, run its transactions or calls, acknowledge it.
ToDo(t) ==
    LET sink == Chunks[t.batch] + 2
        alert == 3
        fetched == IF t.at = "queued" THEN 0 ELSE 1
        leaving == t.at \in {"retried", "ack"}
    IN  CASE leaving -> 1
          [] ~leaving /\ t.kind = "sink" -> sink - fetched - t.done
          [] ~leaving /\ t.kind = "alert" -> alert - fetched
          [] t.at = "send" /\ t.kind = "enrich" -> sink + 2
          [] t.at \in {"queued", "run"} /\ t.kind = "enrich" -> sink + alert + 4 - fetched

Steps(S) == UNION {{t} \X (1..ToDo(t)) : t \in S}
Effort == Cardinality(Steps(tasks))

\* Work comes to an end: only a batch that is accepted or a fault gives the
\* workers more to do, and between two of those they take Effort steps at
\* most, whatever they do first.  No message goes round for ever.
WorkShrinks == [][(\E t \in tasks : Work(t)) => Effort' < Effort]_vars

\* A worker can go on with a message: what a step of Work needs.
Ready(t) ==
    \/ t.at = "queued" /\ Cardinality({u \in tasks : u.at # "queued"}) < Processes
    \/ t.at = "run"
    \/ t.at = "send" /\ t.kind = "enrich"
    \/ t.at \in {"retried", "ack"}

\* As long as there are messages the workers can go on with one of them, and when
\* there are none every batch is persisted and its alert posted, or a message
\* of it was dropped: the workers stop only at what BatchSettles asks for.
StopsSettled ==
    /\ tasks # {} => \E t \in tasks : Ready(t)
    /\ tasks = {} => \A b \in accepted :
          /\ Persisted(b) \/ Dropped({"enrich", "sink"}, b)
          /\ b \in Critical => posted[b] > 0 \/ Dropped(Kinds, b)

-----------------------------------------------------------------------------
(* The inductive invariant behind the safety properties: what a message    *)
(* says of the rest, and how many copies are still to come.                *)

Sent(b) == \/ Persisted(b) \/ Dropped({"sink"}, b)
           \/ \E t \in tasks : t.kind = "sink" /\ t.batch = b

\* A sink has stored the chunks it has passed.
Passed(t) ==
    t.kind = "sink" =>
        /\ \A i \in 1..t.done : rows[t.batch][i] > 0
        /\ t.at \in {"queued", "run"} => t.done < Chunks[t.batch]

Finished(t) ==
    /\ t.kind = "enrich" => Sent(t.batch)
    /\ t.kind = "sink" => Persisted(t.batch)
    /\ t.kind = "alert" => posted[t.batch] > 0

\* A message of the same kind and batch that is still to be worked on.
LiveHeir(t) ==
    \E u \in tasks : u.kind = t.kind /\ u.batch = t.batch /\ u.at # "retried"

\* A message that is about to be acknowledged has been worked on, or what was sent
\* in its place is there, unless a fault took it.
Done(t) ==
    /\ t.at = "ack" => Finished(t)
    /\ t.at = "retried" => Finished(t) \/ LiveHeir(t) \/ <<t.kind, t.batch>> \in dropped

\* The logs are with the sink, or about to be, only after the alert.
AlertFirst(t) ==
    t.batch \in Critical /\ (t.kind = "sink" \/ t.at \in {"send", "ack"}) => Alerted(t.batch)

\* Messages that will still write chunk i of b, or post its alert, and those of the
\* sink between two chunks.
Awaiting(b, i) ==
    {t \in tasks :
        /\ t.batch = b
        /\ \/ t.kind = "enrich" /\ t.at \notin {"retried", "ack"}
           \/ t.kind = "sink" /\ t.at # "retried" /\ t.done < i}
AwaitingAlert(b) ==
    {t \in tasks :
        /\ t.batch = b
        /\ \/ t.kind = "enrich" /\ t.at \in {"queued", "run"}
           \/ t.kind = "alert" /\ t.at \notin {"retried", "ack"}}
Between(b, i, j) ==
    {t \in tasks : t.batch = b /\ t.kind = "sink" /\ i <= t.done /\ t.done < j}

Untouched(b) ==
    /\ \A t \in tasks : t.batch # b
    /\ \A i \in 1..Chunks[b] : rows[b][i] = 0
    /\ posted[b] = 0

Faults == spent["error"] + spent["crash"]

\* What is there and what is to come together need faults.
Counts(b) ==
    /\ b \notin accepted => Untouched(b)
    /\ \A i \in 1..Chunks[b] : rows[b][i] + Cardinality(Awaiting(b, i)) <= 1 + Faults
    /\ posted[b] + Cardinality(AwaitingAlert(b)) <= 1 + Faults
    /\ \A i, j \in 1..Chunks[b] :
          i <= j => rows[b][i] >= rows[b][j] + Cardinality(Between(b, i, j))

IInv ==
    /\ IsFiniteSet(tasks) /\ TypeOK
    /\ \A t \in tasks : Passed(t) /\ Done(t) /\ AlertFirst(t)
    /\ NothingLeftBehind /\ AlertBeforeRows
    /\ \A b \in Batches : Counts(b)
=============================================================================

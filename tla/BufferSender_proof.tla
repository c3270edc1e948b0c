------------------------- MODULE BufferSender_proof -------------------------
(***************************************************************************)
(* Proofs about BufferSender for every set of logs, every flush size,      *)
(* queue and batch limit, and any number of faults.                        *)
(***************************************************************************)
EXTENDS BufferSender, FiniteSetTheorems, TLAPS

-----------------------------------------------------------------------------
(* Lemmas on the queue and on batches.                                     *)

\* The logs of a queue after a put.
LEMMA AppendLogs ==
    ASSUME NEW S, NEW q \in Seq(S), NEW e \in S
    PROVE  /\ Append(q, e) \in Seq(S)
           /\ Range(Append(q, e)) = Range(q) \cup {e}
<1>1. /\ Append(q, e) \in Seq(S) /\ Len(q) \in Nat
      /\ DOMAIN q = 1..Len(q) /\ DOMAIN Append(q, e) = 1..(Len(q) + 1)
      /\ Append(q, e)[Len(q) + 1] = e
  OBVIOUS
<1>2. \A i \in 1..Len(q) : Append(q, e)[i] = q[i]
  OBVIOUS
<1>3. \A i \in 1..(Len(q) + 1) : i \in 1..Len(q) \/ i = Len(q) + 1
  BY <1>1
<1>4. Range(Append(q, e)) \subseteq Range(q) \cup {e}
  BY <1>1, <1>2, <1>3 DEF Range
<1>5. Range(q) \cup {e} \subseteq Range(Append(q, e))
  BY <1>1, <1>2 DEF Range
<1> QED  BY <1>1, <1>4, <1>5

\* The logs of a queue after a get.
LEMMA TailLogs ==
    ASSUME NEW S, NEW q \in Seq(S), q # <<>>
    PROVE  /\ Head(q) \in S /\ Tail(q) \in Seq(S)
           /\ Range(q) = Range(Tail(q)) \cup {Head(q)}
<1>1. /\ Head(q) \in S /\ Tail(q) \in Seq(S)
      /\ Len(q) \in Nat \ {0} /\ Head(q) = q[1]
      /\ DOMAIN q = 1..Len(q) /\ DOMAIN Tail(q) = 1..(Len(q) - 1)
  OBVIOUS
<1>2. \A i \in 1..(Len(q) - 1) : Tail(q)[i] = q[i + 1]
  OBVIOUS
<1>3. \A i \in 1..Len(q) : i = 1 \/ i - 1 \in 1..(Len(q) - 1)
  BY <1>1
<1>4. Range(q) \subseteq Range(Tail(q)) \cup {Head(q)}
  <2>1. SUFFICES ASSUME NEW i \in 1..Len(q), i # 1
                 PROVE  q[i] \in Range(Tail(q))
    BY <1>1 DEF Range
  <2>2. Tail(q)[i - 1] = q[i] /\ i - 1 \in DOMAIN Tail(q)
    BY <2>1, <1>1, <1>2, <1>3
  <2> QED  BY <2>2 DEF Range
<1>5. Range(Tail(q)) \cup {Head(q)} \subseteq Range(q)
  BY <1>1, <1>2 DEF Range
<1> QED  BY <1>1, <1>4, <1>5

\* A queue holds finitely many logs.
LEMMA QueueFinite ==
    ASSUME NEW S, NEW q \in Seq(S)
    PROVE  IsFiniteSet(Range(q)) /\ Range(q) \subseteq S
<1>1. DOMAIN q = 1..Len(q) /\ Len(q) \in Nat
  OBVIOUS
<1>2. IsFiniteSet(DOMAIN q)
  BY <1>1, FS_Interval
<1>3. q \in Surjection(DOMAIN q, Range(q))
  BY DEF Surjection, Range
<1>4. IsFiniteSet(Range(q))
  BY <1>2, <1>3, FS_Surjection
<1> QED  BY <1>1, <1>4 DEF Range

\* The parts of a union of finite batches.
LEMMA BatchUnion ==
    ASSUME NEW A \in Batches, NEW B \in Batches
    PROVE  A \cup B \in Batches
BY FS_Union DEF Batches

LEMMA BatchSmall ==
    /\ {} \in Batches
    /\ \A l \in Logs : {l} \in Batches
    /\ \A B \in Batches : Cardinality(B) \in Nat
<1>1. {} \in Batches
  BY FS_EmptySet DEF Batches
<1>2. ASSUME NEW l \in Logs PROVE {l} \in Batches
  BY <1>2, FS_Singleton DEF Batches
<1>3. ASSUME NEW B \in Batches PROVE Cardinality(B) \in Nat
  BY <1>3, FS_CardinalityType DEF Batches
<1> QED  BY <1>1, <1>2, <1>3

LEMMA InQueueBatch ==
    ASSUME queue \in Seq(Logs \cup {Stop})
    PROVE  InQueue \in Batches
<1>1. IsFiniteSet(Range(queue)) /\ Range(queue) \subseteq Logs \cup {Stop}
  BY QueueFinite
<1>2. InQueue \subseteq Range(queue) /\ InQueue \subseteq Logs
  BY <1>1 DEF InQueue
<1> QED  BY <1>1, <1>2, FS_Subset DEF Batches

-----------------------------------------------------------------------------
(* Type correctness.                                                       *)

LEMMA TypeInit == Init => TypeOK
<1> SUFFICES ASSUME Init PROVE TypeOK
  OBVIOUS
<1>1. queue \in Seq(Logs \cup {Stop})
  BY DEF Init
<1>2. flight \in [logs : Batches, row : Nat] /\ buffer \in Batches
  BY BatchSmall DEF Init, NoFlight
<1>3. received \in [Logs -> Nat] /\ spent \in [FaultKinds -> Nat]
  BY DEF Init
<1>4. backoff \in InitialBackoff..MaxBackoff
  BY ConstantsAssumption DEF Init
<1>5. pending \in SUBSET Rows /\ nextId \in Nat \ {0}
  BY DEF Init
<1>6. stats \in Counters
  BY DEF Init, NoStats, Counters
<1>7. healthy \in BOOLEAN /\ due \in BOOLEAN /\ apiUp \in BOOLEAN
  BY DEF Init
<1> QED  BY <1>1, <1>2, <1>3, <1>4, <1>5, <1>6, <1>7 DEF Init, TypeOK

\* Adding to one of the counters.
LEMMA CountersType ==
    ASSUME NEW s \in Counters, NEW n \in Nat
    PROVE  /\ [s EXCEPT !.enqueued = @ + n] \in Counters
           /\ [s EXCEPT !.sent = @ + n] \in Counters
           /\ [s EXCEPT !.failed = @ + n] \in Counters
           /\ [s EXCEPT !.recovered = @ + n] \in Counters
BY DEF Counters

\* One more fault leaves the counts of faults typed, and none of them smaller.
LEMMA SufferType ==
    ASSUME NEW k \in FaultKinds, spent \in [FaultKinds -> Nat], Suffer(k)
    PROVE  /\ spent' \in [FaultKinds -> Nat]
           /\ spent'[k] = spent[k] + 1
           /\ \A j \in FaultKinds : j # k => spent'[j] = spent[j]
BY DEF Suffer

LEMMA TypeStep == TypeOK /\ [Next]_vars => TypeOK'
<1> SUFFICES ASSUME TypeOK, [Next]_vars PROVE TypeOK'
  OBVIOUS
<1> USE DEF TypeOK
<1>0. NoFlight \in [logs : Batches, row : Nat]
  BY BatchSmall DEF NoFlight
<1>1. ASSUME NEW l \in Logs, Capture(l) PROVE TypeOK'
  <2>1. queue' \in Seq(Logs \cup {Stop})
    BY <1>1, AppendLogs DEF Capture
  <2> QED  BY <1>1, <2>1 DEF Capture, procVars, diskVars, healthVars, envVars
<1>2. CASE PutStop
  <2>1. queue' \in Seq(Logs \cup {Stop})
    BY <1>2, AppendLogs DEF PutStop
  <2> QED  BY <1>2, <2>1 DEF PutStop, procVars, diskVars, healthVars, envVars
<1>3. CASE Tick
  BY <1>3 DEF Tick, diskVars, healthVars, queueVars, envVars
<1>4. CASE GetLog
  <2> DEFINE grown == buffer \cup {Head(queue)}
  <2>1. queue' \in Seq(Logs \cup {Stop}) /\ Head(queue) \in Logs
    BY <1>4, TailLogs DEF GetLog
  <2>2. grown \in Batches
    BY <2>1, BatchSmall, BatchUnion
  <2>3. [logs |-> grown, row |-> 0] \in [logs : Batches, row : Nat]
    BY <2>2
  <2>4. stats' \in Counters
    BY <1>4, CountersType DEF GetLog
  <2> HIDE DEF grown
  <2>5. \/ buffer' = {} /\ flight' = [logs |-> grown, row |-> 0]
        \/ buffer' = grown /\ flight' = flight
    BY <1>4 DEF GetLog, Flush, grown
  <2>6. /\ ctx' \in {ctx, "size", "time"} /\ pc' \in {pc, "post"}
        /\ reply' = reply /\ due' = due
    BY <1>4 DEF GetLog, Flush
  <2>7. buffer' \in Batches /\ flight' \in [logs : Batches, row : Nat]
    BY <2>2, <2>3, <2>5, BatchSmall
  <2>8. UNCHANGED <<sentinels, captured, diskVars, healthVars, envVars>>
    BY <1>4 DEF GetLog
  <2> QED
    BY <2>1, <2>4, <2>6, <2>7, <2>8 DEF diskVars, healthVars, envVars
<1>5. CASE GetTimeout
  <2>1. /\ ctx' \in {ctx, "drain", "time"} /\ pc' \in {pc, "post", "select"}
        /\ reply' = reply /\ (due' = due \/ due' = FALSE)
        /\ buffer' \in {buffer, {}}
        /\ flight' \in {flight, [logs |-> buffer, row |-> 0]}
    BY <1>5 DEF GetTimeout, Flush
  <2>2. [logs |-> buffer, row |-> 0] \in [logs : Batches, row : Nat]
    OBVIOUS
  <2>3. UNCHANGED <<diskVars, healthVars, queueVars, envVars, stats>>
    BY <1>5 DEF GetTimeout
  <2>4. buffer' \in Batches /\ flight' \in [logs : Batches, row : Nat]
    BY <2>1, <2>2, BatchSmall
  <2>5. /\ pc' \in {"wait", "post", "answer", "persist", "select", "delete",
                  "stopped", "dead"}
        /\ ctx' \in {"none", "size", "time", "final", "drain"}
        /\ reply' \in {"none", "ok", "fail"} /\ due' \in BOOLEAN
    BY <2>1
  <2> HIDE DEF TypeOK
  <2>6. /\ UNCHANGED <<queue, sentinels, captured, pending, nextId, orphaned, healthy>>
        /\ UNCHANGED <<backoff, stats, apiUp, received, lost, spent>>
    BY <2>3 DEF diskVars, healthVars, queueVars, envVars
  <2> QED
    BY <2>4, <2>5, <2>6 DEF TypeOK
<1>6. CASE GetStop
  <2> DEFINE rest == buffer \cup InQueue
  <2>1. InQueue \in Batches /\ rest \in Batches
    BY InQueueBatch, BatchUnion
  <2>2. [logs |-> rest, row |-> 0] \in [logs : Batches, row : Nat]
    BY <2>1
  <2>3. Cardinality(InQueue) \in Nat
    BY <2>1, BatchSmall
  <2>4. stats' \in Counters
    BY <1>6, <2>3, CountersType DEF GetStop
  <2> HIDE DEF rest
  <2>5. /\ \/ buffer' = buffer /\ flight' = flight
           \/ buffer' = {} /\ flight' = [logs |-> rest, row |-> 0]
        /\ pc' \in {"stopped", "post", "persist"} /\ ctx' \in {ctx, "final"}
        /\ reply' = reply /\ due' = due
    BY <1>6 DEF GetStop, Remaining, rest
  <2>6. buffer' \in Batches /\ flight' \in [logs : Batches, row : Nat]
    BY <2>2, <2>5, BatchSmall
  <2>7. /\ UNCHANGED <<sentinels, captured, diskVars, healthVars, envVars>>
        /\ queue' = <<>>
    BY <1>6 DEF GetStop
  <2> QED
    BY <2>4, <2>5, <2>6, <2>7 DEF diskVars, healthVars, envVars
<1>7. ASSUME Receive(flight.logs) PROVE received' \in [Logs -> Nat]
  BY <1>7 DEF Receive
<1>8. CASE PostAccepted
  BY <1>7, <1>8 DEF PostAccepted, AtPost, diskVars, healthVars, queueVars
<1>9. CASE PostAnswerLost
  <2>1. spent' \in [FaultKinds -> Nat]
    BY <1>9, SufferType DEF PostAnswerLost, FaultKinds
  <2> QED
    BY <1>7, <1>9, <2>1 DEF PostAnswerLost, AtPost, diskVars, healthVars, queueVars
<1>10. CASE PostFailed
  BY <1>10 DEF PostFailed, AtPost, diskVars, healthVars, queueVars, envVars
<1>11. Cardinality(flight.logs) \in Nat
  BY BatchSmall
<1>12. CASE AnswerOk
  <2>1. stats' \in Counters
    BY <1>11, <1>12, CountersType DEF AnswerOk
  <2>2. backoff' \in InitialBackoff..MaxBackoff
    BY <1>12, ConstantsAssumption DEF AnswerOk
  <2> QED
    BY <1>0, <1>12, <2>1, <2>2 DEF AnswerOk, Return, diskVars, queueVars, envVars
<1>13. CASE AnswerFail
  <2>1. backoff' \in InitialBackoff..MaxBackoff
    BY <1>13, ConstantsAssumption DEF AnswerFail, Escalated
  <2> QED
    BY <1>0, <1>13, <2>1 DEF AnswerFail, Return, diskVars, queueVars, envVars
<1>14. CASE Persist
  <2>1. [id |-> nextId, logs |-> flight.logs] \in Rows
    BY DEF Rows
  <2>2. stats' \in Counters
    BY <1>11, <1>14, CountersType DEF Persist
  <2>3. pending' \in SUBSET Rows /\ nextId' \in Nat \ {0}
    BY <1>14, <2>1 DEF Persist
  <2> QED
    BY <1>0, <1>14, <2>2, <2>3 DEF Persist, Return, healthVars, queueVars, envVars
<1>15. CASE PersistFails
  <2>1. spent' \in [FaultKinds -> Nat]
    BY <1>15, SufferType DEF PersistFails, FaultKinds
  <2>2. lost' \in SUBSET Logs
    BY <1>15 DEF PersistFails, Batches
  <2> QED
    BY <1>0, <1>15, <2>1, <2>2
    DEF PersistFails, Return, diskVars, healthVars, queueVars
<1>16. CASE SelectRow
  <2>1. CASE pending = {} /\ Return
    BY <1>0, <1>16, <2>1 DEF SelectRow, Return, diskVars, healthVars, queueVars, envVars
  <2>2. CASE ~ (pending = {} /\ Return)
    <3>1. PICK r \in pending : /\ flight' = [logs |-> r.logs, row |-> r.id]
                               /\ pc' = "post"
                               /\ UNCHANGED <<buffer, ctx, reply, due>>
      BY <1>16, <2>2 DEF SelectRow
    <3>2. flight' \in [logs : Batches, row : Nat]
      BY <3>1 DEF Rows
    <3> QED
      BY <1>16, <3>1, <3>2 DEF SelectRow, diskVars, healthVars, queueVars, envVars
  <2> QED  BY <2>1, <2>2
<1>17. CASE DeleteRow
  <2>1. stats' \in Counters
    BY <1>11, <1>17, CountersType DEF DeleteRow, Undeleted
  <2> QED
    BY <1>0, <1>17, <2>1 DEF DeleteRow, Undeleted, Return, healthVars, queueVars, envVars
<1>18. CASE DrainFails
  <2>1. spent' \in [FaultKinds -> Nat]
    BY <1>18, SufferType DEF DrainFails, FaultKinds
  <2> QED
    BY <1>0, <1>18, <2>1 DEF DrainFails, Return, diskVars, healthVars, queueVars
<1>19. CASE OutageStarts
  <2>1. spent' \in [FaultKinds -> Nat]
    BY <1>19, SufferType DEF OutageStarts, FaultKinds
  <2>2. apiUp' \in BOOLEAN
    BY <1>19 DEF OutageStarts
  <2>3. UNCHANGED <<procVars, diskVars, healthVars, queueVars, stats, received, lost>>
    BY <1>19 DEF OutageStarts
  <2> QED
    BY <2>1, <2>2, <2>3 DEF procVars, diskVars, healthVars, queueVars
<1>20. CASE OutageEnds
  BY <1>20 DEF OutageEnds, procVars, diskVars, healthVars, queueVars
<1>21. CASE Crash
  <2>1. spent' \in [FaultKinds -> Nat]
    BY <1>21, SufferType DEF Crash, FaultKinds
  <2>2. lost' \in SUBSET Logs
    BY <1>21 DEF Crash, Memory, Fresh, Batches
  <2> QED
    BY <1>0, <1>21, <2>1, <2>2, BatchSmall DEF Crash, diskVars, healthVars, queueVars
<1>22. CASE Restart
  <2>1. spent' \in [FaultKinds -> Nat]
    BY <1>22, SufferType DEF Restart, FaultKinds
  <2>2. lost' \in SUBSET Logs
    BY <1>22, InQueueBatch DEF Restart, Batches, Memory, Fresh
  <2>3. stats' \in Counters
    BY <1>22 DEF Restart, NoStats, Counters
  <2>4. backoff' \in InitialBackoff..MaxBackoff
    BY <1>22, ConstantsAssumption DEF Restart
  <2>5. /\ pending' \in SUBSET Rows /\ nextId' \in Nat \ {0}
        /\ orphaned' \in SUBSET Logs
    <3>1. CASE UNCHANGED diskVars
      BY <3>1 DEF diskVars
    <3>2. CASE /\ pending' = {} /\ nextId' = 1
               /\ orphaned' = orphaned \cup OnDisk
      <4>1. OnDisk \in SUBSET Logs
        BY DEF OnDisk, Rows, Batches
      <4> QED
        BY <3>2, <4>1
    <3> QED
      BY <1>22, <3>1, <3>2 DEF Restart
  <2> QED
    BY <1>0, <1>22, <2>1, <2>2, <2>3, <2>4, <2>5, BatchSmall DEF Restart
<1>23. CASE UNCHANGED vars
  BY <1>23 DEF vars, procVars, diskVars, healthVars, queueVars, envVars
<1> QED
  BY <1>1, <1>2, <1>3, <1>4, <1>5, <1>6, <1>8, <1>9, <1>10, <1>12, <1>13, <1>14,
     <1>15, <1>16, <1>17, <1>18, <1>19, <1>20, <1>21, <1>22, <1>23
  DEF Next, Get, Post, Answer

\* Type correctness, for every value of the constants: buffer and batches are
\* finite sets of logs and no counter of the sender leaves its range.
THEOREM TypeCorrect == Spec => []TypeOK
BY TypeInit, TypeStep, PTL DEF Spec

-----------------------------------------------------------------------------
(* How the steps move logs between the places they can be in.              *)

LEMMA EmptyQueue == Range(<<>>) = {}
BY DEF Range

\* A new log enters the queue.
LEMMA CaptureQueue ==
    ASSUME TypeOK, NEW l \in Logs, Capture(l)
    PROVE  InQueue' = InQueue \cup {l} /\ Range(queue') = Range(queue) \cup {l}
<1>1. queue \in Seq(Logs \cup {Stop}) /\ queue' = Append(queue, l)
  BY DEF TypeOK, Capture
<1>2. Range(queue') = Range(queue) \cup {l}
  BY <1>1, AppendLogs
<1> QED  BY <1>2, ConstantsAssumption DEF InQueue

LEMMA PutStopQueue ==
    ASSUME TypeOK, PutStop
    PROVE  InQueue' = InQueue
<1>1. Range(queue') = Range(queue) \cup {Stop}
  BY AppendLogs DEF TypeOK, PutStop
<1> QED  BY <1>1 DEF InQueue

\* The first log leaves the queue.
LEMMA GetLogQueue ==
    ASSUME TypeOK, GetLog
    PROVE  /\ Head(queue) \in Logs
           /\ InQueue = InQueue' \cup {Head(queue)}
           /\ Range(queue) = Range(queue') \cup {Head(queue)}
<1>1. /\ Head(queue) \in Logs \cup {Stop} /\ Head(queue) # Stop
      /\ Range(queue) = Range(queue') \cup {Head(queue)}
  BY TailLogs DEF TypeOK, GetLog
<1> QED  BY <1>1 DEF InQueue

LEMMA GetStopQueue ==
    ASSUME GetStop
    PROVE  InQueue' = {} /\ Range(queue') = {}
BY EmptyQueue DEF GetStop, InQueue

-----------------------------------------------------------------------------
(* Control flow.                                                           *)

LEMMA ControlInit == Init => Control /\ RowIds /\ AnsweredMeansDelivered
<1> SUFFICES ASSUME Init PROVE Control /\ RowIds /\ AnsweredMeansDelivered
  OBVIOUS
<1>1. InQueue = {} /\ Range(queue) = {}
  BY EmptyQueue DEF Init, InQueue
<1> QED
  BY <1>1 DEF Init, Control, RowIds, AnsweredMeansDelivered, Answered, NoFlight

LEMMA ControlStep == TypeOK /\ Control /\ [Next]_vars => Control'
<1> SUFFICES ASSUME TypeOK, Control, [Next]_vars PROVE Control'
  OBVIOUS
<1> USE DEF Control, NoFlight
<1>1. ASSUME NEW l \in Logs, Capture(l) PROVE Control'
  BY <1>1, CaptureQueue, ConstantsAssumption DEF Capture, procVars
<1>2. CASE PutStop
  <2>1. sentinels' > 0
    BY <1>2 DEF PutStop, TypeOK
  <2> QED  BY <1>2, <2>1, PutStopQueue DEF PutStop, procVars
<1>3. CASE Tick
  BY <1>3 DEF Tick, queueVars, InQueue
<1>4. CASE GetLog
  BY <1>4, GetLogQueue DEF GetLog, Flush
<1>5. CASE GetTimeout
  <2>1. InQueue' = InQueue /\ Range(queue') = Range(queue) /\ sentinels' = sentinels
    BY <1>5 DEF GetTimeout, queueVars, InQueue
  <2>2. CASE buffer # {} /\ Flush(buffer, "time")
    BY <1>5, <2>1, <2>2 DEF GetTimeout, Flush
  <2>3. CASE ~ (buffer # {} /\ Flush(buffer, "time"))
    BY <1>5, <2>1, <2>3 DEF GetTimeout
  <2> QED  BY <2>2, <2>3
<1>6. CASE GetStop
  <2>1. Stop \in Range(queue)
    BY <1>6, TailLogs DEF GetStop, TypeOK
  <2>2. sentinels' > 0
    BY <1>6, <2>1 DEF GetStop
  <2>3. CASE Remaining = {} /\ pc' = "stopped" /\ UNCHANGED <<buffer, flight, ctx>>
    BY <1>6, <2>2, <2>3, GetStopQueue DEF GetStop, Remaining
  <2>4. CASE ~ (Remaining = {} /\ pc' = "stopped" /\ UNCHANGED <<buffer, flight, ctx>>)
    BY <1>6, <2>2, <2>4, GetStopQueue DEF GetStop, Remaining
  <2> QED  BY <2>3, <2>4
<1>7. CASE PostAccepted
  BY <1>7 DEF PostAccepted, AtPost, queueVars, InQueue
<1>8. CASE PostAnswerLost
  BY <1>8 DEF PostAnswerLost, AtPost, queueVars, InQueue
<1>9. CASE PostFailed
  BY <1>9 DEF PostFailed, AtPost, queueVars, InQueue
<1>10. CASE AnswerOk
  BY <1>10 DEF AnswerOk, Return, queueVars, InQueue
<1>11. CASE AnswerFail
  BY <1>11 DEF AnswerFail, Return, queueVars, InQueue
<1>12. CASE Persist
  BY <1>12 DEF Persist, Return, queueVars, InQueue
<1>13. CASE PersistFails
  BY <1>13 DEF PersistFails, Return, queueVars, InQueue
<1>14. CASE SelectRow
  <2>1. \A r \in pending : r.id # 0
    BY DEF TypeOK, Rows
  <2> QED  BY <1>14, <2>1 DEF SelectRow, Return, queueVars, InQueue
<1>15. CASE DeleteRow
  BY <1>15 DEF DeleteRow, Undeleted, Return, queueVars, InQueue
<1>16. CASE DrainFails
  BY <1>16 DEF DrainFails, Return, queueVars, InQueue
<1>17. CASE OutageStarts \/ OutageEnds
  BY <1>17 DEF OutageStarts, OutageEnds, procVars, queueVars, InQueue
<1>18. CASE Crash
  BY <1>18 DEF Crash, Alive, queueVars, InQueue
<1>19. CASE Restart
  <2>1. InQueue' = {} /\ Range(queue') = {}
    BY <1>19, EmptyQueue DEF Restart, InQueue
  <2> QED  BY <1>19, <2>1 DEF Restart, Alive
<1>20. CASE UNCHANGED vars
  BY <1>20 DEF vars, procVars, queueVars, InQueue
<1> QED
  BY <1>1, <1>2, <1>3, <1>4, <1>5, <1>6, <1>7, <1>8, <1>9, <1>10, <1>11, <1>12, <1>13,
     <1>14, <1>15, <1>16, <1>17, <1>18, <1>19, <1>20
  DEF Next, Get, Post, Answer

LEMMA RowIdsStep == TypeOK /\ Control /\ RowIds /\ [Next]_vars => RowIds'
<1> SUFFICES ASSUME TypeOK, Control, RowIds, [Next]_vars PROVE RowIds'
  OBVIOUS
<1> USE DEF RowIds
<1>1. CASE UNCHANGED <<pending, nextId, flight>>
  BY <1>1
<1>2. ASSUME flight'.row = 0, UNCHANGED <<pending, nextId>> PROVE RowIds'
  BY <1>2
<1>3. CASE Get
  BY <1>1, <1>2, <1>3 DEF Get, GetLog, GetTimeout, GetStop, Flush, diskVars
<1>4. CASE Answer
  BY <1>1, <1>2, <1>4 DEF Answer, AnswerOk, AnswerFail, Return, NoFlight, diskVars
<1>5. CASE Persist
  <2>1. flight'.row = 0
    BY <1>5 DEF Persist, Return, NoFlight
  <2>2. nextId \in Nat /\ nextId' = nextId + 1 /\ \A r \in pending : r.id \in Nat
    BY <1>5 DEF Persist, TypeOK, Rows
  <2>3. pending' = pending \cup {[id |-> nextId, logs |-> flight.logs]}
    BY <1>5 DEF Persist
  <2> QED  BY <2>1, <2>2, <2>3
<1>6. CASE PersistFails \/ DrainFails \/ Crash
  BY <1>2, <1>6 DEF PersistFails, DrainFails, Crash, Return, NoFlight, diskVars
<1>7. CASE SelectRow
  <2>1. CASE Return
    BY <1>2, <1>7, <2>1 DEF SelectRow, Return, NoFlight, diskVars
  <2>2. CASE ~Return
    <3>1. PICK r \in pending : Oldest(r) /\ flight' = [logs |-> r.logs, row |-> r.id]
      BY <1>7, <2>2 DEF SelectRow
    <3>2. [id |-> flight'.row, logs |-> flight'.logs] = r
      BY <3>1 DEF TypeOK, Rows
    <3> QED  BY <1>7, <3>1, <3>2 DEF SelectRow, Oldest, diskVars
  <2> QED  BY <2>1, <2>2
<1>8. CASE DeleteRow
  BY <1>8 DEF DeleteRow, Undeleted, Return, NoFlight
<1>9. CASE Restart
  <2>1. flight' = NoFlight
    BY <1>9 DEF Restart
  <2>2. \/ pending' = {} \/ UNCHANGED <<pending, nextId>>
    BY <1>9 DEF Restart, diskVars
  <2> QED  BY <2>1, <2>2 DEF NoFlight
<1>10. CASE Next /\ ~ (Get \/ Answer \/ Persist \/ PersistFails \/ DrainFails \/ Crash
                         \/ SelectRow \/ DeleteRow \/ Restart)
  BY <1>1, <1>10
  DEF Next, Post, Capture, PutStop, Tick, PostAccepted, PostAnswerLost, PostFailed, AtPost,
      OutageStarts, OutageEnds, procVars, diskVars
<1>11. CASE UNCHANGED vars
  BY <1>1, <1>11 DEF vars, procVars, diskVars
<1> QED
  BY <1>3, <1>4, <1>5, <1>6, <1>7, <1>8, <1>9, <1>10, <1>11 DEF Next

LEMMA AnsweredStep ==
    TypeOK /\ Control /\ AnsweredMeansDelivered /\ [Next]_vars => AnsweredMeansDelivered'
<1> SUFFICES ASSUME TypeOK, Control, AnsweredMeansDelivered, [Next]_vars
             PROVE  AnsweredMeansDelivered'
  OBVIOUS
<1> USE DEF AnsweredMeansDelivered, Answered, Delivered
<1>1. CASE PostAccepted
  <2>1. \A l \in flight.logs : l \in Logs /\ received'[l] = received[l] + 1
    BY <1>1 DEF PostAccepted, Receive, TypeOK, Batches
  <2>2. \A l \in flight.logs : received'[l] > 0
    BY <2>1 DEF TypeOK
  <2> QED  BY <1>1, <2>1, <2>2 DEF PostAccepted, AtPost
<1>2. CASE AnswerOk
  BY <1>2 DEF AnswerOk, Return, NoFlight, envVars
<1>3. CASE pc' # "delete" /\ reply' # "ok"
  BY <1>3
<1>4. CASE UNCHANGED <<pc, reply, flight, received>>
  BY <1>4
<1>5. CASE Get
  BY <1>5, <1>3, <1>4 DEF Get, GetLog, GetTimeout, GetStop, Flush, Control, envVars
<1>6. CASE PostAnswerLost \/ PostFailed
  BY <1>6 DEF PostAnswerLost, PostFailed, AtPost
<1>7. CASE AnswerFail \/ Persist \/ PersistFails \/ SelectRow \/ DeleteRow \/ DrainFails
  BY <1>7, <1>3
  DEF AnswerFail, Persist, PersistFails, SelectRow, DeleteRow, DrainFails, Return, Control
<1>8. CASE Crash
  BY <1>8 DEF Crash
<1>9. CASE Restart
  BY <1>9, <1>3 DEF Restart, Alive, Control
<1>10. CASE OutageStarts \/ OutageEnds \/ PutStop \/ Tick \/ \E l \in Logs : Capture(l)
  BY <1>10, <1>4
  DEF OutageStarts, OutageEnds, PutStop, Tick, Capture, procVars, envVars
<1>11. CASE UNCHANGED vars
  BY <1>11, <1>4 DEF vars, procVars, envVars
<1> QED
  BY <1>1, <1>2, <1>5, <1>6, <1>7, <1>8, <1>9, <1>10, <1>11 DEF Next, Post, Answer

-----------------------------------------------------------------------------
(* No log is forgotten.                                                    *)

\* What the API has received stays received.
LEMMA DeliveredGrows == TypeOK /\ [Next]_vars => Delivered \subseteq Delivered'
<1> SUFFICES ASSUME TypeOK, [Next]_vars PROVE Delivered \subseteq Delivered'
  OBVIOUS
<1> USE DEF Delivered
<1>1. CASE received' = received
  BY <1>1
<1>2. CASE Receive(flight.logs)
  BY <1>2 DEF Receive, TypeOK
<1> QED
  BY <1>1, <1>2
  DEF Next, Get, Post, Answer, Capture, PutStop, Tick, GetLog, GetTimeout, GetStop,
      PostAccepted, PostAnswerLost, PostFailed, AnswerOk, AnswerFail, Persist,
      PersistFails, SelectRow, DeleteRow, DrainFails, OutageStarts, OutageEnds, Crash,
      Restart, vars, envVars

\* What a step does to the logs in the agent's hands: it takes in a captured
\* log, or the API hears of some, or the agent lets go of delivered ones, or a
\* fault makes it lose some.
Takes ==
    \E l \in Logs \ captured :
        /\ Held' = Held \cup {l} /\ captured' = captured \cup {l}
        /\ UNCHANGED <<Delivered, lost, Faults>>
Tells ==
    /\ Held' = Held /\ Delivered \subseteq Delivered' /\ Delivered' \subseteq Delivered \cup Held
    /\ UNCHANGED <<lost, captured, Faults>>
LetsGo ==
    /\ Held' \subseteq Held /\ Held \ Held' \subseteq Delivered
    /\ UNCHANGED <<Delivered, lost, captured, Faults>>
Suffers ==
    /\ Held' \subseteq Held /\ lost' = lost \cup ((Held \ Held') \ Delivered)
    /\ Faults' = Faults + 1
    /\ UNCHANGED <<Delivered, captured>>
HeldChange == Takes \/ Tells \/ LetsGo \/ Suffers

LEMMA FaultsCount ==
    ASSUME TypeOK
    PROVE  /\ Suffer("crash") \/ Suffer("disk") \/ Suffer("restart") => Faults' = Faults + 1
           /\ Suffer("outage") \/ Suffer("answer") \/ spent' = spent => Faults' = Faults
<1>1. ASSUME NEW k \in FaultKinds, Suffer(k)
      PROVE  /\ spent'[k] = spent[k] + 1
             /\ \A j \in FaultKinds : j # k => spent'[j] = spent[j]
  BY <1>1, SufferType DEF TypeOK
<1>2. \A k \in FaultKinds : spent[k] \in Nat
  BY DEF TypeOK
<1> QED  BY <1>1, <1>2 DEF Faults, FaultKinds

LEMMA HeldStep ==
    /\ TypeOK /\ Control /\ RowIds /\ AnsweredMeansDelivered /\ OnePlace
    /\ [Next]_vars
    => HeldChange
<1> SUFFICES ASSUME TypeOK, Control, RowIds, AnsweredMeansDelivered, OnePlace, [Next]_vars
             PROVE  HeldChange
  OBVIOUS
<1> USE DEF HeldChange, Held, Memory
<1>1. ASSUME NEW l \in Logs, Capture(l) PROVE HeldChange
  <2>1. InQueue' = InQueue \cup {l}
    BY <1>1, CaptureQueue
  <2>2. UNCHANGED <<buffer, Fresh, OnDisk, orphaned, Delivered, lost, Faults>>
    BY <1>1 DEF Capture, procVars, diskVars, envVars, Fresh, OnDisk, Delivered, Faults
  <2> QED  BY <1>1, <2>1, <2>2 DEF Capture, Takes
<1>2. ASSUME UNCHANGED <<InQueue, buffer, Fresh, OnDisk, orphaned, Delivered, lost,
                         captured, Faults>>
      PROVE  HeldChange
  BY <1>2 DEF LetsGo
<1>3. CASE PutStop
  <2>1. UNCHANGED <<buffer, Fresh, OnDisk, orphaned, Delivered, lost, captured, Faults>>
    BY <1>3 DEF PutStop, procVars, diskVars, envVars, Fresh, OnDisk, Delivered, Faults
  <2> QED  BY <1>2, <1>3, <2>1, PutStopQueue
<1>4. CASE Tick \/ OutageStarts \/ OutageEnds
  <2>1. UNCHANGED <<InQueue, buffer, Fresh, OnDisk, orphaned, Delivered, lost, captured>>
    BY <1>4 DEF Tick, OutageStarts, OutageEnds, procVars, diskVars, queueVars, envVars,
                InQueue, Fresh, OnDisk, Delivered
  <2>2. Faults' = Faults
    BY <1>4, FaultsCount DEF Tick, OutageStarts, OutageEnds, envVars
  <2> QED  BY <1>2, <2>1, <2>2
<1>5. CASE GetLog
  <2>1. InQueue = InQueue' \cup {Head(queue)}
    BY <1>5, GetLogQueue
  <2>2. UNCHANGED <<OnDisk, orphaned, Delivered, lost, captured, Faults>>
    BY <1>5 DEF GetLog, diskVars, envVars, OnDisk, Delivered, Faults
  <2>3. Fresh = {}
    BY <1>5 DEF GetLog, Control, NoFlight, Fresh
  <2>4. buffer' \cup Fresh' = buffer \cup {Head(queue)}
    BY <1>5, <2>3 DEF GetLog, Flush, Fresh
  <2> QED  BY <2>1, <2>2, <2>3, <2>4 DEF LetsGo
<1>6. CASE GetTimeout
  <2>1. UNCHANGED <<InQueue, OnDisk, orphaned, Delivered, lost, captured, Faults>>
    BY <1>6 DEF GetTimeout, diskVars, queueVars, envVars, InQueue,
      OnDisk, Delivered, Faults
  <2>2. Fresh = {}
    BY <1>6 DEF GetTimeout, Control, NoFlight, Fresh
  <2>3. \/ UNCHANGED <<buffer, flight>>
        \/ buffer' = {} /\ flight' = [logs |-> buffer, row |-> 0]
    BY <1>6 DEF GetTimeout, Flush
  <2>4. buffer' \cup Fresh' = buffer
    BY <2>2, <2>3 DEF Fresh
  <2> QED  BY <2>1, <2>2, <2>4 DEF LetsGo
<1>7. CASE GetStop
  <2>1. UNCHANGED <<OnDisk, orphaned, Delivered, lost, captured, Faults>>
    BY <1>7 DEF GetStop, diskVars, envVars, OnDisk, Delivered, Faults
  <2>2. Fresh = {}
    BY <1>7 DEF GetStop, Control, NoFlight, Fresh
  <2>3. buffer' \cup Fresh' = buffer \cup InQueue
    BY <1>7, <2>2 DEF GetStop, Remaining, Fresh
  <2> QED  BY <1>7, <2>1, <2>2, <2>3, GetStopQueue DEF LetsGo
<1>8. CASE Post
  <2>1. /\ UNCHANGED <<InQueue, buffer, Fresh, OnDisk, orphaned, lost, captured>>
        /\ received' = received \/ Receive(flight.logs)
    BY <1>8 DEF Post, PostAccepted, PostAnswerLost, PostFailed, AtPost, diskVars,
                queueVars, envVars, InQueue, Fresh, OnDisk
  <2>2. flight.logs \subseteq Fresh \cup OnDisk
    BY DEF Fresh, OnDisk, RowIds
  <2>3. Delivered \subseteq Delivered'
    BY DeliveredGrows
  <2>4. Delivered' \subseteq Delivered \cup flight.logs
    BY <2>1 DEF Receive, Delivered, TypeOK
  <2>5. Faults' = Faults
    BY <1>8, FaultsCount DEF Post, PostAccepted, PostAnswerLost, PostFailed, envVars
  <2> QED  BY <2>1, <2>2, <2>3, <2>4, <2>5 DEF Tells
<1>9. CASE AnswerOk
  <2>1. UNCHANGED <<InQueue, buffer, OnDisk, orphaned, Delivered, lost, captured, Faults>>
    BY <1>9 DEF AnswerOk, Return, diskVars, queueVars, envVars, InQueue,
      OnDisk, Delivered, Faults
  <2>2. Fresh \subseteq Delivered
    BY <1>9 DEF AnswerOk, AnsweredMeansDelivered, Answered, Fresh
  <2>3. Fresh' \in {Fresh, {}}
    BY <1>9 DEF AnswerOk, Return, NoFlight, Fresh
  <2> QED  BY <2>1, <2>2, <2>3 DEF LetsGo
<1>10. CASE AnswerFail
  <2>1. UNCHANGED <<InQueue, buffer, OnDisk, orphaned, Delivered, lost, captured, Faults>>
    BY <1>10 DEF AnswerFail, Return, diskVars, queueVars, envVars, InQueue,
      OnDisk, Delivered, Faults
  <2>2. Fresh' = Fresh
    BY <1>10 DEF AnswerFail, Return, Control, NoFlight, Fresh
  <2> QED  BY <2>1, <2>2 DEF LetsGo
<1>11. CASE Persist
  <2>1. UNCHANGED <<InQueue, buffer, orphaned, Delivered, lost, captured, Faults>>
    BY <1>11 DEF Persist, Return, queueVars, envVars, InQueue, Delivered, Faults
  <2>2. OnDisk' = OnDisk \cup flight.logs
    <3> DEFINE row == [id |-> nextId, logs |-> flight.logs]
    <3>1. pending' = pending \cup {row} /\ row.logs = flight.logs
      BY <1>11 DEF Persist
    <3> HIDE DEF row
    <3> QED  BY <3>1 DEF OnDisk
  <2>3. Fresh = flight.logs /\ Fresh' = {}
    BY <1>11 DEF Persist, Return, Control, NoFlight, Fresh
  <2> QED  BY <2>1, <2>2, <2>3 DEF LetsGo
<1>12. CASE PersistFails
  <2>1. UNCHANGED <<InQueue, buffer, OnDisk, orphaned, Delivered, captured>>
    BY <1>12 DEF PersistFails, Return, diskVars, queueVars, InQueue, OnDisk, Delivered, Faults
  <2>2. Fresh = flight.logs /\ Fresh' = {} /\ buffer = {}
    BY <1>12 DEF PersistFails, Return, Control, NoFlight, Fresh
  <2>3. lost' = lost \cup (flight.logs \ Delivered)
    BY <1>12 DEF PersistFails
  <2>4. Faults' = Faults + 1
    BY <1>12, FaultsCount DEF PersistFails
  <2> QED  BY <2>1, <2>2, <2>3, <2>4 DEF Suffers, OnePlace
<1>13. CASE SelectRow \/ DrainFails
  <2>1. UNCHANGED <<InQueue, buffer, OnDisk, orphaned, Delivered, lost, captured>>
    BY <1>13 DEF SelectRow, DrainFails, Return, diskVars, queueVars, envVars, InQueue,
                 OnDisk, Delivered
  <2>2. Fresh = {}
    BY <1>13 DEF SelectRow, DrainFails, Control, NoFlight, Fresh
  <2>3. Fresh' = {}
    BY <1>13 DEF SelectRow, DrainFails, Return, NoFlight, Fresh, TypeOK, Rows
  <2>4. IF DrainFails THEN Faults' = Faults + 1 ELSE Faults' = Faults
    BY <1>13, FaultsCount DEF SelectRow, DrainFails, envVars
  <2> QED  BY <1>2, <2>1, <2>2, <2>3, <2>4 DEF Suffers
<1>14. CASE DeleteRow
  <2>1. UNCHANGED <<InQueue, buffer, orphaned, Delivered, lost, captured, Faults>>
    BY <1>14 DEF DeleteRow, Undeleted, Return, queueVars, envVars, InQueue, Delivered, Faults
  <2>2. Fresh = {} /\ Fresh' = {}
    BY <1>14 DEF DeleteRow, Undeleted, Return, Control, NoFlight, Fresh
  <2>3. \A r \in pending : r \in pending' \/ r.logs \subseteq Delivered
    <3>1. flight.row # 0 /\ flight.logs \subseteq Delivered
      BY <1>14 DEF DeleteRow, Undeleted, Control, AnsweredMeansDelivered, Answered
    <3>2. \A r \in pending : r.id = flight.row => r.logs = flight.logs
      BY <3>1 DEF RowIds
    <3> QED  BY <1>14, <3>1, <3>2 DEF DeleteRow, Undeleted
  <2>4. OnDisk' \subseteq OnDisk /\ OnDisk \subseteq OnDisk' \cup Delivered
    BY <1>14, <2>3 DEF DeleteRow, Undeleted, OnDisk
  <2> QED  BY <2>1, <2>2, <2>4 DEF LetsGo
<1>15. CASE Crash
  <2>1. UNCHANGED <<InQueue, OnDisk, orphaned, Delivered, captured>>
    BY <1>15 DEF Crash, diskVars, queueVars, InQueue, OnDisk, Delivered, Faults
  <2>2. buffer' = {} /\ Fresh' = {}
    BY <1>15 DEF Crash, NoFlight, Fresh
  <2>3. lost' = lost \cup ((buffer \cup Fresh) \ Delivered)
    BY <1>15 DEF Crash
  <2>4. Faults' = Faults + 1
    BY <1>15, FaultsCount DEF Crash
  <2> QED  BY <2>1, <2>2, <2>3, <2>4 DEF Suffers, OnePlace
<1>16. CASE Restart
  <2>1. UNCHANGED <<Delivered, captured>> /\ buffer' = {} /\ Fresh' = {}
    BY <1>16 DEF Restart, Fresh, NoFlight, Delivered
  <2>2. InQueue' = {} /\ lost' = lost \cup ((InQueue \cup Memory) \ Delivered)
    BY <1>16, EmptyQueue DEF Restart, InQueue
  <2>3. OnDisk' \cup orphaned' = OnDisk \cup orphaned
    BY <1>16 DEF Restart, diskVars, OnDisk
  <2>4. Faults' = Faults + 1
    BY <1>16, FaultsCount DEF Restart
  <2> QED  BY <2>1, <2>2, <2>3, <2>4 DEF Suffers, OnePlace
<1>17. CASE UNCHANGED vars
  <2>1. UNCHANGED <<InQueue, buffer, Fresh, OnDisk, orphaned, Delivered, lost, captured,
                    Faults>>
    BY <1>17 DEF vars, procVars, diskVars, queueVars, envVars, InQueue,
      Fresh, OnDisk, Delivered, Faults
  <2> QED  BY <1>2, <2>1
<1> QED
  BY <1>1, <1>3, <1>4, <1>5, <1>6, <1>7, <1>8, <1>9, <1>10, <1>11, <1>12, <1>13, <1>14,
     <1>15, <1>16, <1>17 DEF Next, Get, Answer

LEMMA AccountedStep ==
    /\ TypeOK /\ Control /\ RowIds /\ AnsweredMeansDelivered /\ OnePlace /\ Accounted
    /\ [Next]_vars
    => Accounted'
<1> SUFFICES ASSUME HeldChange, Accounted PROVE Accounted'
  BY HeldStep
<1>1. CASE Takes
  BY <1>1 DEF Takes, Accounted
<1>2. CASE Tells
  BY <1>2 DEF Tells, Accounted
<1>3. CASE LetsGo
  BY <1>3 DEF LetsGo, Accounted
<1>4. CASE Suffers
  BY <1>4 DEF Suffers, Accounted
<1> QED  BY <1>1, <1>2, <1>3, <1>4 DEF HeldChange

\* Logs are lost in three steps only, and undelivered ones only.
LEMMA LossStep ==
    /\ TypeOK /\ Control /\ LossNeedsFault /\ DeadMeansCrashed /\ [Next]_vars
    => LossNeedsFault' /\ DeadMeansCrashed'
<1> SUFFICES ASSUME TypeOK, Control, LossNeedsFault, DeadMeansCrashed, [Next]_vars
             PROVE  LossNeedsFault' /\ DeadMeansCrashed'
  OBVIOUS
<1> USE DEF LossNeedsFault, DeadMeansCrashed, FaultKinds
<1>1. /\ spent["crash"] \in Nat /\ spent["disk"] \in Nat
      /\ spent'["crash"] \in Nat /\ spent'["disk"] \in Nat
  BY TypeStep DEF TypeOK
<1>2. spent["crash"] <= spent'["crash"] /\ spent["disk"] <= spent'["disk"]
  <2>1. \/ spent' = spent
        \/ \E k \in FaultKinds : Suffer(k)
    BY DEF Next, Get, Post, Answer, Capture, PutStop, Tick, GetLog, GetTimeout, GetStop,
           PostAccepted, PostAnswerLost, PostFailed, AnswerOk, AnswerFail, Persist,
           PersistFails, SelectRow, DeleteRow, DrainFails, OutageStarts, OutageEnds,
           Crash, Restart, vars, envVars
  <2>2. ASSUME NEW k \in FaultKinds, Suffer(k)
        PROVE  spent["crash"] <= spent'["crash"] /\ spent["disk"] <= spent'["disk"]
    <3>1. /\ spent'[k] = spent[k] + 1
          /\ \A j \in FaultKinds : j # k => spent'[j] = spent[j]
      BY <2>2, SufferType DEF TypeOK
    <3> QED  BY <1>1, <3>1
  <2> QED  BY <1>1, <2>1, <2>2
<1>3. CASE PersistFails
  <2>1. spent'["disk"] > 0
    BY <1>1, <1>3, SufferType DEF PersistFails, TypeOK
  <2> QED  BY <1>1, <1>3, <2>1 DEF PersistFails, Return
<1>4. CASE Crash
  <2>1. spent'["crash"] > 0
    BY <1>1, <1>4, SufferType DEF Crash, TypeOK
  <2> QED  BY <1>1, <2>1
<1>5. CASE Restart
  <2>1. CASE pc = "dead"
    <3>1. spent'["crash"] > 0
      BY <1>1, <1>2, <2>1
    <3> QED  BY <1>1, <1>5, <3>1 DEF Restart
  <2>2. CASE pc = "stopped"
    <3>1. InQueue \cup Memory = {}
      BY <2>2 DEF Control, Memory, Fresh, NoFlight
    <3>2. lost' = lost /\ pc' # "dead"
      BY <1>5, <3>1 DEF Restart
    <3> QED  BY <1>1, <1>2, <3>2
  <2> QED  BY <1>5, <2>1, <2>2 DEF Restart, Alive
<1>6. CASE lost' = lost /\ (pc' = "dead" => pc = "dead")
  BY <1>1, <1>2, <1>6
<1> QED
  BY <1>3, <1>4, <1>5, <1>6
  DEF Next, Get, Post, Answer, Capture, PutStop, Tick, GetLog, GetTimeout, GetStop, Flush,
      PostAccepted, PostAnswerLost, PostFailed, AtPost, AnswerOk, AnswerFail, Persist,
      Return, SelectRow, DeleteRow, DrainFails, OutageStarts, OutageEnds, vars, procVars,
      envVars

LEMMA BackoffStep == TypeOK /\ BackoffTracksHealth /\ [Next]_vars => BackoffTracksHealth'
<1> SUFFICES ASSUME TypeOK, BackoffTracksHealth, [Next]_vars PROVE BackoffTracksHealth'
  OBVIOUS
<1> USE DEF BackoffTracksHealth
<1>1. CASE AnswerOk \/ Restart
  BY <1>1 DEF AnswerOk, Restart
<1>2. CASE AnswerFail
  <2>1. /\ InitialBackoff \in Nat /\ InitialBackoff > 0 /\ MaxBackoff \in Nat
        /\ MaxBackoff > InitialBackoff /\ backoff \in Int /\ backoff >= InitialBackoff
    BY ConstantsAssumption DEF TypeOK
  <2>2. backoff' # InitialBackoff
    BY <1>2, <2>1 DEF AnswerFail, Escalated
  <2> QED  BY <1>2, <2>2 DEF AnswerFail, Escalated
<1>3. CASE UNCHANGED <<healthy, backoff>>
  BY <1>3
<1> QED
  BY <1>1, <1>2, <1>3
  DEF Next, Get, Post, Answer, Capture, PutStop, Tick, GetLog, GetTimeout, GetStop,
      PostAccepted, PostAnswerLost, PostFailed, Persist, PersistFails, SelectRow,
      DeleteRow, DrainFails, OutageStarts, OutageEnds, Crash, vars, healthVars

-----------------------------------------------------------------------------
(* A log is in one place at a time.                                        *)

NoRepeats(q) == \A i, j \in DOMAIN q : q[i] = q[j] /\ q[i] # Stop => i = j

\* Without repeats, the log at the head of a queue is not in its tail.
LEMMA NoRepeatsTail ==
    ASSUME NEW S, NEW q \in Seq(S), q # <<>>, NoRepeats(q)
    PROVE  NoRepeats(Tail(q)) /\ (Head(q) # Stop => Head(q) \notin Range(Tail(q)))
<1>1. /\ Len(q) \in Nat \ {0} /\ Head(q) = q[1]
      /\ DOMAIN q = 1..Len(q) /\ DOMAIN Tail(q) = 1..(Len(q) - 1)
  OBVIOUS
<1>2. \A i \in 1..(Len(q) - 1) : Tail(q)[i] = q[i + 1]
  OBVIOUS
<1>3. \A i \in 1..(Len(q) - 1) : i + 1 \in DOMAIN q /\ i + 1 # 1
  BY <1>1
<1>4. 1 \in DOMAIN q
  BY <1>1
<1>5. ASSUME NEW i \in 1..(Len(q) - 1), NEW j \in 1..(Len(q) - 1),
             Tail(q)[i] = Tail(q)[j], Tail(q)[i] # Stop
      PROVE  i = j
  <2>1. i + 1 = j + 1
    BY <1>2, <1>3, <1>5 DEF NoRepeats
  <2> QED  BY <2>1
<1>6. ASSUME Head(q) # Stop, NEW i \in 1..(Len(q) - 1) PROVE Tail(q)[i] # Head(q)
  BY <1>1, <1>2, <1>3, <1>4, <1>6 DEF NoRepeats
<1> QED  BY <1>1, <1>5, <1>6 DEF NoRepeats, Range

LEMMA NoRepeatsAppend ==
    ASSUME NEW S, NEW q \in Seq(S), NEW e \in S, NoRepeats(q), e = Stop \/ e \notin Range(q)
    PROVE  NoRepeats(Append(q, e))
<1>1. /\ Len(q) \in Nat /\ DOMAIN q = 1..Len(q)
      /\ DOMAIN Append(q, e) = 1..(Len(q) + 1) /\ Append(q, e)[Len(q) + 1] = e
  OBVIOUS
<1>2. \A i \in 1..Len(q) : Append(q, e)[i] = q[i]
  OBVIOUS
<1>3. \A i \in 1..(Len(q) + 1) : i \in 1..Len(q) \/ i = Len(q) + 1
  BY <1>1
<1> QED  BY <1>1, <1>2, <1>3 DEF NoRepeats, Range

LEMMA OnePlaceInit == Init => OnePlace
<1> SUFFICES ASSUME Init PROVE OnePlace
  OBVIOUS
<1>1. InQueue = {} /\ DOMAIN queue = {}
  BY EmptyQueue DEF Init, InQueue
<1> QED  BY <1>1 DEF Init, OnePlace, Memory, Fresh, OnDisk, NoFlight

LEMMA OnePlaceStep ==
    TypeOK /\ Control /\ Accounted /\ OnePlace /\ [Next]_vars => OnePlace'
<1> SUFFICES ASSUME TypeOK, Control, Accounted, OnePlace, [Next]_vars PROVE OnePlace'
  OBVIOUS
<1> USE DEF Memory
<1>0. NoRepeats(queue)
  BY DEF OnePlace, NoRepeats
\* Most steps only take logs away from a place.
<1>1. ASSUME NoRepeats(queue'), InQueue' \subseteq InQueue, Memory' \subseteq Memory,
             pending' \subseteq pending,
             orphaned' = orphaned \/ InQueue' \cup Memory' = {}
      PROVE  OnePlace'
  <2>1. OnDisk' \subseteq OnDisk
    BY <1>1 DEF OnDisk
  <2> QED  BY <1>1, <2>1 DEF OnePlace, NoRepeats
<1>2. ASSUME UNCHANGED queue PROVE NoRepeats(queue') /\ InQueue' = InQueue
  BY <1>0, <1>2 DEF NoRepeats, InQueue
<1>3. ASSUME queue' = <<>> PROVE NoRepeats(queue') /\ InQueue' = {}
  BY <1>3, EmptyQueue DEF NoRepeats, InQueue
<1>4. ASSUME NEW l \in Logs, Capture(l) PROVE OnePlace'
  <2>1. InQueue' = InQueue \cup {l}
    BY <1>4, CaptureQueue
  <2>2. UNCHANGED <<buffer, Fresh, pending, OnDisk, orphaned>>
    BY <1>4 DEF Capture, procVars, diskVars, Fresh, OnDisk
  <2>3. /\ l \notin InQueue /\ l \notin Memory /\ l \notin OnDisk
        /\ l \notin orphaned /\ l # Stop
    BY <1>4, ConstantsAssumption DEF Capture, Accounted, Held
  <2>4. NoRepeats(queue')
    <3>1. l \notin Range(queue)
      BY <2>3 DEF InQueue
    <3> QED  BY <1>0, <1>4, <3>1, NoRepeatsAppend DEF Capture, TypeOK
  <2> QED  BY <2>1, <2>2, <2>3, <2>4 DEF OnePlace, NoRepeats
<1>5. CASE PutStop
  <2>1. NoRepeats(queue')
    BY <1>0, <1>5, NoRepeatsAppend DEF PutStop, TypeOK
  <2>2. UNCHANGED <<buffer, Fresh, pending, orphaned>>
    BY <1>5 DEF PutStop, procVars, diskVars, Fresh
  <2> QED  BY <1>1, <1>5, <2>1, <2>2, PutStopQueue
<1>6. CASE GetLog
  <2>1. /\ NoRepeats(queue') /\ Head(queue) \notin Range(queue')
        /\ InQueue = InQueue' \cup {Head(queue)}
    BY <1>0, <1>6, NoRepeatsTail, GetLogQueue DEF GetLog, TypeOK
  <2>2. Fresh = {} /\ UNCHANGED <<pending, orphaned>>
    BY <1>6 DEF GetLog, diskVars, Control, NoFlight, Fresh
  <2>3. buffer' \cup Fresh' = buffer \cup {Head(queue)}
    BY <1>6, <2>2 DEF GetLog, Flush, Fresh
  <2>4. OnDisk' = OnDisk /\ Head(queue) \notin InQueue'
    BY <2>1, <2>2 DEF OnDisk, InQueue
  <2> QED  BY <2>1, <2>2, <2>3, <2>4 DEF OnePlace, NoRepeats
<1>7. CASE GetTimeout
  <2>1. Fresh = {} /\ UNCHANGED <<queue, pending, orphaned>>
    BY <1>7 DEF GetTimeout, diskVars, queueVars, Control, NoFlight, Fresh
  <2>2. \/ UNCHANGED <<buffer, flight>>
        \/ buffer' = {} /\ flight' = [logs |-> buffer, row |-> 0]
    BY <1>7 DEF GetTimeout, Flush
  <2>3. Memory' = Memory
    BY <2>1, <2>2 DEF Fresh
  <2> QED  BY <1>1, <1>2, <2>1, <2>3
<1>8. CASE GetStop
  <2>1. Fresh = {} /\ UNCHANGED <<pending, orphaned>>
    BY <1>8 DEF GetStop, diskVars, Control, NoFlight, Fresh
  <2>2. buffer' \cup Fresh' = buffer \cup InQueue
    BY <1>8, <2>1 DEF GetStop, Remaining, Fresh
  <2>3. NoRepeats(queue') /\ InQueue' = {} /\ OnDisk' = OnDisk
    BY <1>3, <1>8, <2>1 DEF GetStop, OnDisk
  <2> QED  BY <2>1, <2>2, <2>3 DEF OnePlace, NoRepeats
<1>9. CASE Persist
  <2> DEFINE row == [id |-> nextId, logs |-> flight.logs]
  <2>1. pending' = pending \cup {row} /\ row.logs = flight.logs
    BY <1>9 DEF Persist
  <2>2. Fresh = flight.logs /\ Fresh' = {} /\ UNCHANGED <<buffer, queue, orphaned>>
    BY <1>9 DEF Persist, Return, queueVars, Control, NoFlight, Fresh
  <2>3. buffer = {}
    BY <1>9 DEF Persist, Control
  <2> HIDE DEF row
  <2>4. OnDisk' = OnDisk \cup flight.logs
    BY <2>1 DEF OnDisk
  <2>5. \A r \in pending : r.logs \subseteq OnDisk
    BY DEF OnDisk
  <2>6. \A r, q \in pending' : r.logs \cap q.logs # {} => r = q
    BY <2>1, <2>2, <2>5 DEF OnePlace
  <2> QED  BY <1>2, <2>2, <2>3, <2>4, <2>6 DEF OnePlace, NoRepeats
<1>10. CASE Tick \/ Post \/ OutageStarts \/ OutageEnds \/ UNCHANGED vars
  <2>1. UNCHANGED <<queue, buffer, Fresh, pending, orphaned>>
    BY <1>10
    DEF Tick, Post, PostAccepted, PostAnswerLost, PostFailed, AtPost, OutageStarts,
        OutageEnds, vars, procVars, diskVars, queueVars, Fresh
  <2> QED  BY <1>1, <1>2, <2>1
<1>11. CASE Answer \/ PersistFails \/ DeleteRow \/ DrainFails
  <2>1. UNCHANGED <<queue, buffer, orphaned>> /\ pending' \subseteq pending
    BY <1>11
    DEF Answer, AnswerOk, AnswerFail, PersistFails, DeleteRow, Undeleted, DrainFails, Return,
        diskVars, queueVars
  <2>2. flight' \in {flight, NoFlight}
    BY <1>11
    DEF Answer, AnswerOk, AnswerFail, PersistFails, DeleteRow, DrainFails, Return
  <2>3. Memory' \subseteq Memory
    BY <2>1, <2>2 DEF Fresh, NoFlight
  <2> QED  BY <1>1, <1>2, <2>1, <2>3
<1>12. CASE SelectRow
  <2>1. UNCHANGED <<queue, buffer, pending, orphaned>>
    BY <1>12 DEF SelectRow, Return, diskVars, queueVars
  <2>2. Fresh' = {}
    BY <1>12 DEF SelectRow, Return, NoFlight, Fresh, TypeOK, Rows
  <2> QED  BY <1>1, <1>2, <2>1, <2>2
<1>13. CASE Crash
  <2>1. UNCHANGED <<queue, pending, orphaned>> /\ Memory' = {}
    BY <1>13 DEF Crash, diskVars, queueVars, Fresh, NoFlight
  <2> QED  BY <1>1, <1>2, <2>1
<1>14. CASE Restart
  <2>1. queue' = <<>> /\ pending' \subseteq pending
    BY <1>14 DEF Restart, diskVars
  <2>2. Memory' = {}
    BY <1>14 DEF Restart, NoFlight, Fresh
  <2> QED  BY <1>1, <1>3, <2>1, <2>2
<1> QED
  BY <1>4, <1>5, <1>6, <1>7, <1>8, <1>9, <1>10, <1>11, <1>12, <1>13, <1>14
  DEF Next, Get

-----------------------------------------------------------------------------
(* Duplicates.                                                             *)

\* Faults that can make the sender doubt a delivery are counted up, never down.
LEMMA DoubtsGrow ==
    TypeOK /\ [Next]_vars =>
        /\ Doubts \in Nat /\ Doubts' \in Nat /\ Doubts' >= Doubts
        /\ PostAnswerLost \/ DrainFails \/ Crash => Doubts' = Doubts + 1
<1> SUFFICES ASSUME TypeOK, [Next]_vars
             PROVE  /\ Doubts \in Nat /\ Doubts' \in Nat /\ Doubts' >= Doubts
                    /\ PostAnswerLost \/ DrainFails \/ Crash => Doubts' = Doubts + 1
  OBVIOUS
<1>1. spent \in [FaultKinds -> Nat] /\ spent' \in [FaultKinds -> Nat]
  BY TypeStep DEF TypeOK
<1>2. \/ spent' = spent
      \/ \E k \in FaultKinds : Suffer(k)
  BY DEF Next, Get, Post, Answer, Capture, PutStop, Tick, GetLog, GetTimeout, GetStop,
         PostAccepted, PostAnswerLost, PostFailed, AnswerOk, AnswerFail, Persist,
         PersistFails, SelectRow, DeleteRow, DrainFails, OutageStarts, OutageEnds,
         Crash, Restart, vars, envVars, FaultKinds
<1>3. ASSUME NEW k \in FaultKinds, Suffer(k)
      PROVE  /\ Doubts' >= Doubts
             /\ k \in {"answer", "disk", "crash"} => Doubts' = Doubts + 1
  <2>1. /\ spent'[k] = spent[k] + 1
        /\ \A j \in FaultKinds : j # k => spent'[j] = spent[j]
    BY <1>1, <1>3, SufferType
  <2> QED  BY <1>1, <2>1 DEF Doubts, FaultKinds
<1>4. Doubts' >= Doubts
  BY <1>1, <1>2, <1>3 DEF Doubts, FaultKinds
<1>5. PostAnswerLost \/ DrainFails \/ Crash => Doubts' = Doubts + 1
  BY <1>3 DEF PostAnswerLost, DrainFails, Crash, FaultKinds
<1> QED  BY <1>1, <1>4, <1>5 DEF Doubts, FaultKinds

LEMMA CopiesInit == Init => Copies /\ DuplicatesNeedFaults
<1> SUFFICES ASSUME Init PROVE Copies /\ DuplicatesNeedFaults
  OBVIOUS
<1>1. InQueue = {} /\ Fresh = {} /\ \A l \in Logs : received[l] = 0
  BY EmptyQueue DEF Init, InQueue, Fresh, NoFlight
<1> QED  BY <1>1 DEF Init, Copies, DuplicatesNeedFaults, FaultKinds

LEMMA CopiesStep ==
    /\ TypeOK /\ Control /\ RowIds /\ Accounted /\ OnePlace
    /\ Copies /\ DuplicatesNeedFaults /\ [Next]_vars
    => Copies' /\ DuplicatesNeedFaults'
<1> SUFFICES ASSUME TypeOK, Control, RowIds, Accounted, OnePlace,
                    Copies, DuplicatesNeedFaults, [Next]_vars
             PROVE  Copies' /\ DuplicatesNeedFaults'
  OBVIOUS
<1> DEFINE Dup == \A l \in Logs : received[l] <= 1 + Doubts
<1>0. /\ Doubts \in Nat /\ Doubts' \in Nat /\ Doubts' >= Doubts
      /\ PostAnswerLost \/ DrainFails \/ Crash => Doubts' = Doubts + 1
  BY DoubtsGrow
<1>a. /\ DuplicatesNeedFaults <=> Dup
      /\ DuplicatesNeedFaults' <=> Dup'
  <2>1. spent \in [FaultKinds -> Nat] /\ spent' \in [FaultKinds -> Nat]
    BY TypeStep DEF TypeOK
  <2> QED  BY <2>1 DEF DuplicatesNeedFaults, Doubts, FaultKinds
<1>b. /\ \A l \in Logs : received[l] \in Nat
      /\ InQueue \subseteq Logs /\ buffer \subseteq Logs /\ flight.logs \subseteq Logs
      /\ Fresh \subseteq Logs
      /\ \A r \in pending : r.logs \subseteq Logs /\ r.id \in Nat /\ r.id # 0
  <2>1. InQueue \in Batches
    BY InQueueBatch DEF TypeOK
  <2> QED  BY <2>1 DEF TypeOK, Batches, Rows, Fresh
<1> HIDE DEF Dup
<1> SUFFICES Copies' /\ Dup'
  BY <1>a
<1>c. Dup
  BY <1>a
\* No log is received: the bounds only have to follow the logs.
<1>1. ASSUME UNCHANGED received PROVE Dup'
  BY <1>0, <1>1, <1>b, <1>c DEF Dup
<1>2. ASSUME NEW l \in Logs, Capture(l) PROVE Copies' /\ Dup'
  <2>1. UNCHANGED <<received, buffer, Fresh, flight, pc, reply, pending, Doubts>>
    BY <1>2 DEF Capture, procVars, diskVars, envVars, Fresh, Doubts
  <2>2. InQueue' = InQueue \cup {l} /\ received[l] = 0
    BY <1>2, <1>b, CaptureQueue DEF Capture, Accounted, Delivered
  <2> QED  BY <1>1, <2>1, <2>2 DEF Copies, Answered
<1>3. CASE PutStop \/ Tick \/ OutageStarts \/ OutageEnds \/ UNCHANGED vars
  <2>1. UNCHANGED <<received, buffer, Fresh, flight, pc, reply, pending>>
    BY <1>3 DEF PutStop, Tick, OutageStarts, OutageEnds, vars, procVars, diskVars, envVars,
                Fresh
  <2>2. InQueue' = InQueue
    BY <1>3, PutStopQueue DEF Tick, OutageStarts, OutageEnds, vars, queueVars, InQueue
  <2> QED  BY <1>0, <1>1, <1>b, <2>1, <2>2 DEF Copies, Answered
<1>4. CASE Get
  <2>1. /\ UNCHANGED <<received, pending>> /\ ~Answered /\ flight.row = 0 /\ Fresh = {}
        /\ ~Answered' /\ flight'.row = 0 /\ pc' # "answer" /\ reply' = "none"
    BY <1>4 DEF Get, GetLog, GetTimeout, GetStop, Flush, diskVars, envVars, Control,
                NoFlight, Fresh, Answered
  <2>2. InQueue' \cup buffer' \cup Fresh' \subseteq InQueue \cup buffer
    <3>1. CASE GetLog
      <4>1. buffer' \cup Fresh' \subseteq buffer \cup {Head(queue)}
        BY <2>1, <3>1 DEF GetLog, Flush, Fresh
      <4> QED  BY <3>1, <4>1, GetLogQueue
    <3>2. CASE GetTimeout
      <4>1. InQueue' = InQueue
        BY <3>2 DEF GetTimeout, queueVars, InQueue
      <4>2. \/ UNCHANGED <<buffer, flight>>
            \/ buffer' = {} /\ flight' = [logs |-> buffer, row |-> 0]
        BY <3>2 DEF GetTimeout, Flush
      <4> QED  BY <2>1, <4>1, <4>2 DEF Fresh
    <3>3. CASE GetStop
      <4>1. buffer' \cup Fresh' \subseteq buffer \cup InQueue
        BY <2>1, <3>3 DEF GetStop, Remaining, Fresh
      <4> QED  BY <3>3, <4>1, GetStopQueue
    <3> QED  BY <1>4, <3>1, <3>2, <3>3 DEF Get
  <2>3. \A l \in InQueue' \cup buffer' \cup Fresh' : received[l] = 0
    BY <2>2 DEF Copies
  <2>4. \A r \in pending : \A l \in r.logs : received[l] <= Doubts
    BY <1>0, <1>b, <2>1 DEF Copies
  <2> QED  BY <1>0, <1>1, <1>b, <2>1, <2>3, <2>4 DEF Copies
<1>5. CASE PostAccepted \/ PostAnswerLost
  <2>1. /\ UNCHANGED <<InQueue, buffer, flight, Fresh, pending>> /\ pc = "post"
        /\ ~Answered /\ reply = "none" /\ buffer = {} /\ pc' = "answer"
        /\ Receive(flight.logs)
    BY <1>5 DEF PostAccepted, PostAnswerLost, AtPost, diskVars, queueVars, InQueue, Fresh,
                Answered, Control
  <2>2. /\ \A l \in flight.logs : received'[l] = received[l] + 1
        /\ \A l \in Logs \ flight.logs : received'[l] = received[l]
    BY <1>b, <2>1 DEF Receive
  <2>3. InQueue \cap flight.logs = {}
    BY DEF OnePlace, Memory, Fresh, OnDisk, RowIds
  <2>4. \A r \in pending : \/ r.logs \cap flight.logs = {}
                           \/ r.id = flight.row /\ r.logs = flight.logs
    <3>1. CASE flight.row = 0
      BY <3>1 DEF OnePlace, Memory, Fresh, OnDisk
    <3>2. CASE flight.row # 0
      BY <3>2 DEF OnePlace, RowIds
    <3> QED  BY <3>1, <3>2
  <2>5. \A r \in pending : \A l \in r.logs : received[l] <= Doubts
    BY <1>0, <1>b, <2>1 DEF Copies
  <2>6. \A l \in Fresh : received'[l] = 1
    BY <1>b, <2>1, <2>2 DEF Copies, Fresh
  <2>7. \/ reply' = "ok" /\ Answered'
        \/ reply' = "fail" /\ ~Answered' /\ Doubts' = Doubts + 1
    BY <1>0, <1>5, <2>1 DEF PostAccepted, PostAnswerLost, Answered
  <2>8. \A l \in InQueue' \cup buffer' : received'[l] = 0
    BY <1>b, <2>1, <2>2, <2>3 DEF Copies
  <2>9. \A l \in Fresh' : received'[l] <= IF reply' = "ok" THEN 1 ELSE Doubts'
    BY <1>0, <2>1, <2>6, <2>7
  <2>10. \A r \in pending' : \A l \in r.logs :
            received'[l] <= Doubts' + IF r.id = flight'.row /\ Answered' THEN 1 ELSE 0
    <3> SUFFICES ASSUME NEW r \in pending, NEW l \in r.logs
                 PROVE  received'[l] <= Doubts' + IF r.id = flight'.row /\ Answered'
                                                  THEN 1 ELSE 0
      BY <2>1
    <3>1. received[l] \in Nat /\ received[l] <= Doubts /\ l \in Logs
      BY <1>b, <2>5
    <3>2. CASE l \notin flight.logs
      BY <1>0, <2>2, <3>1, <3>2
    <3>3. CASE l \in flight.logs
      BY <1>0, <2>1, <2>2, <2>4, <2>7, <3>1, <3>3
    <3> QED  BY <3>2, <3>3
  <2>11. Dup'
    <3> SUFFICES ASSUME NEW l \in Logs PROVE received'[l] <= 1 + Doubts'
      BY DEF Dup
    <3>1. CASE l \notin flight.logs
      BY <1>0, <1>b, <1>c, <2>2, <3>1 DEF Dup
    <3>2. CASE l \in flight.logs
      <4>1. CASE l \in Fresh
        BY <1>0, <2>6, <4>1
      <4>2. CASE flight.row # 0
        BY <1>0, <1>b, <2>2, <2>5, <3>2, <4>2 DEF RowIds
      <4> QED  BY <3>2, <4>1, <4>2 DEF Fresh
    <3> QED  BY <3>1, <3>2
  <2> QED  BY <2>1, <2>8, <2>9, <2>10, <2>11 DEF Copies
<1>6. CASE PostFailed
  <2>1. /\ UNCHANGED <<received, InQueue, buffer, flight, Fresh, pending>>
        /\ pc = "post" /\ pc' = "answer" /\ reply' = "fail" /\ ~Answered /\ ~Answered'
    BY <1>6 DEF PostFailed, AtPost, diskVars, queueVars, envVars, InQueue, Fresh,
                Answered, Control
  <2> QED  BY <1>0, <1>1, <1>b, <2>1 DEF Copies
<1>7. CASE AnswerOk
  <2>1. /\ UNCHANGED <<received, InQueue, buffer, pending>> /\ Answered
        /\ reply = "ok" /\ pc = "answer"
    BY <1>7 DEF AnswerOk, Return, diskVars, queueVars, envVars, InQueue, Answered
  <2>2. CASE flight.row = 0
    <3>1. Fresh' = {} /\ flight'.row = 0
      BY <1>7, <2>2 DEF AnswerOk, Return, NoFlight, Fresh, Control
    <3> QED  BY <1>0, <1>1, <1>b, <2>1, <2>2, <3>1 DEF Copies
  <2>3. CASE flight.row # 0
    <3>1. UNCHANGED flight /\ Fresh' = {} /\ Answered'
      BY <1>7, <2>3 DEF AnswerOk, Return, Fresh, Control, Answered
    <3> QED  BY <1>0, <1>1, <1>b, <2>1, <3>1 DEF Copies
  <2> QED  BY <2>2, <2>3
<1>8. CASE AnswerFail
  <2>1. /\ UNCHANGED <<received, InQueue, buffer, pending>> /\ ~Answered /\ ~Answered'
        /\ reply = "fail" /\ reply' = "none" /\ pc = "answer" /\ pc' # "post"
    BY <1>8 DEF AnswerFail, Return, diskVars, queueVars, envVars, InQueue, Answered, Control
  <2>2. Fresh' = Fresh
    BY <1>8 DEF AnswerFail, Return, Control, NoFlight, Fresh
  <2> QED  BY <1>0, <1>1, <1>b, <2>1, <2>2 DEF Copies
<1>9. CASE Persist
  <2>1. /\ UNCHANGED <<received, InQueue, buffer>> /\ Fresh' = {} /\ ~Answered'
        /\ flight.row = 0 /\ pc = "persist" /\ reply = "none"
    BY <1>9 DEF Persist, Return, queueVars, envVars, InQueue, Answered, NoFlight, Fresh,
                Control
  <2>2. \A l \in flight.logs : received[l] <= Doubts
    BY <2>1 DEF Copies, Fresh
  <2>3. \A r \in pending : \A l \in r.logs : received[l] <= Doubts
    BY <1>0, <1>b, <2>1 DEF Copies
  <2> DEFINE row == [id |-> nextId, logs |-> flight.logs]
  <2>4. pending' = pending \cup {row} /\ row.logs = flight.logs
    BY <1>9 DEF Persist
  <2> HIDE DEF row
  <2>5. \A r \in pending' : \A l \in r.logs : l \in Logs /\ received[l] <= Doubts
    BY <1>b, <2>2, <2>3, <2>4
  <2> QED  BY <1>0, <1>1, <1>b, <2>1, <2>5 DEF Copies
<1>10. CASE PersistFails \/ DeleteRow \/ Restart
  <2>1. /\ UNCHANGED received /\ InQueue' \subseteq InQueue /\ buffer' \subseteq buffer
        /\ ~Answered' /\ flight' = NoFlight
    BY <1>10, EmptyQueue
    DEF PersistFails, DeleteRow, Restart, Return, queueVars, envVars, InQueue, Answered,
        Alive, Control
  <2>2. Fresh' = {}
    BY <2>1 DEF Fresh, NoFlight
  <2>3. /\ pending' \subseteq pending
        /\ \A r \in pending' : r.id # flight.row
    BY <1>10, <1>b DEF PersistFails, DeleteRow, Undeleted, Restart, diskVars, Control, Alive, NoFlight
  <2> QED  BY <1>0, <1>1, <1>b, <2>1, <2>2, <2>3 DEF Copies
<1>11. CASE DrainFails \/ Crash
  <2>1. /\ UNCHANGED <<received, InQueue, pending>> /\ buffer' \subseteq buffer
        /\ flight' = NoFlight
    BY <1>11 DEF DrainFails, Crash, Return, diskVars, queueVars, InQueue
  <2>2. Fresh' = {} /\ ~Answered'
    BY <1>11, <2>1 DEF DrainFails, Crash, Return, Answered, Fresh, NoFlight
  <2>3. Doubts' = Doubts + 1
    BY <1>0, <1>11
  <2>4. \A r \in pending : \A l \in r.logs : received[l] <= Doubts'
    BY <1>0, <1>b, <2>3 DEF Copies
  <2> QED  BY <1>0, <1>1, <1>b, <2>1, <2>2, <2>4 DEF Copies
<1>12. CASE SelectRow
  <2>1. /\ UNCHANGED <<received, InQueue, buffer, pending>> /\ ~Answered /\ ~Answered'
        /\ flight.row = 0
    BY <1>12 DEF SelectRow, Return, diskVars, queueVars, envVars, InQueue, Answered,
                 Control, NoFlight
  <2>2. Fresh' = {}
    BY <1>12 DEF SelectRow, Return, NoFlight, Fresh, TypeOK, Rows
  <2> QED  BY <1>0, <1>1, <1>b, <2>1, <2>2 DEF Copies
<1> QED
  BY <1>2, <1>3, <1>4, <1>5, <1>6, <1>7, <1>8, <1>9, <1>10, <1>11, <1>12
  DEF Next, Post, Answer

-----------------------------------------------------------------------------
(* The theorems.                                                           *)

LEMMA IInvInit == Init => IInv
<1> SUFFICES ASSUME Init PROVE IInv
  OBVIOUS
<1>1. InQueue = {} /\ Memory = {} /\ OnDisk = {} /\ Delivered = {}
  BY EmptyQueue DEF Init, InQueue, Memory, Fresh, OnDisk, Delivered, NoFlight
<1>2. Accounted
  BY <1>1 DEF Init, Accounted, Held
<1>3. LossNeedsFault /\ DeadMeansCrashed /\ BackoffTracksHealth
  BY DEF Init, LossNeedsFault, DeadMeansCrashed, BackoffTracksHealth
<1> QED  BY <1>2, <1>3, TypeInit, ControlInit, OnePlaceInit, CopiesInit DEF IInv

LEMMA IInvStep == IInv /\ [Next]_vars => IInv'
BY TypeStep, ControlStep, RowIdsStep, AnsweredStep, AccountedStep, LossStep, BackoffStep,
   OnePlaceStep, CopiesStep
DEF IInv

\* The inductive invariant holds in every state.
THEOREM Invariant == Spec => []IInv
BY IInvInit, IInvStep, PTL DEF Spec

\* No captured log is forgotten: it is held, delivered or counted lost.
THEOREM NothingForgotten == Spec => []Accounted
<1>1. IInv => Accounted
  BY DEF IInv
<1> QED  BY <1>1, Invariant, PTL

\* Only a crash or a failed SQLite write loses a log, never an outage, a lost
\* answer, a full queue, a shutdown or a restart.
THEOREM OnlyFaultsLose == Spec => []LossNeedsFault
<1>1. IInv => LossNeedsFault
  BY DEF IInv
<1> QED  BY <1>1, Invariant, PTL

\* The API receives a log at most once more per lost answer, failed disk
\* access or crash.
THEOREM DuplicatesBounded == Spec => []DuplicatesNeedFaults
<1>1. IInv => DuplicatesNeedFaults
  BY DEF IInv
<1> QED  BY <1>1, Invariant, PTL

\* When the main loop has ended, nothing is left in the queue or in memory.
THEOREM StopIsClean == Spec => []CleanStop
<1>1. IInv => CleanStop
  BY DEF IInv, Control, CleanStop, Memory, Fresh, NoFlight
<1> QED  BY <1>1, Invariant, PTL

\* The sender believes the API healthy exactly when its backoff is reset.
THEOREM BackoffIsHealth == Spec => []BackoffTracksHealth
<1>1. IInv => BackoffTracksHealth
  BY DEF IInv
<1> QED  BY <1>1, Invariant, PTL

\* A row leaves SQLite only when it is the oldest and the API has all of it,
\* or when a restart under another agent id leaves it behind.
THEOREM RowsLeave == Spec => RowsLeaveDelivered
<1> DEFINE Leaves ==
      \A r \in pending \ pending' :
          \/ /\ r.logs \subseteq Delivered
             /\ \A q \in pending : r.id <= q.id
          \/ FALSE \in AgentIdFixed /\ r.logs \subseteq orphaned'
<1>1. IInv /\ [Next]_vars => [Leaves]_vars
  <2> SUFFICES ASSUME IInv, [Next]_vars PROVE Leaves
    OBVIOUS
  <2>1. CASE DeleteRow
    <3>1. flight.row # 0 /\ flight.logs \subseteq Delivered
      BY <2>1 DEF DeleteRow, Undeleted, IInv, Control, AnsweredMeansDelivered, Answered
    <3>2. \A r \in pending : r.id = flight.row => r.logs = flight.logs
      BY <3>1 DEF IInv, RowIds
    <3> QED  BY <2>1, <3>1, <3>2 DEF DeleteRow, Undeleted, IInv, RowIds
  <2>2. CASE Restart
    <3>1. \A r \in pending : r.logs \subseteq OnDisk
      BY DEF OnDisk
    <3> QED  BY <2>2, <3>1, ConstantsAssumption DEF Restart, diskVars
  <2>3. CASE pending \subseteq pending'
    BY <2>3
  <2> QED
    BY <2>1, <2>2, <2>3
    DEF Next, Get, Post, Answer, Capture, PutStop, Tick, GetLog, GetTimeout, GetStop,
        PostAccepted, PostAnswerLost, PostFailed, AnswerOk, AnswerFail, Persist,
        PersistFails, SelectRow, DrainFails, OutageStarts, OutageEnds, Crash, vars, diskVars
<1> QED  BY <1>1, Invariant, PTL DEF Spec, RowsLeaveDelivered

LEMMA OutboxInit == Init => O!Init
<1> SUFFICES ASSUME Init PROVE O!Init
  OBVIOUS
<1>1. InQueue = {} /\ Memory = {} /\ OnDisk = {} /\ Delivered = {}
  BY EmptyQueue DEF Init, InQueue, Memory, Fresh, OnDisk, Delivered, NoFlight
<1> QED  BY <1>1 DEF Init, Held, O!Init, Faults, FaultKinds

LEMMA OutboxStep == IInv /\ [Next]_vars => [O!Next]_(O!vars)
<1> SUFFICES ASSUME IInv, [Next]_vars PROVE O!Next
  OBVIOUS
<1>1. HeldChange
  BY HeldStep DEF IInv
<1>2. CASE Takes
  <2>1. PICK l \in Logs \ captured : /\ Held' = Held \cup {l}
                                     /\ UNCHANGED <<Delivered, lost, Faults>>
    BY <1>2 DEF Takes
  <2>2. l \in Logs \ (Held \cup Delivered \cup lost)
    BY DEF IInv, Accounted
  <2> QED  BY <2>1, <2>2 DEF O!Next, O!Accept
<1>3. CASE Tells
  <2> DEFINE B == Delivered' \ Delivered
  <2>1. B \in SUBSET Held /\ Delivered' = Delivered \cup B
    BY <1>3 DEF Tells
  <2> QED  BY <1>3, <2>1 DEF Tells, O!Next, O!Deliver
<1>4. CASE LetsGo
  <2> DEFINE B == Held \ Held'
  <2>1. B \in SUBSET (Held \cap Delivered) /\ Held' = Held \ B
    BY <1>4 DEF LetsGo
  <2> QED  BY <1>4, <2>1 DEF LetsGo, O!Next, O!Release
<1>5. CASE Suffers
  <2> DEFINE B == Held \ Held'
  <2>1. B \in SUBSET Held /\ Held' = Held \ B /\ lost' = lost \cup (B \ Delivered)
    BY <1>5 DEF Suffers
  <2> QED  BY <1>5, <2>1 DEF Suffers, O!Next, O!Fault
<1> QED  BY <1>1, <1>2, <1>3, <1>4, <1>5 DEF HeldChange

\* The sender implements Outbox: what it holds leaves it only delivered, or
\* by a fault.
THEOREM Implementation == Spec => ImplementsOutbox
BY OutboxInit, OutboxStep, Invariant, PTL DEF Spec, ImplementsOutbox, O!Spec

-----------------------------------------------------------------------------
(* The sizes of batches and the counters.                                  *)

\* Only sentinels follow a sentinel.
BehindStop(q) == \A i, j \in DOMAIN q : i < j /\ q[i] = Stop => q[j] = Stop

LEMMA BehindStopTail ==
    ASSUME NEW S, NEW q \in Seq(S), q # <<>>, BehindStop(q)
    PROVE  BehindStop(Tail(q)) /\ (Head(q) = Stop => Range(q) \subseteq {Stop})
<1>1. /\ Len(q) \in Nat \ {0} /\ Head(q) = q[1]
      /\ DOMAIN q = 1..Len(q) /\ DOMAIN Tail(q) = 1..(Len(q) - 1)
  OBVIOUS
<1>2. \A i \in 1..(Len(q) - 1) : Tail(q)[i] = q[i + 1] /\ i + 1 \in DOMAIN q
  BY <1>1
<1>3. ASSUME NEW i \in 1..(Len(q) - 1), NEW j \in 1..(Len(q) - 1), i < j, Tail(q)[i] = Stop
      PROVE  Tail(q)[j] = Stop
  <2>1. i + 1 < j + 1
    BY <1>1, <1>3
  <2> QED  BY <1>2, <1>3, <2>1 DEF BehindStop
<1>4. ASSUME Head(q) = Stop, NEW j \in 1..Len(q) PROVE q[j] = Stop
  <2>1. CASE j = 1
    BY <1>1, <1>4, <2>1
  <2>2. CASE j # 1
    <3>1. 1 < j /\ 1 \in DOMAIN q /\ j \in DOMAIN q
      BY <1>1, <1>4, <2>2
    <3> QED  BY <1>1, <1>4, <3>1 DEF BehindStop
  <2> QED  BY <2>1, <2>2
<1> QED  BY <1>1, <1>3, <1>4 DEF BehindStop, Range

LEMMA BehindStopAppend ==
    ASSUME NEW S, NEW q \in Seq(S), NEW e \in S, BehindStop(q), e = Stop \/ Stop \notin Range(q)
    PROVE  BehindStop(Append(q, e))
<1>1. /\ Len(q) \in Nat /\ DOMAIN q = 1..Len(q)
      /\ DOMAIN Append(q, e) = 1..(Len(q) + 1) /\ Append(q, e)[Len(q) + 1] = e
  OBVIOUS
<1>2. \A i \in 1..Len(q) : Append(q, e)[i] = q[i]
  OBVIOUS
<1>3. SUFFICES ASSUME NEW i \in 1..(Len(q) + 1), NEW j \in 1..(Len(q) + 1), i < j,
                      Append(q, e)[i] = Stop
               PROVE  Append(q, e)[j] = Stop
  BY <1>1 DEF BehindStop
<1>4. i \in 1..Len(q) /\ q[i] = Stop
  BY <1>1, <1>2, <1>3
<1>5. CASE j = Len(q) + 1
  BY <1>1, <1>4, <1>5 DEF Range
<1>6. CASE j # Len(q) + 1
  <2>1. j \in 1..Len(q)
    BY <1>1, <1>6
  <2> QED  BY <1>1, <1>2, <1>3, <1>4, <2>1 DEF BehindStop
<1> QED  BY <1>5, <1>6

LEMMA BehindStopStep ==
    TypeOK /\ Control /\ BehindStop(queue) /\ [Next]_vars => BehindStop(queue)'
<1> SUFFICES ASSUME TypeOK, Control, BehindStop(queue), [Next]_vars
             PROVE  BehindStop(queue')
  OBVIOUS
<1>1. ASSUME NEW l \in Logs, Capture(l) PROVE BehindStop(queue')
  <2>1. Stop \notin Range(queue)
    BY <1>1 DEF Capture, Control, TypeOK
  <2> QED  BY <1>1, <2>1, BehindStopAppend DEF Capture, TypeOK
<1>2. CASE PutStop
  BY <1>2, BehindStopAppend DEF PutStop, TypeOK
<1>3. CASE GetLog
  BY <1>3, BehindStopTail DEF GetLog, TypeOK
<1>4. CASE queue' = <<>>
  BY <1>4 DEF BehindStop
<1>5. CASE queue' = queue
  BY <1>5
<1> QED
  BY <1>1, <1>2, <1>3, <1>4, <1>5
  DEF Next, Get, Post, Answer, Tick, GetTimeout, GetStop, PostAccepted, PostAnswerLost,
      PostFailed, AnswerOk, AnswerFail, Persist, PersistFails, SelectRow, DeleteRow,
      DrainFails, OutageStarts, OutageEnds, Crash, Restart, vars, queueVars

\* Nothing is left to take from the queue once the sentinel comes out of it.
LEMMA LastFlushIsBuffer ==
    ASSUME TypeOK, BehindStop(queue), GetStop
    PROVE  InQueue = {} /\ Remaining = buffer
<1>1. Range(queue) \subseteq {Stop}
  BY BehindStopTail DEF GetStop, TypeOK
<1> QED  BY <1>1 DEF InQueue, Remaining

\* The size of the buffer with one more log.
LEMMA GrownSize ==
    ASSUME NEW B \in Batches, NEW l
    PROVE  /\ Cardinality(B) \in Nat
           /\ Cardinality(B \cup {l}) = IF l \in B THEN Cardinality(B) ELSE Cardinality(B) + 1
BY FS_AddElement, FS_CardinalityType DEF Batches

LEMMA NothingHasSizeZero == Cardinality({}) = 0
BY FS_EmptySet

LEMMA BatchesStep ==
    TypeOK /\ Control /\ BehindStop(queue) /\ BatchesBounded /\ [Next]_vars => BatchesBounded'
<1> SUFFICES ASSUME TypeOK, Control, BehindStop(queue), BatchesBounded, [Next]_vars
             PROVE  BatchesBounded'
  OBVIOUS
<1> USE DEF BatchesBounded
<1>1. /\ Cardinality(buffer) \in Nat /\ Cardinality(flight.logs) \in Nat
      /\ Cardinality({}) = 0 /\ FlushSize \in Nat /\ FlushSize > 0
  BY BatchSmall, NothingHasSizeZero, ConstantsAssumption DEF TypeOK
<1>2. ASSUME Return, pc # "wait", pending' \subseteq pending \/ Persist PROVE BatchesBounded'
  <2>1. buffer' = {} /\ flight'.logs = {} /\ ctx' = "none"
    BY <1>2 DEF Return, Control, NoFlight
  <2>2. \A r \in pending' : r \in pending \/ r.logs = flight.logs
    BY <1>2 DEF Persist
  <2> QED  BY <1>1, <2>1, <2>2
<1>3. CASE GetLog
  <2> DEFINE grown == buffer \cup {Head(queue)}
  <2>1. /\ Cardinality(grown) \in Nat
        /\ Cardinality(grown) <= Cardinality(buffer) + 1
        /\ Cardinality(buffer) < FlushSize
    <3>1. buffer \in Batches /\ Cardinality(buffer) < FlushSize
      BY <1>3 DEF TypeOK, GetLog
    <3>2. Cardinality(grown) \in {Cardinality(buffer), Cardinality(buffer) + 1}
      BY <3>1, GrownSize
    <3> QED  BY <1>1, <3>1, <3>2
  <2>2. pending' = pending
    BY <1>3 DEF GetLog, diskVars
  <2>3. \/ Flush(grown, "size")
        \/ ~Full(grown) /\ Flush(grown, "time")
        \/ ~Full(grown) /\ buffer' = grown /\ UNCHANGED <<pc, flight, ctx>>
    BY <1>3 DEF GetLog
  <2> HIDE DEF grown
  <2>4. CASE Flush(grown, "size") \/ Flush(grown, "time")
    <3>1. /\ pc' = "post" /\ ctx' \in {"size", "time"} /\ buffer' = {}
          /\ flight'.logs = grown
      BY <2>4 DEF Flush
    <3>2. Cardinality(grown) <= FlushSize
      BY <1>1, <2>1
    <3> QED  BY <2>2, <3>1, <3>2
  <2>5. CASE ~Full(grown) /\ buffer' = grown /\ UNCHANGED <<pc, flight, ctx>>
    BY <1>1, <2>1, <2>2, <2>5 DEF Full
  <2> QED  BY <2>3, <2>4, <2>5
<1>4. CASE GetTimeout
  <2>1. pc = "wait" /\ pending' = pending /\ Cardinality(buffer) < FlushSize
    BY <1>1, <1>4 DEF GetTimeout, diskVars
  <2>2. CASE Flush(buffer, "time")
    <3>1. pc' = "post" /\ ctx' = "time" /\ buffer' = {} /\ flight'.logs = buffer
      BY <2>2 DEF Flush
    <3> QED  BY <1>1, <2>1, <3>1
  <2>3. CASE buffer' = buffer /\ flight' = flight /\ ctx' \in {"drain", ctx}
    BY <2>1, <2>3
  <2> QED  BY <1>4, <2>2, <2>3 DEF GetTimeout
<1>5. CASE GetStop
  <2>1. Remaining = buffer
    BY <1>5, LastFlushIsBuffer
  <2> QED  BY <1>1, <1>5, <2>1 DEF GetStop, diskVars
<1>6. CASE AnswerOk \/ AnswerFail
  <2>1. CASE Return
    BY <1>2, <1>6, <2>1 DEF AnswerOk, AnswerFail, diskVars
  <2>2. CASE ~Return
    BY <1>1, <1>6, <2>2 DEF AnswerOk, AnswerFail, diskVars, NoFlight
  <2> QED  BY <2>1, <2>2
<1>7. CASE Persist
  BY <1>2, <1>7 DEF Persist
<1>8. CASE PersistFails \/ DrainFails
  BY <1>2, <1>8 DEF PersistFails, DrainFails, diskVars
<1>9. CASE SelectRow
  <2>1. CASE Return
    BY <1>2, <1>9, <2>1 DEF SelectRow, diskVars
  <2>2. CASE ~Return
    BY <1>1, <1>9, <2>2 DEF SelectRow, diskVars, Control
  <2> QED  BY <2>1, <2>2
<1>10. CASE DeleteRow
  BY <1>2, <1>10 DEF DeleteRow, Undeleted
<1>11. CASE Crash
  BY <1>1, <1>11 DEF Crash, diskVars, NoFlight
<1>12. CASE Restart
  <2>1. /\ buffer' = {} /\ flight'.logs = {} /\ ctx' = "drain" /\ pending' \subseteq pending
    BY <1>12 DEF Restart, diskVars, NoFlight
  <2> QED  BY <1>1, <2>1
<1>13. CASE UNCHANGED <<buffer, flight, ctx, pending>> /\ (pc' = "wait" => pc = "wait")
  BY <1>13
<1> QED
  BY <1>3, <1>4, <1>5, <1>6, <1>7, <1>8, <1>9, <1>10, <1>11, <1>12, <1>13
  DEF Next, Get, Post, Answer, Capture, PutStop, Tick, PostAccepted, PostAnswerLost,
      PostFailed, AtPost, OutageStarts, OutageEnds, vars, procVars, diskVars

\* As long as no disk error has happened none had happened before.
LEMMA NoDiskErrorBefore ==
    ASSUME TypeOK, [Next]_vars, spent'["disk"] = 0
    PROVE  spent["disk"] = 0 /\ ~PersistFails /\ ~DrainFails
<1> USE DEF FaultKinds
<1>1. spent["disk"] \in Nat
  BY DEF TypeOK
<1>2. ASSUME NEW k \in FaultKinds, Suffer(k)
      PROVE  k # "disk" /\ spent["disk"] = 0
  <2>1. /\ spent'[k] = spent[k] + 1
        /\ \A j \in FaultKinds : j # k => spent'[j] = spent[j]
    BY <1>2, SufferType DEF TypeOK
  <2> QED  BY <1>1, <2>1
<1>3. ~PersistFails /\ ~DrainFails
  BY <1>2 DEF PersistFails, DrainFails
<1>4. spent' = spent \/ \E k \in FaultKinds : Suffer(k)
  BY <1>3
  DEF Next, Get, Post, Answer, Capture, PutStop, Tick, GetLog, GetTimeout, GetStop,
      PostAccepted, PostAnswerLost, PostFailed, AnswerOk, AnswerFail, Persist,
      SelectRow, DeleteRow, OutageStarts, OutageEnds, Crash, Restart, vars, envVars
<1> QED  BY <1>2, <1>3, <1>4

LEMMA StatsStep ==
    /\ TypeOK /\ Control /\ OnePlace /\ BehindStop(queue) /\ StatsAddUp /\ [Next]_vars
    => StatsAddUp'
<1> SUFFICES ASSUME TypeOK, Control, OnePlace, BehindStop(queue), StatsAddUp, [Next]_vars,
                    spent'["disk"] = 0, pc' # "dead"
             PROVE  StatsAddUp'
  BY DEF StatsAddUp
<1> USE DEF StatsAddUp
<1>1. /\ Cardinality(buffer) \in Nat /\ Cardinality(flight.logs) \in Nat
      /\ Cardinality({}) = 0 /\ stats \in Counters
      /\ stats.enqueued \in Nat /\ stats.sent \in Nat
      /\ stats.failed \in Nat /\ stats.recovered \in Nat
  BY BatchSmall, NothingHasSizeZero DEF TypeOK, Counters
<1>2. spent["disk"] = 0 /\ ~PersistFails /\ ~DrainFails
  BY NoDiskErrorBefore
<1>3. CASE GetLog
  <2> DEFINE grown == buffer \cup {Head(queue)}
  <2>1. Head(queue) \in InQueue
    BY <1>3, GetLogQueue
  <2>2. Cardinality(grown) = Cardinality(buffer) + 1
    BY <2>1, GrownSize DEF TypeOK, OnePlace, Memory
  <2>3. pc = "wait" /\ flight = NoFlight /\ stats' = [stats EXCEPT !.enqueued = @ + 1]
    BY <1>3 DEF GetLog, Control
  <2>4. \/ \E caller \in {"size", "time"} : Flush(grown, caller)
        \/ buffer' = grown /\ UNCHANGED <<pc, flight>>
    BY <1>3 DEF GetLog
  <2> HIDE DEF grown
  <2>5. /\ stats.enqueued = Cardinality(buffer) + stats.failed + stats.sent - stats.recovered
        /\ stats'.enqueued = stats.enqueued + 1 /\ stats'.failed = stats.failed
        /\ stats'.sent = stats.sent /\ stats'.recovered = stats.recovered
    BY <1>1, <1>2, <2>3 DEF Fresh, NoFlight, Counters
  <2>6. CASE \E caller \in {"size", "time"} : Flush(grown, caller)
    <3>1. buffer' = {} /\ Fresh' = grown /\ pc' # "delete"
      BY <2>6 DEF Flush, Fresh
    <3> QED  BY <1>1, <2>2, <2>5, <3>1
  <2>7. CASE buffer' = grown /\ UNCHANGED <<pc, flight>>
    <3>1. buffer' = grown /\ Fresh' = {} /\ pc' # "delete"
      BY <2>3, <2>7 DEF Fresh, NoFlight
    <3> QED  BY <1>1, <2>2, <2>5, <3>1
  <2> QED  BY <2>4, <2>6, <2>7
<1>4. CASE GetTimeout
  <2>1. pc = "wait" /\ flight = NoFlight /\ stats' = stats
    BY <1>4 DEF GetTimeout, Control
  <2>2. stats.enqueued = Cardinality(buffer) + stats.failed + stats.sent - stats.recovered
    BY <1>1, <1>2, <2>1 DEF Fresh, NoFlight
  <2>3. CASE Flush(buffer, "time")
    <3>1. buffer' = {} /\ Fresh' = buffer /\ pc' # "delete"
      BY <2>3 DEF Flush, Fresh
    <3> QED  BY <1>1, <2>1, <2>2, <3>1
  <2>4. CASE buffer' = buffer /\ flight' = flight /\ pc' # "delete"
    <3>1. Fresh' = {}
      BY <2>1, <2>4 DEF Fresh, NoFlight
    <3> QED  BY <1>1, <2>1, <2>2, <2>4, <3>1
  <2> QED  BY <1>4, <2>1, <2>3, <2>4 DEF GetTimeout
<1>5. CASE GetStop
  <2>1. InQueue = {} /\ Remaining = buffer
    BY <1>5, LastFlushIsBuffer
  <2>2. /\ pc = "wait" /\ flight = NoFlight
        /\ stats' = [stats EXCEPT !.enqueued = @ + Cardinality({})]
    BY <1>5, <2>1 DEF GetStop, Control
  <2>3. /\ stats.enqueued = Cardinality(buffer) + stats.failed + stats.sent - stats.recovered
        /\ stats' = stats
    BY <1>1, <1>2, <2>2 DEF Fresh, NoFlight, Counters
  <2>4. CASE UNCHANGED <<buffer, flight>> /\ pc' = "stopped"
    <3>1. Fresh' = {}
      BY <2>2, <2>4 DEF Fresh, NoFlight
    <3> QED  BY <1>1, <2>3, <2>4, <3>1
  <2>5. CASE ~(UNCHANGED <<buffer, flight>> /\ pc' = "stopped")
    <3>1. buffer' = {} /\ Fresh' = buffer /\ pc' # "delete"
      BY <1>5, <2>1, <2>5 DEF GetStop, Fresh
    <3> QED  BY <1>1, <2>3, <3>1
  <2> QED  BY <2>4, <2>5
<1>6. CASE AnswerOk
  <2>1. /\ pc = "answer" /\ buffer = {} /\ buffer' = {}
        /\ stats' = [stats EXCEPT !.sent = @ + Cardinality(flight.logs)]
    BY <1>6 DEF AnswerOk, Return, Control
  <2>2. CASE ctx = "drain"
    <3>1. flight.row # 0 /\ flight' = flight /\ pc' = "delete"
      BY <1>6, <2>1, <2>2 DEF AnswerOk, Control
    <3> QED  BY <1>1, <1>2, <2>1, <3>1 DEF Fresh, Counters
  <2>3. CASE ctx # "drain"
    <3>1. flight.row = 0 /\ flight' = NoFlight /\ pc' # "delete"
      BY <1>6, <2>1, <2>3 DEF AnswerOk, Return, Control
    <3> QED  BY <1>1, <1>2, <2>1, <3>1 DEF Fresh, NoFlight, Counters
  <2> QED  BY <2>2, <2>3
<1>7. CASE AnswerFail
  <2>1. /\ pc = "answer" /\ buffer' = buffer /\ stats' = stats
        /\ pc' # "delete" /\ Fresh' = Fresh
    BY <1>7 DEF AnswerFail, Return, Control, Fresh, NoFlight
  <2> QED  BY <1>1, <1>2, <2>1
<1>8. CASE Persist
  <2>1. /\ pc = "persist" /\ flight.row = 0 /\ flight' = NoFlight /\ pc' # "delete"
        /\ buffer' = buffer
        /\ stats' = [stats EXCEPT !.failed = @ + Cardinality(flight.logs)]
    BY <1>8 DEF Persist, Return, Control
  <2> QED  BY <1>1, <1>2, <2>1 DEF Fresh, NoFlight, Counters
<1>9. CASE SelectRow
  <2>1. \A r \in pending : r.id # 0
    BY DEF TypeOK, Rows
  <2>2. /\ pc = "select" /\ buffer' = buffer /\ stats' = stats
        /\ pc' # "delete" /\ Fresh = {} /\ Fresh' = {}
    BY <1>9, <2>1 DEF SelectRow, Return, Control, Fresh, NoFlight
  <2> QED  BY <1>1, <1>2, <2>2
<1>10. CASE DeleteRow
  <2>1. /\ pc = "delete" /\ flight.row # 0 /\ flight' = NoFlight /\ pc' # "delete"
        /\ buffer' = buffer
        /\ stats' = [stats EXCEPT !.recovered = @ + Cardinality(flight.logs)]
    BY <1>10 DEF DeleteRow, Return, Control
  <2> QED  BY <1>1, <1>2, <2>1 DEF Fresh, NoFlight, Counters
<1>11. CASE Restart
  BY <1>1, <1>11 DEF Restart, Fresh, NoFlight, NoStats
<1>12. CASE /\ UNCHANGED <<buffer, flight, stats>>
            /\ pc # "dead" /\ (pc' = "delete" <=> pc = "delete")
  BY <1>1, <1>2, <1>12 DEF Fresh
<1> QED
  BY <1>2, <1>3, <1>4, <1>5, <1>6, <1>7, <1>8, <1>9, <1>10, <1>11, <1>12
  DEF Next, Get, Post, Answer, Capture, PutStop, Tick, PostAccepted, PostAnswerLost,
      PostFailed, AtPost, OutageStarts, OutageEnds, Crash, vars, procVars

\* Sizes and counters with what they rest on.
SizesAndCounts == IInv /\ BehindStop(queue) /\ BatchesBounded /\ StatsAddUp

LEMMA SizesAndCountsHold == Spec => []SizesAndCounts
<1>1. Init => SizesAndCounts
  <2> SUFFICES ASSUME Init PROVE BehindStop(queue) /\ BatchesBounded /\ StatsAddUp
    BY IInvInit DEF SizesAndCounts
  <2> QED
    BY NothingHasSizeZero, ConstantsAssumption
    DEF Init, BehindStop, BatchesBounded, StatsAddUp, Fresh, NoFlight, NoStats
<1>2. SizesAndCounts /\ [Next]_vars => SizesAndCounts'
  BY IInvStep, BehindStopStep, BatchesStep, StatsStep DEF SizesAndCounts, IInv
<1> QED  BY <1>1, <1>2, PTL DEF Spec

\* No batch in hand or in a row has more logs than flush_size, for any number
\* of outages and restarts; the one the sentinel flushes has fewer.
THEOREM BatchSizes == Spec => []BatchesBounded
<1>1. SizesAndCounts => BatchesBounded
  BY DEF SizesAndCounts
<1> QED  BY <1>1, SizesAndCountsHold, PTL

\* Without disk errors the counters account for every log taken from the queue.
THEOREM CountersAddUp == Spec => []StatsAddUp
<1>1. SizesAndCounts => StatsAddUp
  BY DEF SizesAndCounts
<1> QED  BY <1>1, SizesAndCountsHold, PTL
-----------------------------------------------------------------------------
(* What of the liveness properties is safety.                              *)

RoundBounded == RoundLeft \in 0..7 /\ Len(queue) \in Nat

LEMMA RoundType == TypeOK => RoundBounded
BY DEF TypeOK, RoundBounded, RoundLeft, Alive

LEMMA RoundTypeNext == TypeOK' => RoundBounded'
BY RoundType, PTL

RoundTable ==
    /\ pc = "select" => RoundLeft = 4
    /\ pc = "post" => RoundLeft = IF ctx = "time" THEN 7 ELSE 3
    /\ pc = "answer" => RoundLeft = IF ctx = "time" THEN 6 ELSE 2
    /\ pc \in {"persist", "delete"} => RoundLeft = 1
    /\ pc \in {"wait", "stopped", "dead"} => RoundLeft = 0

LEMMA Rounds == RoundTable
<1>1. pc = "select" => RoundLeft = 4
  BY DEF RoundLeft, Alive
<1>2. pc = "post" => RoundLeft = IF ctx = "time" THEN 7 ELSE 3
  BY DEF RoundLeft, Alive
<1>3. pc = "answer" => RoundLeft = IF ctx = "time" THEN 6 ELSE 2
  BY DEF RoundLeft, Alive
<1>4. pc \in {"persist", "delete"} => RoundLeft = 1
  BY DEF RoundLeft, Alive
<1>5. pc \in {"wait", "stopped", "dead"} => RoundLeft = 0
  BY DEF RoundLeft, Alive
<1> QED  BY <1>1, <1>2, <1>3, <1>4, <1>5 DEF RoundTable

LEMMA RoundsNext == RoundTable'
BY Rounds, PTL

\* A flush or a drain that is over.
LEMMA Returned ==
    ASSUME Return
    PROVE  RoundLeft' = 0
BY RoundsNext DEF Return, RoundTable

\* The queue gets shorter: room for the flush that may follow.
LEMMA GetShortens ==
    ASSUME TypeOK, Stop \in Range(queue), Get
    PROVE  pc = "wait" /\ Len(queue') <= Len(queue) - 1
<1>1. queue \in Seq(Logs \cup {Stop}) /\ Len(queue) \in Nat /\ queue # <<>>
  BY EmptyQueue DEF TypeOK
<1>2. CASE GetLog
  <2>1. Len(Tail(queue)) = Len(queue) - 1
    BY <1>1
  <2> QED  BY <1>1, <1>2, <2>1 DEF GetLog
<1>3. CASE GetTimeout
  BY <1>1, <1>3 DEF GetTimeout
<1>4. CASE GetStop
  <2>1. Len(queue) # 0 /\ Len(<<>>) = 0
    BY <1>1
  <2> QED  BY <1>1, <1>4, <2>1 DEF GetStop
<1> QED  BY <1>2, <1>3, <1>4 DEF Get

\* Each of the other steps takes one off the round.
LEMMA RoundShortens ==
    ASSUME TypeOK, Control, Step, ~Get
    PROVE  RoundLeft' < RoundLeft /\ UNCHANGED queue
<1>1. UNCHANGED queue
  BY DEF Step, Post, Answer, PostAccepted, PostAnswerLost, PostFailed, AnswerOk, AnswerFail,
         Persist, PersistFails, SelectRow, DeleteRow, DrainFails, queueVars
<1> SUFFICES RoundLeft' < RoundLeft
  BY <1>1
<1>2. CASE Post
  BY <1>2, Rounds, RoundsNext DEF RoundTable, Post, PostAccepted, PostAnswerLost, PostFailed, AtPost
<1>3. CASE AnswerOk
  <2>1. RoundLeft = IF ctx = "time" THEN 6 ELSE 2
    BY <1>3, Rounds DEF AnswerOk, RoundTable
  <2>2. CASE ctx = "drain" /\ pc' = "delete"
    BY <2>1, <2>2, RoundsNext DEF RoundTable
  <2>3. CASE ctx = "time" /\ pc' = "select"
    BY <2>1, <1>3, <2>3, RoundsNext DEF AnswerOk, RoundTable
  <2>4. CASE Return
    BY <2>1, <2>4, Returned
  <2> QED  BY <1>3, <2>2, <2>3, <2>4 DEF AnswerOk
<1>4. CASE AnswerFail
  <2>1. RoundLeft = IF ctx = "time" THEN 6 ELSE 2
    BY <1>4, Rounds DEF AnswerFail, RoundTable
  <2>2. CASE pc' = "persist"
    BY <2>1, <2>2, RoundsNext DEF RoundTable
  <2>3. CASE Return
    BY <2>1, <2>3, Returned
  <2> QED  BY <1>4, <2>2, <2>3 DEF AnswerFail
<1>5. CASE Persist \/ PersistFails \/ DeleteRow \/ DrainFails
  <2>1. RoundLeft \in {1, 4}
    BY <1>5, Rounds DEF Persist, PersistFails, DeleteRow, DrainFails, RoundTable
  <2>2. Return
    BY <1>5 DEF Persist, PersistFails, DeleteRow, DrainFails
  <2> QED  BY <2>1, <2>2, Returned
<1>6. CASE SelectRow
  <2>1. RoundLeft = 4 /\ ctx = "drain"
    BY <1>6, Rounds DEF SelectRow, Control, RoundTable
  <2>2. CASE Return
    BY <2>1, <2>2, Returned
  <2>3. CASE pc' = "post" /\ ctx' = ctx
    BY <2>1, <2>3, RoundsNext DEF RoundTable
  <2> QED  BY <1>6, <2>2, <2>3 DEF SelectRow
<1> QED  BY <1>1, <1>2, <1>3, <1>4, <1>5, <1>6 DEF Step, Answer

LEMMA StepNears ==
    ASSUME TypeOK, TypeOK', Control, Stop \in Range(queue), Step
    PROVE  ToStop' < ToStop
<1>1. RoundLeft \in 0..7 /\ Len(queue) \in Nat
  BY RoundType DEF RoundBounded
<1>2. RoundLeft' \in 0..7 /\ Len(queue') \in Nat
  BY RoundTypeNext DEF RoundBounded
<1>3. CASE Get
  <2>1. Len(queue') <= Len(queue) - 1
    BY <1>3, GetShortens
  <2> QED  BY <1>1, <1>2, <2>1 DEF ToStop
<1>4. CASE ~Get
  <2>1. RoundLeft' < RoundLeft /\ Len(queue') = Len(queue)
    BY <1>4, RoundShortens
  <2> QED  BY <1>1, <1>2, <2>1 DEF ToStop
<1> QED  BY <1>3, <1>4

LEMMA RestNears ==
    ASSUME TypeOK, TypeOK', Control, Stop \in Range(queue), Alive, Next, ~Step
    PROVE  ToStop' <= ToStop \/ sentinels' > sentinels
<1>1. RoundLeft \in 0..7 /\ Len(queue) \in Nat
  BY RoundType DEF RoundBounded
<1>2. RoundLeft' \in 0..7 /\ Len(queue') \in Nat
  BY RoundTypeNext DEF RoundBounded
<1>3. ASSUME NEW l \in Logs, Capture(l) PROVE FALSE
  BY <1>3 DEF Capture, Control
<1>4. CASE PutStop
  BY <1>4 DEF PutStop, TypeOK
<1>5. CASE Tick \/ OutageStarts \/ OutageEnds
  <2>1. UNCHANGED <<queue, pc, ctx>>
    BY <1>5 DEF Tick, OutageStarts, OutageEnds, procVars, queueVars
  <2>2. RoundLeft' = RoundLeft
    BY <2>1 DEF RoundLeft, Alive
  <2> QED  BY <1>1, <2>1, <2>2 DEF ToStop
<1>6. CASE Crash
  <2>1. RoundLeft' = 0 /\ UNCHANGED queue
    BY <1>6 DEF Crash, RoundLeft, Alive, queueVars
  <2> QED  BY <1>1, <1>2, <2>1 DEF ToStop
<1>7. ~Restart
  BY DEF Restart
<1> QED  BY <1>3, <1>4, <1>5, <1>6, <1>7 DEF Next, Step

\* Once main has put the sentinel each step of the sender brings it nearer to its end,
\* and only the second sentinel puts that off (run of buffer_sender.py, break and
\* _final_flush): no outage, refused row or failing SQLite keeps it in its loop.
THEOREM SentinelApproaches == Spec => SentinelNears
<1>1. IInv /\ IInv' /\ [Next]_vars
      => [(Stop \in Range(queue) /\ Alive) =>
             /\ Step => ToStop' < ToStop
             /\ ToStop' <= ToStop \/ sentinels' > sentinels]_vars
  <2> SUFFICES ASSUME IInv, IInv', Next, Stop \in Range(queue), Alive
               PROVE  /\ Step => ToStop' < ToStop
                      /\ ToStop' <= ToStop \/ sentinels' > sentinels
    OBVIOUS
  <2>1. TypeOK /\ TypeOK' /\ Control
    BY DEF IInv
  <2>2. CASE Step
    <3>1. ToStop' < ToStop
      BY <2>1, <2>2, StepNears
    <3>2. ToStop' <= ToStop
      <4>1. RoundLeft \in 0..7 /\ Len(queue) \in Nat
        BY <2>1, RoundType DEF RoundBounded
      <4>2. RoundLeft' \in 0..7 /\ Len(queue') \in Nat
        BY <2>1, RoundTypeNext DEF RoundBounded
      <4> QED  BY <3>1, <4>1, <4>2 DEF ToStop
    <3> QED  BY <3>1, <3>2
  <2>3. CASE ~Step
    BY <2>1, <2>3, RestNears
  <2> QED  BY <2>2, <2>3
<1> QED  BY <1>1, Invariant, PTL DEF Spec, SentinelNears

\* Nothing is stored unless the last POST failed.
LEMMA StoresWhenDownHolds == Spec => []StoresWhenDown
<1>1. Init => StoresWhenDown
  BY DEF Init, StoresWhenDown
<1>2. StoresWhenDown /\ [Next]_vars => StoresWhenDown'
  <2> SUFFICES ASSUME StoresWhenDown, [Next]_vars, pc' = "persist" PROVE ~healthy'
    BY DEF StoresWhenDown
  <2>1. CASE AnswerFail
    BY <2>1 DEF AnswerFail
  <2>2. CASE GetStop
    BY <2>2 DEF GetStop, healthVars
  <2>3. CASE UNCHANGED <<pc, healthy>>
    BY <2>3 DEF StoresWhenDown
  <2> QED
    BY <2>1, <2>2, <2>3
    DEF Next, Get, Post, Answer, Capture, PutStop, Tick, GetLog, GetTimeout, Flush,
        PostAccepted, PostAnswerLost, PostFailed, AtPost, AnswerOk, Persist, PersistFails,
        SelectRow, DeleteRow, DrainFails, Return, OutageStarts, OutageEnds, Crash, Restart,
        vars, procVars, healthVars
<1> QED  BY <1>1, <1>2, PTL DEF Spec

\* As long as the sender believes the API healthy its table only gets shorter, by a row
\* for each drain (run and _drain_sqlite of buffer_sender.py).
THEOREM HealthyDrainsOnly == Spec => HealthyOnlyDrains
<1> DEFINE Drains ==
      (healthy /\ healthy' /\ UNCHANGED spent) =>
          /\ pending' \subseteq pending
          /\ (ctx = "drain" /\ ctx' = "none") => (pending = {} \/ pending' # pending)
<1>1. IInv /\ StoresWhenDown /\ [Next]_vars => [Drains]_vars
  <2> SUFFICES ASSUME IInv, StoresWhenDown, Next, healthy, healthy', UNCHANGED spent
               PROVE  /\ pending' \subseteq pending
                      /\ (ctx = "drain" /\ ctx' = "none") => (pending = {} \/ pending' # pending)
    OBVIOUS
  <2>1. ~Suffer("disk") /\ ~Suffer("crash") /\ ~Suffer("restart") /\ ~Suffer("answer") /\ ~Suffer("outage")
    BY DEF Suffer, IInv, TypeOK, FaultKinds
  <2>2. ~Persist
    BY DEF Persist, StoresWhenDown
  <2>3. CASE DeleteRow
    <3>1. flight.row # 0
      BY <2>3 DEF DeleteRow, IInv, Control
    <3>2. PICK r \in pending : r.id = flight.row
      BY <3>1 DEF IInv, RowIds
    <3>3. r \notin pending'
      BY <2>3, <3>2 DEF DeleteRow, Undeleted
    <3> QED  BY <2>3, <3>3 DEF DeleteRow, Undeleted
  <2>4. CASE SelectRow
    BY <2>4 DEF SelectRow, diskVars, Return, IInv, Control
  <2>5. CASE ~DeleteRow /\ ~SelectRow
    <3>1. UNCHANGED pending
      BY <2>1, <2>2, <2>5
      DEF Next, Get, Post, Answer, Capture, PutStop, Tick, GetLog, GetTimeout, GetStop,
          PostAccepted, PostAnswerLost, PostFailed, AnswerOk, AnswerFail,
          PersistFails, DrainFails, OutageStarts, OutageEnds, Crash, Restart, diskVars
    <3>2. ~(ctx = "drain" /\ ctx' = "none")
      BY <2>1, <2>2, <2>5
      DEF IInv, Control, Next, Get, Post, Answer, Capture, PutStop, Tick, GetLog, GetTimeout, GetStop,
          Flush, PostAccepted, PostAnswerLost, PostFailed, AtPost, AnswerOk, AnswerFail, Return,
          PersistFails, DrainFails, OutageStarts, OutageEnds, Crash, Restart, procVars
    <3> QED  BY <3>1, <3>2
  <2> QED  BY <2>3, <2>4, <2>5
<1> QED  BY <1>1, Invariant, StoresWhenDownHolds, PTL DEF Spec, HealthyOnlyDrains

-----------------------------------------------------------------------------
(* The way of a log to its flush.                                          *)

\* The place of a log, there being one of each in the queue.
LEMMA PlaceIs ==
    ASSUME OnePlace, NEW i \in DOMAIN queue, queue[i] # Stop
    PROVE  Place(queue[i]) = i
BY DEF OnePlace, Place

PlaceTable(l) == \A i \in DOMAIN queue : queue[i] = l /\ l # Stop => Place(l) = i

LEMMA Places == ASSUME NEW l PROVE OnePlace => PlaceTable(l)
BY PlaceIs DEF PlaceTable

LEMMA PlacesNext == ASSUME NEW CONSTANT l PROVE OnePlace' => PlaceTable(l)'
BY Places, PTL

\* A log in the queue has a place in it.
LEMMA PlaceOf ==
    ASSUME TypeOK, OnePlace, NEW l \in InQueue
    PROVE  /\ Place(l) \in 1..Len(queue) /\ Len(queue) \in Nat \ {0}
           /\ queue[Place(l)] = l /\ l # Stop
<1>1. queue \in Seq(Logs \cup {Stop})
  BY DEF TypeOK
<1>2. PICK i \in DOMAIN queue : queue[i] = l
  BY DEF InQueue, Range
<1>3. l # Stop
  BY DEF InQueue
<1>4. DOMAIN queue = 1..Len(queue) /\ Len(queue) \in Nat
  BY <1>1
<1>5. Place(l) = i
  BY <1>2, <1>3, PlaceIs
<1> QED
  BY <1>2, <1>3, <1>4, <1>5

\* The clock and the terms of the measure.
Terms(l) ==
    /\ Clock \in {0, 1}
    /\ due => Clock = 0
    /\ ~due => Clock = 1
    /\ l \in InQueue => Behind(l) = (16 * FlushSize + 18) * Place(l)
    /\ l \notin InQueue /\ l \in buffer => Behind(l) = 16 * (FlushSize - Cardinality(buffer))
    /\ l \notin InQueue /\ l \notin buffer => Behind(l) = 0
    /\ ToFlush(l) = Behind(l) + 2 * RoundLeft + Clock

LEMMA TermsAre == ASSUME NEW l PROVE Terms(l)
BY DEF Terms, Clock, Behind, ToFlush

LEMMA TermsAreNext == ASSUME NEW CONSTANT l PROVE Terms(l)'
BY TermsAre, PTL

LEMMA Times ==
    ASSUME NEW F \in Nat, NEW i \in Nat \ {0}
    PROVE  /\ (16 * F + 18) * (i - 1) = (16 * F + 18) * i - (16 * F + 18)
           /\ (16 * F + 18) * i \in Nat /\ (16 * F + 18) * i >= 16 * F + 18
<1>1. (16 * F + 18) * (i - 1) = (16 * F + 18) * i - (16 * F + 18)
  OBVIOUS
<1>2. \A K, j \in Nat : K * j \in Nat
  OBVIOUS
<1>3. (16 * F + 18) \in Nat /\ i - 1 \in Nat
  OBVIOUS
<1>4. (16 * F + 18) * (i - 1) \in Nat /\ (16 * F + 18) * i \in Nat
  BY <1>2, <1>3
<1> QED
  BY <1>1, <1>3, <1>4

\* A log in the queue, and a get.
LEMMA QueuedGets ==
    ASSUME IInv, IInv', Get, NEW l \in InQueue
    PROVE  ToFlush(l)' < ToFlush(l)
<1> DEFINE K == 16 * FlushSize + 18
<1>0. /\ TypeOK /\ Control /\ OnePlace /\ TypeOK' /\ Control' /\ OnePlace'
      /\ FlushSize \in Nat \ {0}
      /\ queue \in Seq(Logs \cup {Stop}) /\ queue' \in Seq(Logs \cup {Stop})
  BY ConstantsAssumption DEF IInv, TypeOK
<1>1. /\ Place(l) \in 1..Len(queue) /\ Len(queue) \in Nat \ {0}
      /\ queue[Place(l)] = l /\ l # Stop /\ queue # <<>>
  BY <1>0, PlaceOf, EmptyQueue DEF InQueue
<1>2. pc = "wait" /\ ~GetTimeout
  BY <1>1 DEF Get, GetLog, GetTimeout, GetStop
<1>3. RoundLeft = 0 /\ RoundLeft' \in 0..7 /\ Clock \in {0, 1} /\ Clock' \in {0, 1}
  BY <1>0, <1>2, Rounds, RoundTypeNext, TermsAre, TermsAreNext DEF RoundTable, RoundBounded, Terms
<1>5. ToFlush(l)' = Behind(l)' + 2 * RoundLeft' + Clock'
  BY TermsAreNext DEF Terms
<1>6. Place(l) \in Nat \ {0} /\ K \in Nat /\ K >= 34
  BY <1>0, <1>1
<1>7. /\ K * (Place(l) - 1) = K * Place(l) - K
      /\ K * Place(l) \in Nat /\ K * Place(l) >= K
  BY <1>0, <1>6, Times
<1>4. ToFlush(l) = K * Place(l) + Clock
  <2>1. Behind(l) = K * Place(l) /\ ToFlush(l) = Behind(l) + 2 * RoundLeft + Clock
    BY TermsAre DEF Terms
  <2> HIDE DEF K
  <2> QED
    BY <1>3, <1>7, <2>1
<1> HIDE DEF K
<1>8. CASE l \notin InQueue'
  <2>1. CASE l \in buffer'
    <3>1. RoundLeft' = 0
      BY <1>0, <2>1, RoundsNext DEF Control, RoundTable
    <3>2. Behind(l)' = 16 * (FlushSize - Cardinality(buffer'))
      BY <1>8, <2>1, TermsAreNext DEF Terms
    <3>3. Cardinality(buffer') \in Nat
      BY <1>0, GrownSize DEF TypeOK
    <3>4. Behind(l)' <= 16 * FlushSize /\ Behind(l)' \in Int
      BY <1>0, <3>2, <3>3
    <3>5. K = 16 * FlushSize + 18
      BY DEF K
    <3> QED
      BY <1>0, <1>3, <1>4, <1>5, <1>6, <1>7, <3>1, <3>4, <3>5
  <2>2. CASE l \notin buffer'
    <3>1. Behind(l)' = 0
      BY <1>8, <2>2, TermsAreNext DEF Terms
    <3> QED
      BY <1>3, <1>4, <1>5, <1>6, <1>7, <3>1
  <2> QED
    BY <2>1, <2>2
<1>9. CASE l \in InQueue'
  <2>1. GetLog
    BY <1>2, <1>9, GetStopQueue DEF Get
  <2>2. queue' = Tail(queue) /\ Len(queue') = Len(queue) - 1
    BY <1>0, <1>1, <2>1 DEF GetLog
  <2>3. PICK j \in 1..Len(queue') : queue'[j] = l
    BY <1>0, <1>9 DEF InQueue, Range
  <2>4. j + 1 \in DOMAIN queue /\ queue[j + 1] = l
    BY <1>0, <1>1, <2>2, <2>3
  <2>5. Place(l) = j + 1
    BY <1>0, <1>1, <2>4, Places DEF PlaceTable
  <2>6. Place(l)' = j
    <3>1. j \in DOMAIN queue' /\ queue'[j] = l
      BY <1>0, <2>3
    <3> QED
      BY <1>0, <1>1, <3>1, PlacesNext DEF PlaceTable
  <2>7. Behind(l)' = K * Place(l)'
    BY <1>9, TermsAreNext DEF Terms, K
  <2>8. j = Place(l) - 1
    BY <1>6, <2>3, <2>5
  <2>9. Behind(l)' = K * Place(l) - K
    BY <1>7, <2>6, <2>7, <2>8
  <2> DEFINE p == K * Place(l)
  <2>10. ToFlush(l) = p + Clock /\ ToFlush(l)' = p - K + 2 * RoundLeft' + Clock' /\ p \in Nat
    BY <1>4, <1>5, <1>7, <2>9
  <2> HIDE DEF p
  <2>11. \A r \in 0..7, c, d \in {0, 1}, k \in Nat, n \in Nat : k >= 34 => n - k + 2 * r + d < n + c
    OBVIOUS
  <2>12. p - K + 2 * RoundLeft' + Clock' < p + Clock
    BY <1>3, <1>6, <2>10, <2>11
  <2> QED
    BY <2>10, <2>12
<1> QED
  BY <1>8, <1>9

\* The measure is a number.
LEMMA BehindType ==
    ASSUME IInv, NEW CONSTANT l
    PROVE  Behind(l) \in Int
<1>0. TypeOK /\ OnePlace /\ FlushSize \in Nat /\ buffer \in Batches
  BY ConstantsAssumption DEF IInv, TypeOK
<1>1. CASE l \in InQueue
  <2>1. Place(l) \in Nat \ {0}
    BY <1>0, <1>1, PlaceOf
  <2>2. (16 * FlushSize + 18) * Place(l) \in Nat
    BY <1>0, <2>1, Times
  <2> QED
    BY <1>1, <2>2, TermsAre DEF Terms
<1>2. CASE l \notin InQueue
  <2>1. Cardinality(buffer) \in Nat
    BY <1>0, GrownSize
  <2> QED
    BY <1>0, <1>2, <2>1, TermsAre DEF Terms
<1> QED
  BY <1>1, <1>2

FlushIsNumber(l) == ToFlush(l) \in Int

LEMMA FlushType == ASSUME NEW CONSTANT l PROVE IInv => FlushIsNumber(l)
<1> SUFFICES ASSUME IInv PROVE FlushIsNumber(l)
  OBVIOUS
<1>1. Behind(l) \in Int /\ RoundLeft \in 0..7 /\ Clock \in {0, 1}
  BY BehindType, RoundType, TermsAre DEF IInv, RoundBounded, Terms
<1> QED
  BY <1>1, TermsAre DEF FlushIsNumber, Terms

LEMMA FlushTypeNext == ASSUME NEW CONSTANT l PROVE IInv' => FlushIsNumber(l)'
BY FlushType, PTL

\* A log in the buffer, and a get: the buffer fills or is flushed.
LEMMA BufferedGets ==
    ASSUME IInv, IInv', BatchesBounded, Get, NEW l \in buffer
    PROVE  ToFlush(l)' < ToFlush(l)
<1>0. /\ TypeOK /\ Control /\ OnePlace /\ TypeOK' /\ Control'
      /\ FlushSize \in Nat \ {0} /\ buffer \in Batches
      /\ pc = "wait" /\ l \notin InQueue
  BY ConstantsAssumption DEF IInv, TypeOK, Get, GetLog, GetTimeout, GetStop, OnePlace, Memory
<1>1. Cardinality(buffer) \in Nat /\ Cardinality(buffer) < FlushSize
  BY <1>0, GrownSize DEF BatchesBounded
<1>2. RoundLeft = 0 /\ RoundLeft' \in 0..7 /\ Clock \in {0, 1} /\ Clock' \in {0, 1}
  BY <1>0, Rounds, RoundTypeNext, TermsAre, TermsAreNext DEF RoundTable, RoundBounded, Terms
<1>3. ToFlush(l) = 16 * (FlushSize - Cardinality(buffer)) + Clock
  BY <1>0, <1>1, <1>2, TermsAre DEF Terms
<1>4. l \notin InQueue'
  BY <1>0, GetLogQueue, GetStopQueue DEF Get, GetTimeout, queueVars, InQueue
<1>5. ToFlush(l)' = Behind(l)' + 2 * RoundLeft' + Clock'
  BY TermsAreNext DEF Terms
<1>6. CASE l \notin buffer'
  <2>1. Behind(l)' = 0
    BY <1>4, <1>6, TermsAreNext DEF Terms
  <2> QED
    BY <1>0, <1>1, <1>2, <1>3, <1>5, <2>1
<1>7. CASE l \in buffer'
  <2>1. RoundLeft' = 0
    BY <1>0, <1>7, RoundsNext DEF Control, RoundTable
  <2>2. GetLog /\ buffer' = buffer \cup {Head(queue)} /\ due' = due
    BY <1>0, <1>7 DEF Get, GetLog, GetTimeout, GetStop, Flush, Remaining
  <2>3. Head(queue) \in InQueue
    BY <1>0, <2>2, GetLogQueue
  <2>4. Head(queue) \notin buffer
    BY <1>0, <2>3 DEF OnePlace, Memory
  <2>5. Cardinality(buffer') = Cardinality(buffer) + 1
    BY <1>0, <2>2, <2>4, GrownSize
  <2>6. Clock' = Clock
    BY <2>2 DEF Clock
  <2>7. Behind(l)' = 16 * (FlushSize - Cardinality(buffer'))
    BY <1>4, <1>7, TermsAreNext DEF Terms
  <2> QED
    BY <1>0, <1>1, <1>2, <1>3, <1>5, <2>1, <2>5, <2>6, <2>7
<1> QED
  BY <1>6, <1>7

\* The batch in hand is not where other logs are.
LEMMA FreshAlone ==
    ASSUME IInv, NEW l \in Fresh
    PROVE  l \notin InQueue /\ pc # "wait" /\ buffer = {}
<1>1. l \notin InQueue
  BY DEF IInv, OnePlace, Memory
<1>2. pc # "wait"
  BY DEF IInv, Control, Fresh, NoFlight
<1> QED
  BY <1>1, <1>2 DEF IInv, Control

\* What leaves the queue and the buffer alone leaves the way of a log alone.
LEMMA SameWay ==
    ASSUME NEW CONSTANT l, UNCHANGED <<queue, buffer>>
    PROVE  Behind(l)' = Behind(l)
BY DEF Behind, InQueue, Place

\* The other steps and the clock.
LEMMA OthersAdvance ==
    ASSUME IInv, IInv', BatchesBounded, NEW CONSTANT l, l \in InQueue \cup Memory, Step \/ Tick, ~Get
    PROVE  ToFlush(l)' < ToFlush(l)
<1>0. /\ TypeOK /\ Control /\ TypeOK' /\ Control'
  BY DEF IInv
<1>1. /\ RoundLeft \in 0..7 /\ RoundLeft' \in 0..7 /\ Clock \in {0, 1} /\ Clock' \in {0, 1}
      /\ ToFlush(l) = Behind(l) + 2 * RoundLeft + Clock
      /\ ToFlush(l)' = Behind(l)' + 2 * RoundLeft' + Clock'
  BY <1>0, RoundType, RoundTypeNext, TermsAre, TermsAreNext DEF RoundBounded, Terms
<1>2. Behind(l) \in Int
  BY BehindType
<1>3. CASE Tick
  <2>1. UNCHANGED <<queue, buffer, pc, ctx>> /\ ~due /\ due'
    BY <1>3 DEF Tick, queueVars
  <2>2. Behind(l)' = Behind(l)
    BY <2>1, SameWay
  <2>3. RoundLeft' = RoundLeft
    BY <2>1 DEF RoundLeft, Alive
  <2>4. Clock = 1 /\ Clock' = 0
    BY <2>1 DEF Clock
  <2> QED
    BY <1>1, <1>2, <2>2, <2>3, <2>4
<1>4. CASE Step
  <2>1. RoundLeft' < RoundLeft /\ queue' = queue
    BY <1>0, <1>4, RoundShortens
  <2>2. buffer' = buffer
    BY <1>4 DEF Step, Post, Answer, PostAccepted, PostAnswerLost, PostFailed, AtPost, AnswerOk, AnswerFail,
         Persist, PersistFails, SelectRow, DeleteRow, DrainFails, Return
  <2>3. Behind(l)' = Behind(l)
    BY <2>1, <2>2, SameWay
  <2> QED
    BY <1>1, <1>2, <2>1, <2>3
<1> QED
  BY <1>3, <1>4

\* What the others do puts no log back.
LEMMA NonePutsBack ==
    ASSUME IInv, IInv', BatchesBounded, NEW CONSTANT l, l \in InQueue \cup Memory,
           Next, ~Step, ~Tick, Alive, Alive'
    PROVE  ToFlush(l)' = ToFlush(l)
<1>0. /\ TypeOK /\ Control /\ OnePlace /\ OnePlace' /\ TypeOK' /\ Control'
      /\ queue \in Seq(Logs \cup {Stop})
  BY DEF IInv, TypeOK
<1>1. UNCHANGED <<buffer, pc, ctx, due>>
  BY DEF Next, Step, Capture, PutStop, OutageStarts, OutageEnds, Crash, Restart, procVars, Alive
<1>2. RoundLeft' = RoundLeft /\ Clock' = Clock
  BY <1>1 DEF RoundLeft, Alive, Clock
<1> SUFFICES Behind(l)' = Behind(l)
  BY <1>2, TermsAre, TermsAreNext DEF Terms
<1>3. CASE queue' = queue
  BY <1>1, <1>3, SameWay
<1>4. ASSUME NEW e \in Logs \cup {Stop}, queue' = Append(queue, e), e # l
      PROVE  Behind(l)' = Behind(l)
  <2>1. Range(queue') = Range(queue) \cup {e}
    BY <1>0, <1>4, AppendLogs
  <2>2. CASE l \in InQueue
    <3>1. /\ Place(l) \in 1..Len(queue) /\ Len(queue) \in Nat
          /\ queue[Place(l)] = l /\ l # Stop
      BY <1>0, <2>2, PlaceOf
    <3>2. Place(l) \in DOMAIN queue' /\ queue'[Place(l)] = l
      BY <1>0, <1>4, <3>1
    <3>3. Place(l)' = Place(l)
      BY <1>0, <3>1, <3>2, PlacesNext DEF PlaceTable
    <3>4. l \in InQueue'
      BY <2>1, <2>2 DEF InQueue
    <3> QED
      BY <2>2, <3>3, <3>4, TermsAre, TermsAreNext DEF Terms
  <2>3. CASE l \notin InQueue
    <3>1. l \notin InQueue'
      BY <1>4, <2>1, <2>3 DEF InQueue
    <3> QED
      BY <1>1, <2>3, <3>1 DEF Behind
  <2> QED
    BY <2>2, <2>3
<1>5. l \in captured /\ l \in Logs
  BY ConstantsAssumption DEF IInv, Accounted, Held, TypeOK
<1>6. CASE PutStop
  <2>1. queue' = Append(queue, Stop) /\ Stop # l
    BY <1>5, <1>6, ConstantsAssumption DEF PutStop
  <2> QED
    BY <1>4, <2>1
<1>7. ASSUME NEW k \in Logs, Capture(k) PROVE Behind(l)' = Behind(l)
  <2>1. queue' = Append(queue, k) /\ k # l
    BY <1>5, <1>7 DEF Capture
  <2> QED
    BY <1>4, <2>1
<1>8. CASE OutageStarts \/ OutageEnds
  BY <1>3, <1>8 DEF OutageStarts, OutageEnds, queueVars
<1>9. ~Crash /\ ~Restart
  BY DEF Crash, Restart, Alive
<1> QED
  BY <1>6, <1>7, <1>8, <1>9 DEF Next, Step

\* A log in memory comes nearer to its flush with each step of the sender, and nothing
\* puts it back (run, _flush and _drain_sqlite of buffer_sender.py).
THEOREM MemoryGoesOn == Spec => LogsAdvance
<1>1. IInv /\ IInv' /\ BatchesBounded /\ [Next]_vars
      => [\A l \in InQueue \cup Memory :
             Alive /\ Alive' => /\ Step \/ Tick => ToFlush(l)' < ToFlush(l)
                                /\ ToFlush(l)' <= ToFlush(l)]_vars
  <2> SUFFICES ASSUME IInv, IInv', BatchesBounded, Next, Alive, Alive',
                      NEW l \in InQueue \cup Memory
               PROVE  /\ Step \/ Tick => ToFlush(l)' < ToFlush(l)
                      /\ ToFlush(l)' <= ToFlush(l)
    OBVIOUS
  <2>1. ToFlush(l) \in Int /\ ToFlush(l)' \in Int
    BY FlushType, FlushTypeNext DEF FlushIsNumber
  <2>2. CASE Step \/ Tick
    <3>1. ToFlush(l)' < ToFlush(l)
      <4>1. CASE Get /\ l \in InQueue
        BY <4>1, QueuedGets
      <4>2. CASE Get /\ l \in buffer
        BY <4>2, BufferedGets
      <4>3. ASSUME Get, l \in Fresh PROVE FALSE
        BY <4>3, FreshAlone DEF Get, GetLog, GetTimeout, GetStop
      <4>4. CASE ~Get
        BY <2>2, <4>4, OthersAdvance
      <4> QED
        BY <4>1, <4>2, <4>3, <4>4 DEF Memory
    <3> QED
      BY <2>1, <3>1
  <2>3. CASE ~Step /\ ~Tick
    BY <2>1, <2>3, NonePutsBack
  <2> QED
    BY <2>2, <2>3
<1> QED
  BY <1>1, Invariant, BatchSizes, PTL DEF Spec, LogsAdvance
=============================================================================

--------------------------- MODULE Pipeline_proof ---------------------------
(***************************************************************************)
(* Proofs about Pipeline, for any batches, chunks, retries, processes and  *)
(* faults.  An accepted batch is never left behind, and its rows never come*)
(* before its alert: a message ends only by being sent again, acknowledged *)
(* after its work, or recorded as dropped (Successor, Continues), so what  *)
(* it stands for lives on in a message, in the database or in the record   *)
(* (Lasting).  What is stored is a prefix, and has one copy more for every *)
(* fault at most: the copies that are there and the messages that will     *)
(* still write one are counted together (Tally).                           *)
(***************************************************************************)
EXTENDS Pipeline, FiniteSetTheorems, TLAPS

-----------------------------------------------------------------------------
(* Messages.                                                               *)

\* There is always a free id.
LEMMA FreeIdFacts ==
    ASSUME IsFiniteSet(tasks), NEW kind, NEW b
    PROVE  /\ FreeId(kind, b) \in Nat \ {0}
           /\ \A t \in tasks : t.kind = kind /\ t.batch = b => t.id # FreeId(kind, b)
<1> DEFINE n == Cardinality(tasks)
           ids == {t.id : t \in tasks}
           f == [t \in tasks |-> t.id]
<1>1. n \in Nat
  BY FS_CardinalityType
<1>2. f \in Surjection(tasks, ids)
  BY DEF Surjection
<1>3. IsFiniteSet(ids) /\ Cardinality(ids) <= n
  BY <1>2, FS_Surjection
<1>4. \E i \in 1..(n + 1) : \A t \in tasks : t.id # i
  <2>1. SUFFICES ASSUME 1..(n + 1) \subseteq ids PROVE FALSE
    OBVIOUS
  <2>2. Cardinality(1..(n + 1)) <= Cardinality(ids)
    BY <1>3, <2>1, FS_Subset
  <2>3. Cardinality(1..(n + 1)) = n + 1
    BY <1>1, FS_Interval
  <2>4. Cardinality(ids) \in Nat
    BY <1>3, FS_CardinalityType
  <2> QED
    BY <1>1, <1>3, <2>2, <2>3, <2>4
<1>5. \E i \in 1..(n + 1) : \A t \in tasks : t.kind = kind /\ t.batch = b => t.id # i
  BY <1>4
<1>6. /\ FreeId(kind, b) \in 1..(n + 1)
      /\ \A t \in tasks : t.kind = kind /\ t.batch = b => t.id # FreeId(kind, b)
  BY <1>5 DEF FreeId
<1> QED
  BY <1>1, <1>6

\* A new message.
LEMMA MessageFacts ==
    ASSUME IsFiniteSet(tasks), NEW kind \in Kinds, NEW b \in Batches, NEW n \in 0..MaxRetries
    PROVE  /\ Message(kind, b, n) \in Tasks
           /\ \A t \in tasks : Key(t) # Key(Message(kind, b, n))
           /\ Message(kind, b, n).kind = kind /\ Message(kind, b, n).batch = b
           /\ Message(kind, b, n).at = "queued" /\ Message(kind, b, n).done = 0
<1>1. PICK i \in Nat \ {0} : i = FreeId(kind, b)
  BY FreeIdFacts
<1>2. Message(kind, b, n) = [id |-> i, kind |-> kind, batch |-> b, retries |-> n,
                             at |-> "queued", done |-> 0]
  BY <1>1 DEF Message
<1>3. \A t \in tasks : t.kind = kind /\ t.batch = b => t.id # i
  BY <1>1, FreeIdFacts
<1> QED
  BY <1>2, <1>3 DEF Tasks, Key

\* The same for one that is sent for the first time.
LEMMA NewMessage ==
    ASSUME IsFiniteSet(tasks), NEW kind \in Kinds, NEW b \in Batches
    PROVE  /\ Message(kind, b, 0) \in Tasks
           /\ \A t \in tasks : Key(t) # Key(Message(kind, b, 0))
           /\ Message(kind, b, 0).kind = kind /\ Message(kind, b, 0).batch = b
           /\ Message(kind, b, 0).at = "queued" /\ Message(kind, b, 0).done = 0
<1>1. 0 \in 0..MaxRetries
  BY PipelineAssumption
<1> QED
  BY <1>1, MessageFacts

-----------------------------------------------------------------------------
(* Types.                                                                  *)

AtMostOneNew(N) ==
    \/ N = {}
    \/ \E kind \in Kinds, b \in Batches, n \in 0..MaxRetries : N = {Message(kind, b, n)}

LEMMA AtMostFirst ==
    ASSUME NEW kind \in Kinds, NEW b \in Batches, NEW N, N = {} \/ N = {Message(kind, b, 0)}
    PROVE  AtMostOneNew(N)
<1>1. 0 \in 0..MaxRetries
  BY PipelineAssumption
<1> QED
  BY <1>1 DEF AtMostOneNew

\* A message is replaced by one with its id, and others may come.
LEMMA ReplaceType ==
    ASSUME IInv, NEW t \in tasks, NEW u \in Tasks, Key(u) = Key(t),
           u.kind = "sink" => u.done <= Chunks[u.batch],
           NEW N, AtMostOneNew(N),
           tasks' = (tasks \ {t}) \cup ({u} \cup N)
    PROVE  /\ IsFiniteSet(tasks')
           /\ tasks' \subseteq Tasks
           /\ \A v \in tasks' : v.kind = "sink" => v.done <= Chunks[v.batch]
           /\ \A v, w \in tasks' : Key(v) = Key(w) => v = w
<1> USE DEF IInv
<1>1. /\ \A m \in N : /\ m \in Tasks /\ m.done = 0 /\ m.batch \in Batches
                      /\ \A v \in tasks : Key(v) # Key(m)
      /\ \A m, n \in N : m = n
  BY MessageFacts DEF AtMostOneNew
<1>2. IsFiniteSet(tasks')
  <2>1. IsFiniteSet(tasks \ {t}) 
    BY FS_RemoveElement
  <2>2. IsFiniteSet((tasks \ {t}) \cup {u})
    BY <2>1, FS_AddElement
  <2>3. CASE N = {}
    BY <2>2, <2>3
  <2>4. ASSUME NEW m \in N PROVE IsFiniteSet(tasks')
    <3>1. tasks' = ((tasks \ {t}) \cup {u}) \cup {m}
      BY <1>1
    <3> QED
      BY <2>2, <3>1, FS_AddElement
  <2> QED
    BY <2>3, <2>4
<1>3. tasks' \subseteq Tasks
  BY <1>1 DEF TypeOK
<1>4. ASSUME NEW v \in tasks', v.kind = "sink" PROVE v.done <= Chunks[v.batch]
  <2>1. \A m \in N : m.done <= Chunks[m.batch]
    BY <1>1, PipelineAssumption
  <2> QED
    BY <1>4, <2>1 DEF TypeOK
<1>5. \A v, w \in tasks' : Key(v) = Key(w) => v = w
  BY <1>1 DEF TypeOK
<1> QED
  BY <1>2, <1>3, <1>4, <1>5

\* Messages go, and none comes.
LEMMA RemoveType ==
    ASSUME IInv, tasks' \subseteq tasks
    PROVE  /\ IsFiniteSet(tasks')
           /\ tasks' \subseteq Tasks
           /\ \A v \in tasks' : v.kind = "sink" => v.done <= Chunks[v.batch]
           /\ \A v, w \in tasks' : Key(v) = Key(w) => v = w
BY FS_Subset DEF IInv, TypeOK

\* The fields of a message.
LEMMA TaskFields ==
    ASSUME TypeOK, NEW t \in tasks
    PROVE  /\ t \in Tasks /\ t.batch \in Batches /\ t.kind \in Kinds
           /\ t.done \in Nat /\ t.retries \in 0..MaxRetries
           /\ t.kind = "sink" => t.done <= Chunks[t.batch]
BY DEF TypeOK, Tasks

\* What every step keeps of the set of messages.
TasksType(T) ==
    /\ IsFiniteSet(T)
    /\ T \subseteq Tasks
    /\ \A v \in T : v.kind = "sink" => v.done <= Chunks[v.batch]
    /\ \A v, w \in T : Key(v) = Key(w) => v = w

\* The same for a step that only moves t.
LEMMA PlaceType ==
    ASSUME IInv, NEW t \in tasks,
           NEW place \in {"queued", "run", "send", "retried", "ack"}, NEW N, AtMostOneNew(N),
           tasks' = (tasks \ {t}) \cup ({[t EXCEPT !.at = place]} \cup N)
    PROVE  TasksType(tasks')
<1> PICK u : u = [t EXCEPT !.at = place]
  OBVIOUS
<1>1. t \in Tasks /\ (t.kind = "sink" => t.done <= Chunks[t.batch])
  BY DEF IInv, TypeOK
<1>2. u \in Tasks /\ Key(u) = Key(t) /\ u.kind = t.kind /\ u.batch = t.batch /\ u.done = t.done
  BY <1>1 DEF Tasks, Key
<1>3. tasks' = (tasks \ {t}) \cup ({u} \cup N)
  OBVIOUS
<1>4. u.kind = "sink" => u.done <= Chunks[u.batch]
  BY <1>1, <1>2
<1> QED
  BY <1>2, <1>3, <1>4, ReplaceType DEF TasksType

\* ... and for one that moves t and says how far it has got.
LEMMA DoneType ==
    ASSUME IInv, NEW t \in tasks,
           NEW place \in {"queued", "run", "send", "retried", "ack"}, NEW i \in Nat,
           t.kind = "sink" => i <= Chunks[t.batch],
           tasks' = (tasks \ {t}) \cup {[t EXCEPT !.at = place, !.done = i]}
    PROVE  TasksType(tasks')
<1> PICK u : u = [t EXCEPT !.at = place, !.done = i]
  OBVIOUS
<1>1. t \in Tasks
  BY DEF IInv, TypeOK
<1>2. u \in Tasks /\ Key(u) = Key(t) /\ u.kind = t.kind /\ u.batch = t.batch /\ u.done = i
  BY <1>1 DEF Tasks, Key
<1>3. tasks' = (tasks \ {t}) \cup ({u} \cup {})
  OBVIOUS
<1>4. u.kind = "sink" => u.done <= Chunks[u.batch]
  BY <1>2
<1>5. AtMostOneNew({})
  BY DEF AtMostOneNew
<1> QED
  BY <1>2, <1>3, <1>4, <1>5, ReplaceType DEF TasksType

\* The old message and the new one after a retry.
Again(t, u, m) ==
    /\ u \in Tasks /\ u.kind = t.kind /\ u.batch = t.batch /\ u.done = t.done /\ u.at = "retried"
    /\ m \in Tasks /\ m.kind = t.kind /\ m.batch = t.batch /\ m.done = 0 /\ m.at = "queued"
    /\ tasks' = (tasks \ {t}) \cup {u, m}

\* A task that fails is sent again, or dropped.
LEMMA RetryFacts ==
    ASSUME IInv, NEW t \in tasks, Retry(t)
    PROVE  \/ dropped' = dropped /\ TasksType(tasks') /\ \E u, m : Again(t, u, m)
           \/ tasks' = tasks \ {t} /\ dropped' = dropped \cup {<<t.kind, t.batch>>}
<1>1. /\ t \in Tasks /\ t.batch \in Batches /\ t.kind \in Kinds
      /\ t.retries \in 0..MaxRetries /\ IsFiniteSet(tasks)
  BY TaskFields DEF IInv
<1>2. CASE /\ t.retries < MaxRetries
           /\ Replace(t, {[t EXCEPT !.at = "retried"], Message(t.kind, t.batch, t.retries + 1)})
           /\ UNCHANGED dropped
  <2>1. PICK n \in 0..MaxRetries : n = t.retries + 1
    BY <1>1, <1>2, PipelineAssumption
  <2>2. PICK u : u = [t EXCEPT !.at = "retried"]
    OBVIOUS
  <2>3. PICK m : m = Message(t.kind, t.batch, n)
    OBVIOUS
  <2>4. tasks' = (tasks \ {t}) \cup {u, m} /\ dropped' = dropped
    BY <1>2, <2>1, <2>2, <2>3 DEF Replace
  <2>5. u \in Tasks /\ u.kind = t.kind /\ u.batch = t.batch /\ u.done = t.done /\ u.at = "retried"
    BY <1>1, <2>2 DEF Tasks
  <2>6. m \in Tasks /\ m.kind = t.kind /\ m.batch = t.batch /\ m.done = 0 /\ m.at = "queued"
    BY <1>1, <2>3, MessageFacts
  <2>7. TasksType(tasks')
    <3>1. AtMostOneNew({m})
      BY <1>1, <2>3 DEF AtMostOneNew
    <3>2. tasks' = (tasks \ {t}) \cup ({[t EXCEPT !.at = "retried"]} \cup {m})
      BY <2>2, <2>4
    <3> QED
      BY <3>1, <3>2, PlaceType
  <2> QED
    BY <2>4, <2>5, <2>6, <2>7 DEF Again
<1>3. CASE tasks' = tasks \ {t} /\ dropped' = dropped \cup {<<t.kind, t.batch>>}
  BY <1>3
<1> QED
  BY <1>2, <1>3 DEF Retry

LEMMA RetryType ==
    ASSUME IInv, NEW t \in tasks, Retry(t)
    PROVE  TasksType(tasks') /\ dropped' \subseteq Kinds \X Batches
<1>1. t.batch \in Batches /\ t.kind \in Kinds /\ dropped \subseteq Kinds \X Batches
  BY TaskFields DEF IInv, TypeOK
<1>2. CASE dropped' = dropped /\ TasksType(tasks')
  BY <1>1, <1>2
<1>3. CASE tasks' = tasks \ {t} /\ dropped' = dropped \cup {<<t.kind, t.batch>>}
  BY <1>1, <1>3, RemoveType DEF TasksType
<1> QED
  BY <1>2, <1>3, RetryFacts

LEMMA AcceptType ==
    ASSUME IInv, NEW b \in Batches, Accept(b)
    PROVE  TasksType(tasks')
<1> DEFINE m == Message("enrich", b, 0)
<1>1. /\ m \in Tasks /\ m.kind = "enrich"
      /\ \A v \in tasks : Key(v) # Key(m)
  BY NewMessage DEF IInv, Kinds
<1>2. tasks' = tasks \cup {m}
  BY DEF Accept
<1> HIDE DEF m
<1>3. IsFiniteSet(tasks')
  BY <1>2, FS_AddElement DEF IInv
<1> QED
  BY <1>1, <1>2, <1>3 DEF TasksType, IInv, TypeOK

\* What a retry and a row inserted do to the history.
HistoryType ==
    /\ accepted \subseteq Batches
    /\ DOMAIN rows = Batches /\ \A b \in Batches : rows[b] \in [1..Chunks[b] -> Nat]
    /\ posted \in [Batches -> Nat]
    /\ dropped \subseteq Kinds \X Batches
    /\ spent \in [FaultKinds -> Nat]

LEMMA SufferType ==
    ASSUME TypeOK, NEW k \in FaultKinds, Suffer(k)
    PROVE  spent' \in [FaultKinds -> Nat]
BY DEF TypeOK, Suffer

\* The chunk that the sink inserts is one of the batch, and the first it has not passed.
LEMMA InsertFacts ==
    ASSUME IInv, NEW t \in tasks, SinkInserts(t)
    PROVE  /\ t.done \in Nat /\ t.done + 1 \in 1..Chunks[t.batch]
           /\ t.batch \in Batches /\ Chunks[t.batch] \in Nat
           /\ rows[t.batch] \in [1..Chunks[t.batch] -> Nat]
           /\ rows' = [rows EXCEPT ![t.batch] =
                          [rows[t.batch] EXCEPT ![t.done + 1] = rows[t.batch][t.done + 1] + 1]]
<1>1. /\ t.done \in Nat /\ t.batch \in Batches /\ Chunks[t.batch] \in Nat
      /\ rows[t.batch] \in [1..Chunks[t.batch] -> Nat]
  BY TaskFields, PipelineAssumption DEF IInv, TypeOK
<1>2. t.done < Chunks[t.batch]
  BY DEF IInv, Passed, SinkInserts
<1>3. rows' = [rows EXCEPT ![t.batch][t.done + 1] = @ + 1]
  BY DEF SinkInserts, NextChunk
<1> QED
  BY <1>1, <1>2, <1>3

\* One chunk counted up.
LEMMA CountedUp ==
    ASSUME NEW S, NEW f \in [S -> Nat], NEW k \in S, NEW g, g = [f EXCEPT ![k] = f[k] + 1]
    PROVE  g \in [S -> Nat] /\ g[k] > 0 /\ \A i \in S : g[i] >= f[i]
<1>1. g \in [S -> Nat] /\ g[k] = f[k] + 1
  OBVIOUS
<1>2. ASSUME NEW i \in S PROVE g[i] >= f[i]
  BY <1>1, f[i] \in Nat, f[i] + 1 >= f[i], i = k \/ g[i] = f[i]
<1>3. f[k] \in Nat
  OBVIOUS
<1> QED
  BY <1>1, <1>2, <1>3

\* The copies of each chunk, after an insertion.
LEMMA InsertedRows ==
    ASSUME IInv, NEW t \in tasks, SinkInserts(t)
    PROVE  /\ DOMAIN rows' = Batches
           /\ \A b \in Batches :
                 /\ rows'[b] \in [1..Chunks[b] -> Nat]
                 /\ \A i \in 1..Chunks[b] :
                       /\ rows'[b][i] >= rows[b][i]
                       /\ b # t.batch => rows'[b][i] = rows[b][i]
           /\ rows'[t.batch][t.done + 1] > 0
<1> DEFINE c == t.batch
           n == t.done + 1
           new == [rows[c] EXCEPT ![n] = rows[c][n] + 1]
<1>1. /\ c \in Batches /\ n \in 1..Chunks[c] /\ rows[c] \in [1..Chunks[c] -> Nat]
      /\ rows' = [rows EXCEPT ![c] = new]
  BY InsertFacts
<1>2. DOMAIN rows = Batches /\ \A b \in Batches : rows[b] \in [1..Chunks[b] -> Nat]
  BY DEF IInv, TypeOK
<1>3. /\ new \in [1..Chunks[c] -> Nat] /\ new[n] > 0
      /\ \A i \in 1..Chunks[c] : new[i] >= rows[c][i]
  <2> DEFINE S == 1..Chunks[c]
             f == rows[c]
  <2>1. n \in S /\ f \in [S -> Nat] /\ new = [f EXCEPT ![n] = f[n] + 1]
    BY <1>1
  <2> HIDE DEF S, f, new, n
  <2>2. new \in [S -> Nat] /\ new[n] > 0 /\ \A i \in S : new[i] >= f[i]
    BY <2>1, CountedUp
  <2> QED
    BY <2>2 DEF S, f
<1>4. DOMAIN rows' = Batches /\ rows'[c] = new /\ \A b \in Batches : b # c => rows'[b] = rows[b]
  BY <1>1, <1>2
<1> HIDE DEF new, n, c
<1>5. ASSUME NEW b \in Batches
      PROVE  /\ rows'[b] \in [1..Chunks[b] -> Nat]
             /\ \A i \in 1..Chunks[b] : /\ rows'[b][i] >= rows[b][i]
                                        /\ b # c => rows'[b][i] = rows[b][i]
  <2>1. CASE b = c
    BY <1>3, <1>4, <2>1
  <2>2. CASE b # c
    <3>1. rows'[b] = rows[b] /\ rows[b] \in [1..Chunks[b] -> Nat]
      BY <1>2, <1>4, <2>2
    <3>2. \A i \in 1..Chunks[b] : rows[b][i] \in Nat
      BY <3>1
    <3>3. \A k \in Nat : k >= k
      OBVIOUS
    <3> QED
      BY <3>1, <3>2, <3>3
  <2> QED
    BY <2>1, <2>2
<1> QED
  BY <1>1, <1>3, <1>4, <1>5 DEF c, n

\* The types of the messages after a step.
LEMMA MessagesStep ==
    ASSUME IInv, Next
    PROVE  TasksType(tasks')
<1>1. ASSUME NEW b \in Batches, Accept(b) PROVE TasksType(tasks')
  BY <1>1, AcceptType
<1>2. ASSUME NEW t \in tasks, Work(t) PROVE TasksType(tasks')
  <2>1. /\ t.kind \in Kinds /\ t.batch \in Batches /\ t.done \in Nat
        /\ (t.kind = "sink" => t.done <= Chunks[t.batch])
    BY TaskFields DEF IInv
  <2>2. CASE Fetch(t)
    <3>1. tasks' = (tasks \ {t}) \cup ({[t EXCEPT !.at = "run"]} \cup {})
      BY <2>2 DEF Fetch, Replace
    <3> QED
      BY <3>1, PlaceType DEF AtMostOneNew
  <2>3. CASE EnrichAlerts(t)
    <3> DEFINE N == {u \in {Message("alert", t.batch, 0)} : t.batch \in Critical}
    <3>1. tasks' = (tasks \ {t}) \cup ({[t EXCEPT !.at = "send"]} \cup N)
      BY <2>3 DEF EnrichAlerts, Replace
    <3>2. AtMostOneNew(N)
      BY <2>1, AtMostFirst DEF Kinds
    <3> HIDE DEF N
    <3> QED
      BY <3>1, <3>2, PlaceType
  <2>4. CASE EnrichSends(t)
    <3> DEFINE N == {Message("sink", t.batch, 0)}
    <3>1. tasks' = (tasks \ {t}) \cup ({[t EXCEPT !.at = "ack"]} \cup N)
      BY <2>4 DEF EnrichSends, Replace
    <3>2. AtMostOneNew(N)
      BY <2>1, AtMostFirst DEF Kinds
    <3> HIDE DEF N
    <3> QED
      BY <3>1, <3>2, PlaceType
  <2>5. CASE SinkInserts(t)
    <3> DEFINE place == IF t.done + 1 = Chunks[t.batch] THEN "ack" ELSE "run"
    <3>0. /\ t.done \in Nat /\ Chunks[t.batch] \in Nat
          /\ t.done + 1 \in 1..Chunks[t.batch]
      BY <2>5, InsertFacts
    <3>1. t.done + 1 \in Nat /\ t.done + 1 <= Chunks[t.batch]
      BY <3>0
    <3>2. tasks' = (tasks \ {t}) \cup {[t EXCEPT !.done = t.done + 1, !.at = place]}
      BY <2>5 DEF SinkInserts, Replace, NextChunk
    <3>3. [t EXCEPT !.done = t.done + 1, !.at = place] = [t EXCEPT !.at = place, !.done = t.done + 1]
      BY TaskFields DEF IInv, Tasks
    <3>4. place \in {"queued", "run", "send", "retried", "ack"}
      OBVIOUS
    <3> HIDE DEF place
    <3> QED
      BY <3>1, <3>2, <3>3, <3>4, DoneType
  <2>6. CASE AlertPosts(t)
    <3>1. tasks' = (tasks \ {t}) \cup ({[t EXCEPT !.at = "ack"]} \cup {})
      BY <2>6 DEF AlertPosts, Replace
    <3> QED
      BY <3>1, PlaceType DEF AtMostOneNew
  <2>7. CASE Ack(t)
    BY <2>7, RemoveType DEF Ack, TasksType
  <2> QED
    BY <1>2, <2>2, <2>3, <2>4, <2>5, <2>6, <2>7 DEF Work
<1>3. ASSUME NEW t \in tasks, TaskFails(t) \/ AlertAnswerLost(t) PROVE TasksType(tasks')
  BY <1>3, RetryType DEF TaskFails, AlertAnswerLost
<1>4. ASSUME NEW t \in tasks, WorkerLost(t) PROVE TasksType(tasks')
  <2>1. tasks' = (tasks \ {t}) \cup {[t EXCEPT !.at = "queued", !.done = 0]}
    BY <1>4 DEF WorkerLost, Replace
  <2>2. 0 <= Chunks[t.batch]
    BY TaskFields, PipelineAssumption DEF IInv
  <2> QED
    BY <2>1, <2>2, DoneType
<1>5. ASSUME NEW kind \in Kinds, Evict(kind) PROVE TasksType(tasks')
  BY <1>5, RemoveType DEF Evict, TasksType
<1> QED
  BY <1>1, <1>2, <1>3, <1>4, <1>5 DEF Next

\* The types of the rest after a step.
LEMMA HistoryStep ==
    ASSUME IInv, Next
    PROVE  HistoryType'
<1> USE DEF HistoryType
<1>0. TypeOK
  BY DEF IInv
<1>1. ASSUME NEW b \in Batches, Accept(b) PROVE HistoryType'
  BY <1>0, <1>1 DEF Accept, TypeOK
<1>2. ASSUME NEW t \in tasks, Work(t) PROVE HistoryType'
  <2>1. CASE SinkInserts(t)
    BY <1>0, <2>1, InsertedRows DEF SinkInserts, TypeOK
  <2>2. CASE AlertPosts(t)
    BY <1>0, <2>2, TaskFields DEF AlertPosts, TypeOK
  <2>3. CASE Fetch(t) \/ EnrichAlerts(t) \/ EnrichSends(t) \/ Ack(t)
    BY <1>0, <2>3 DEF Fetch, EnrichAlerts, EnrichSends, Ack, TypeOK
  <2> QED
    BY <1>2, <2>1, <2>2, <2>3 DEF Work
<1>3. ASSUME NEW t \in tasks, TaskFails(t) PROVE HistoryType'
  BY <1>0, <1>3, SufferType, RetryType DEF TaskFails, TypeOK, FaultKinds
<1>4. ASSUME NEW t \in tasks, AlertAnswerLost(t) PROVE HistoryType'
  BY <1>0, <1>4, SufferType, RetryType, TaskFields DEF AlertAnswerLost, TypeOK, FaultKinds
<1>5. ASSUME NEW t \in tasks, WorkerLost(t) PROVE HistoryType'
  BY <1>0, <1>5, SufferType DEF WorkerLost, TypeOK, FaultKinds
<1>6. ASSUME NEW kind \in Kinds, Evict(kind) PROVE HistoryType'
  BY <1>0, <1>6, SufferType, TaskFields DEF Evict, TypeOK, FaultKinds
<1> QED
  BY <1>1, <1>2, <1>3, <1>4, <1>5, <1>6 DEF Next

LEMMA TypeStep ==
    ASSUME IInv, Next
    PROVE  IsFiniteSet(tasks') /\ TypeOK'
BY MessagesStep, HistoryStep DEF TypeOK, TasksType, HistoryType

-----------------------------------------------------------------------------
(* What lasts.                                                             *)

\* Rows, alerts and the record of what was dropped stay.
LEMMA Lasting ==
    ASSUME IInv, Next
    PROVE  /\ dropped \subseteq dropped'
           /\ \A b \in Batches : /\ Persisted(b) => Persisted(b)'
                                 /\ posted[b] > 0 => posted'[b] > 0
                                 /\ \A i \in 1..Chunks[b] : rows[b][i] > 0 => rows'[b][i] > 0
<1>0. /\ TypeOK /\ \A b \in Batches : posted[b] \in Nat
      /\ \A b \in Batches : \A i \in 1..Chunks[b] : rows[b][i] \in Nat
  BY DEF IInv, TypeOK
<1>1. dropped \subseteq dropped'
  <2>1. ASSUME NEW t \in tasks, Retry(t) PROVE dropped \subseteq dropped'
    BY <2>1 DEF Retry
  <2> QED
    BY <2>1 DEF Next, Work, Accept, Fetch, EnrichAlerts, EnrichSends, SinkInserts, AlertPosts,
                Ack, TaskFails, AlertAnswerLost, WorkerLost, Evict
<1>2. ASSUME NEW b \in Batches, NEW i \in 1..Chunks[b], rows[b][i] > 0 PROVE rows'[b][i] > 0
  <2>1. ASSUME NEW t \in tasks, SinkInserts(t) PROVE rows'[b][i] > 0
    <3>1. rows'[b][i] >= rows[b][i] /\ rows'[b][i] \in Nat /\ rows[b][i] \in Nat
      BY <1>0, <2>1, InsertedRows
    <3> QED
      BY <1>2, <3>1
  <2>2. (\E t \in tasks : SinkInserts(t)) \/ rows' = rows
    BY DEF Next, Work, Accept, Fetch, EnrichAlerts, EnrichSends, AlertPosts,
           Ack, TaskFails, AlertAnswerLost, WorkerLost, Evict
  <2> QED
    BY <1>2, <2>1, <2>2
<1>3. ASSUME NEW b \in Batches, posted[b] > 0 PROVE posted'[b] > 0
  <2>1. ASSUME NEW t \in tasks, posted' = [posted EXCEPT ![t.batch] = @ + 1]
        PROVE  posted'[b] > 0
    <3>1. posted'[b] = posted[b] \/ posted'[b] = posted[b] + 1
      BY <1>0, <2>1 DEF TypeOK
    <3> QED
      BY <1>0, <1>3, <3>1
  <2>2. (\E t \in tasks : posted' = [posted EXCEPT ![t.batch] = @ + 1]) \/ posted' = posted
    BY DEF Next, Work, Accept, Fetch, EnrichAlerts, EnrichSends, SinkInserts, AlertPosts,
           Ack, TaskFails, AlertAnswerLost, WorkerLost, Evict
  <2> QED
    BY <1>3, <2>1, <2>2
<1> QED
  BY <1>1, <1>2, <1>3 DEF Persisted

\* A message ends only by being sent again, acknowledged or recorded as dropped.
LEMMA Successor ==
    ASSUME IInv, Next, NEW t \in tasks, t.at # "retried"
    PROVE  LiveHeir(t)' \/ <<t.kind, t.batch>> \in dropped' \/ t.at = "ack"
<1> DEFINE Goal == (\E u \in tasks' : u.kind = t.kind /\ u.batch = t.batch /\ u.at # "retried")
                      \/ <<t.kind, t.batch>> \in dropped' \/ t.at = "ack"
<1>0. tasks \subseteq Tasks
  BY DEF IInv, TypeOK
<1>1. ASSUME t \in tasks' PROVE Goal
  BY <1>1
<1>2. ASSUME NEW s \in tasks, Work(s), t \notin tasks' PROVE Goal
  <2>0. s \in Tasks
    BY <1>0
  <2>1. CASE Fetch(s)
    <3> PICK v : v = [s EXCEPT !.at = "run"]
      OBVIOUS
    <3>1. v.kind = s.kind /\ v.batch = s.batch /\ v.at = "run"
      BY <2>0 DEF Tasks
    <3> QED
      BY <1>2, <2>1, <3>1 DEF Fetch, Replace
  <2>2. CASE EnrichAlerts(s)
    <3> PICK v : v = [s EXCEPT !.at = "send"]
      OBVIOUS
    <3>1. v.kind = s.kind /\ v.batch = s.batch /\ v.at = "send"
      BY <2>0 DEF Tasks
    <3> QED
      BY <1>2, <2>2, <3>1 DEF EnrichAlerts, Replace
  <2>3. CASE EnrichSends(s) \/ AlertPosts(s)
    <3> PICK v : v = [s EXCEPT !.at = "ack"]
      OBVIOUS
    <3>1. v.kind = s.kind /\ v.batch = s.batch /\ v.at = "ack"
      BY <2>0 DEF Tasks
    <3> QED
      BY <1>2, <2>3, <3>1 DEF EnrichSends, AlertPosts, Replace
  <2>4. CASE SinkInserts(s)
    <3> PICK v : v = [s EXCEPT !.done = NextChunk(s),
                               !.at = IF NextChunk(s) = Chunks[s.batch] THEN "ack" ELSE "run"]
      OBVIOUS
    <3>1. v.kind = s.kind /\ v.batch = s.batch /\ v.at \in {"ack", "run"}
      BY <2>0 DEF Tasks
    <3>2. tasks' = (tasks \ {s}) \cup {v}
      BY <2>4 DEF SinkInserts, Replace
    <3> QED
      BY <1>2, <3>1, <3>2
  <2>5. CASE Ack(s)
    BY <1>2, <2>5 DEF Ack
  <2> QED
    BY <1>2, <2>1, <2>2, <2>3, <2>4, <2>5 DEF Work
<1>3. ASSUME NEW s \in tasks, Retry(s), t \notin tasks' PROVE Goal
  BY <1>3, RetryFacts DEF Again
<1>4. ASSUME NEW s \in tasks, WorkerLost(s), t \notin tasks' PROVE Goal
  <2> PICK v : v = [s EXCEPT !.at = "queued", !.done = 0]
    OBVIOUS
  <2>1. s \in Tasks
    BY <1>0
  <2>2. v.kind = s.kind /\ v.batch = s.batch /\ v.at = "queued"
    BY <2>1 DEF Tasks
  <2> QED
    BY <1>4, <2>2 DEF WorkerLost, Replace
<1>5. ASSUME NEW kind \in Kinds, Evict(kind), t \notin tasks' PROVE Goal
  BY <1>5 DEF Evict
<1>6. ASSUME NEW b \in Batches, Accept(b) PROVE t \in tasks'
  BY <1>6 DEF Accept
<1>7. Goal
  BY <1>1, <1>2, <1>3, <1>4, <1>5, <1>6 DEF Next, TaskFails, AlertAnswerLost
<1> QED
  BY <1>7 DEF LiveHeir

\* What a message stands for goes on in another one, is done, or is dropped.
LEMMA Continues ==
    ASSUME IInv, Next, NEW t \in tasks
    PROVE  LiveHeir(t)' \/ <<t.kind, t.batch>> \in dropped' \/ Finished(t)
<1>1. CASE t.at # "retried"
  BY <1>1, Successor DEF IInv, Done
<1>2. CASE t.at = "retried"
  <2>1. CASE Finished(t)
    BY <2>1
  <2>2. CASE <<t.kind, t.batch>> \in dropped
    BY <2>2, Lasting
  <2>3. ASSUME NEW u \in tasks, u.kind = t.kind, u.batch = t.batch, u.at # "retried"
        PROVE  LiveHeir(t)' \/ <<t.kind, t.batch>> \in dropped' \/ Finished(t)
    <3>1. LiveHeir(u)' \/ <<u.kind, u.batch>> \in dropped' \/ Finished(u)
      BY <2>3, Successor DEF IInv, Done
    <3> QED
      BY <2>3, <3>1 DEF LiveHeir, Finished
  <2> QED
    BY <1>2, <2>1, <2>2, <2>3 DEF IInv, Done, LiveHeir
<1> QED
  BY <1>1, <1>2

\* A batch that the sink has, has stored or has dropped, stays so.
LEMMA SentStays ==
    ASSUME IInv, Next, NEW b \in Batches, Sent(b)
    PROVE  Sent(b)'
<1>1. CASE Persisted(b)
  BY <1>1, Lasting DEF Sent
<1>2. CASE Dropped({"sink"}, b)
  BY <1>2, Lasting DEF Sent, Dropped
<1>3. ASSUME NEW t \in tasks, t.kind = "sink", t.batch = b PROVE Sent(b)'
  <2>1. CASE Finished(t)
    <3>1. Persisted(b)
      BY <1>3, <2>1 DEF Finished
    <3> QED
      BY <3>1, Lasting DEF Sent
  <2>2. CASE LiveHeir(t)' \/ <<"sink", b>> \in dropped'
    BY <1>3, <2>2 DEF LiveHeir, Sent, Dropped
  <2> QED
    BY <1>3, <2>1, <2>2, Continues
<1> QED
  BY <1>1, <1>2, <1>3 DEF Sent

\* An alert that is on its way, posted or dropped, stays so.
LEMMA AlertedStays ==
    ASSUME IInv, Next, NEW b \in Batches, Alerted(b)
    PROVE  Alerted(b)'
<1>1. CASE posted[b] > 0
  BY <1>1, Lasting DEF Alerted
<1>2. CASE Dropped({"alert"}, b)
  BY <1>2, Lasting DEF Alerted, Dropped
<1>3. ASSUME NEW t \in tasks, t.kind = "alert", t.batch = b PROVE Alerted(b)'
  <2>1. CASE Finished(t)
    <3>1. posted[b] > 0
      BY <1>3, <2>1 DEF Finished
    <3> QED
      BY <3>1, Lasting DEF Alerted
  <2>2. CASE LiveHeir(t)' \/ <<"alert", b>> \in dropped'
    BY <1>3, <2>2 DEF LiveHeir, Alerted, Dropped
  <2> QED
    BY <1>3, <2>1, <2>2, Continues
<1> QED
  BY <1>1, <1>2, <1>3 DEF Alerted

-----------------------------------------------------------------------------
(* What the messages say of the rest.                                      *)

Good(t) == Passed(t) /\ Done(t) /\ AlertFirst(t)

\* A message that is not touched.
LEMMA OldGood ==
    ASSUME IInv, Next, NEW t \in tasks
    PROVE  Good(t)'
<1>0. /\ t.batch \in Batches /\ Passed(t) /\ Done(t) /\ AlertFirst(t)
      /\ t.done \in Nat /\ Chunks[t.batch] \in Nat
      /\ (t.kind = "sink" => t.done <= Chunks[t.batch])
  BY TaskFields, PipelineAssumption DEF IInv
<1>1. Passed(t)'
  BY <1>0, Lasting DEF Passed
<1>2. Done(t)'
  <2>1. Finished(t) => Finished(t)'
    BY <1>0, Lasting, SentStays DEF Finished
  <2> QED
    BY <1>0, <2>1, Continues DEF Done
<1>3. AlertFirst(t)'
  BY <1>0, AlertedStays DEF AlertFirst
<1> QED
  BY <1>1, <1>2, <1>3 DEF Good

\* One that waits from the start, for the first time or again.
LEMMA QueuedGood ==
    ASSUME IInv, Next, NEW u, u.batch \in Batches, u.at = "queued", u.done = 0,
           u.kind = "sink" /\ u.batch \in Critical => Alerted(u.batch)'
    PROVE  Good(u)'
<1>1. Chunks[u.batch] \in Nat \ {0}
  BY PipelineAssumption
<1>2. Passed(u)' /\ Done(u)' /\ AlertFirst(u)'
  BY <1>1 DEF Passed, Done, AlertFirst
<1> QED
  BY <1>2 DEF Good

\* One that comes back.
LEMMA BackGood ==
    ASSUME IInv, Next, NEW t \in tasks, NEW u, u.batch = t.batch, u.kind = t.kind,
           u.at = "queued", u.done = 0
    PROVE  Good(u)'
<1>1. t.batch \in Batches /\ AlertFirst(t)
  BY TaskFields DEF IInv
<1>2. t.kind = "sink" /\ t.batch \in Critical => Alerted(t.batch)'
  BY <1>1, AlertedStays DEF AlertFirst
<1> QED
  BY <1>1, <1>2, QueuedGood

\* A task that works.
LEMMA WorkGood ==
    ASSUME IInv, Next, NEW t \in tasks, Work(t), NEW u \in tasks'
    PROVE  Good(u)'
<1>0. /\ t \in Tasks /\ t.batch \in Batches /\ t.kind \in Kinds /\ t.done \in Nat
      /\ Passed(t) /\ Done(t) /\ AlertFirst(t)
  BY TaskFields DEF IInv
<1>1. ASSUME u \in tasks PROVE Good(u)'
  BY <1>1, OldGood
<1>2. CASE Fetch(t)
  <2> PICK v : v = [t EXCEPT !.at = "run"]
    OBVIOUS
  <2>1. v.kind = t.kind /\ v.batch = t.batch /\ v.at = "run" /\ v.done = t.done
    BY <1>0 DEF Tasks
  <2>2. Good(v)'
    <3>1. Passed(t)' /\ AlertFirst(t)'
      BY OldGood DEF Good
    <3>2. Passed(v)'
      BY <1>0, <1>2, <2>1, <3>1 DEF Passed, Fetch
    <3>3. Done(v)' /\ AlertFirst(v)'
      BY <2>1, <3>1 DEF Done, AlertFirst
    <3> QED
      BY <3>2, <3>3 DEF Good
  <2> QED
    BY <1>1, <1>2, <2>2 DEF Fetch, Replace
<1>3. CASE EnrichAlerts(t)
  <2> PICK v : v = [t EXCEPT !.at = "send"]
    OBVIOUS
  <2> PICK m : m = Message("alert", t.batch, 0)
    OBVIOUS
  <2>1. v.kind = "enrich" /\ v.batch = t.batch /\ v.at = "send"
    BY <1>0, <1>3 DEF Tasks, EnrichAlerts
  <2>2. m.kind = "alert" /\ m.batch = t.batch /\ m.at = "queued" /\ m.done = 0
    BY <1>0, NewMessage DEF IInv, Kinds
  <2>3. tasks' = (tasks \ {t}) \cup ({v} \cup {w \in {m} : t.batch \in Critical})
    BY <1>3 DEF EnrichAlerts, Replace
  <2>4. t.batch \in Critical => Alerted(t.batch)'
    BY <2>2, <2>3 DEF Alerted
  <2>5. Good(v)'
    BY <2>1, <2>4 DEF Good, Passed, Done, AlertFirst
  <2>6. Good(m)'
    BY <1>0, <2>2, QueuedGood
  <2> QED
    BY <1>1, <2>3, <2>5, <2>6
<1>4. CASE EnrichSends(t)
  <2> PICK v : v = [t EXCEPT !.at = "ack"]
    OBVIOUS
  <2> PICK m : m = Message("sink", t.batch, 0)
    OBVIOUS
  <2>1. v.kind = "enrich" /\ v.batch = t.batch /\ v.at = "ack" /\ t.at = "send"
    BY <1>0, <1>4 DEF Tasks, EnrichSends
  <2>2. m.kind = "sink" /\ m.batch = t.batch /\ m.at = "queued" /\ m.done = 0
    BY <1>0, NewMessage DEF IInv, Kinds
  <2>3. tasks' = (tasks \ {t}) \cup {v, m}
    BY <1>4 DEF EnrichSends, Replace
  <2>4. t.batch \in Critical => Alerted(t.batch)'
    BY <1>0, <2>1, AlertedStays DEF AlertFirst
  <2>5. Sent(t.batch)'
    BY <2>2, <2>3 DEF Sent
  <2>6. Good(v)'
    BY <2>1, <2>4, <2>5 DEF Good, Passed, Done, Finished, AlertFirst
  <2>7. Good(m)'
    BY <1>0, <2>2, <2>4, QueuedGood
  <2> QED
    BY <1>1, <2>3, <2>6, <2>7
<1>5. CASE SinkInserts(t)
  <2> DEFINE n == t.done + 1
             place == IF n = Chunks[t.batch] THEN "ack" ELSE "run"
  <2> PICK v : v = [t EXCEPT !.done = n, !.at = place]
    OBVIOUS
  <2>1. v.kind = "sink" /\ v.batch = t.batch /\ v.at = place /\ v.done = n
    BY <1>0, <1>5 DEF Tasks, SinkInserts
  <2>2. tasks' = (tasks \ {t}) \cup {v}
    BY <1>5 DEF SinkInserts, Replace, NextChunk
  <2>3. n \in 1..Chunks[t.batch] /\ Chunks[t.batch] \in Nat /\ rows'[t.batch][n] > 0
    BY <1>5, InsertFacts, InsertedRows
  <2>4. \A i \in 1..n : rows'[t.batch][i] > 0
    <3>1. t.kind = "sink"
      BY <1>5 DEF SinkInserts
    <3>2. \A i \in 1..t.done : rows[t.batch][i] > 0
      BY <1>0, <3>1 DEF Passed
    <3>3. ASSUME NEW i \in 1..n PROVE i \in 1..Chunks[t.batch] /\ (i = n \/ i \in 1..t.done)
      BY <1>0, <2>3
    <3> QED
      BY <1>0, <2>3, <3>2, <3>3, Lasting
  <2> HIDE DEF n
  <2>5. Passed(v)'
    BY <2>1, <2>3, <2>4 DEF Passed
  <2>6. Done(v)'
    BY <2>1, <2>3, <2>4 DEF Done, Finished, Persisted
  <2>7. AlertFirst(v)'
    <3>1. t.batch \in Critical => Alerted(t.batch)'
      BY <1>0, <1>5, AlertedStays DEF AlertFirst, SinkInserts
    <3> QED
      BY <2>1, <3>1 DEF AlertFirst
  <2> QED
    BY <1>1, <2>2, <2>5, <2>6, <2>7 DEF Good
<1>6. CASE AlertPosts(t)
  <2> PICK v : v = [t EXCEPT !.at = "ack"]
    OBVIOUS
  <2>1. v.kind = "alert" /\ v.batch = t.batch /\ v.at = "ack"
    BY <1>0, <1>6 DEF Tasks, AlertPosts
  <2>2. posted'[t.batch] > 0
    BY <1>0, <1>6 DEF AlertPosts, IInv, TypeOK
  <2>3. Good(v)'
    BY <2>1, <2>2 DEF Good, Passed, Done, Finished, AlertFirst, Alerted
  <2> QED
    BY <1>1, <1>6, <2>3 DEF AlertPosts, Replace
<1>7. CASE Ack(t)
  BY <1>1, <1>7 DEF Ack
<1> QED
  BY <1>2, <1>3, <1>4, <1>5, <1>6, <1>7 DEF Work

LEMMA RetryGood ==
    ASSUME IInv, Next, NEW t \in tasks, Retry(t), NEW u \in tasks'
    PROVE  Good(u)'
<1>1. ASSUME u \in tasks PROVE Good(u)'
  BY <1>1, OldGood
<1>2. ASSUME NEW v, NEW m, Again(t, v, m) PROVE Good(v)' /\ Good(m)'
  <2>1. /\ v.kind = t.kind /\ v.batch = t.batch /\ v.done = t.done /\ v.at = "retried"
        /\ m.kind = t.kind /\ m.batch = t.batch /\ m.done = 0 /\ m.at = "queued"
        /\ m \in tasks'
    BY <1>2 DEF Again
  <2>2. Good(m)'
    BY <2>1, BackGood
  <2>3. Passed(v)' /\ AlertFirst(v)'
    <3>1. Passed(t)' /\ AlertFirst(t)'
      BY OldGood DEF Good
    <3> QED
      BY <2>1, <3>1 DEF Passed, AlertFirst
  <2>4. Done(v)'
    BY <2>1 DEF Done, LiveHeir
  <2> QED
    BY <2>2, <2>3, <2>4 DEF Good
<1> QED
  BY <1>1, <1>2, RetryFacts DEF Again

\* After any step all messages are right about the rest.
LEMMA GoodStep ==
    ASSUME IInv, Next, NEW u \in tasks'
    PROVE  Good(u)'
<1>1. ASSUME NEW b \in Batches, Accept(b) PROVE Good(u)'
  <2> DEFINE m == Message("enrich", b, 0)
  <2>1. m.kind = "enrich" /\ m.batch = b /\ m.at = "queued" /\ m.done = 0
    BY NewMessage DEF IInv, Kinds
  <2>2. u \in tasks \/ u = m
    BY <1>1 DEF Accept
  <2> HIDE DEF m
  <2> QED
    BY <2>1, <2>2, OldGood, QueuedGood
<1>2. ASSUME NEW t \in tasks, WorkerLost(t) PROVE Good(u)'
  <2> PICK v : v = [t EXCEPT !.at = "queued", !.done = 0]
    OBVIOUS
  <2>1. t \in Tasks
    BY DEF IInv, TypeOK
  <2>2. v.kind = t.kind /\ v.batch = t.batch /\ v.at = "queued" /\ v.done = 0
    BY <2>1 DEF Tasks
  <2>3. u \in tasks \/ u = v
    BY <1>2 DEF WorkerLost, Replace
  <2> QED
    BY <2>2, <2>3, OldGood, BackGood
<1>3. ASSUME NEW kind \in Kinds, Evict(kind) PROVE Good(u)'
  BY <1>3, OldGood DEF Evict
<1> QED
  BY <1>1, <1>2, <1>3, WorkGood, RetryGood DEF Next, TaskFails, AlertAnswerLost

-----------------------------------------------------------------------------
(* The safety properties.                                                  *)

\* What stands for a batch is passed on from message to message.
LEMMA BehindStep ==
    ASSUME IInv, Next
    PROVE  NothingLeftBehind'
<1> SUFFICES ASSUME NEW b \in accepted'
             PROVE  Carried(b)' \/ Persisted(b)' \/ Dropped({"enrich", "sink"}, b)'
  BY DEF NothingLeftBehind
<1>1. b \in Batches
  BY TypeStep DEF TypeOK
<1>2. CASE b \notin accepted
  <2>1. Accept(b)
    BY <1>2 DEF Next, Accept, Work, Fetch, EnrichAlerts, EnrichSends, SinkInserts, AlertPosts,
                Ack, TaskFails, AlertAnswerLost, WorkerLost, Evict
  <2>2. /\ Message("enrich", b, 0).kind = "enrich" /\ Message("enrich", b, 0).batch = b
        /\ Message("enrich", b, 0) \in tasks'
    BY <1>1, <2>1, NewMessage DEF Accept, IInv, Kinds
  <2> QED
    BY <2>2 DEF Carried
<1>3. CASE b \in accepted
  <2>1. CASE Persisted(b)
    BY <1>1, <2>1, Lasting
  <2>2. CASE Dropped({"enrich", "sink"}, b)
    BY <2>2, Lasting DEF Dropped
  <2>3. ASSUME Sent(b) PROVE Carried(b)' \/ Persisted(b)' \/ Dropped({"enrich", "sink"}, b)'
    BY <1>1, <2>3, SentStays DEF Sent, Carried, Dropped
  <2>4. ASSUME NEW t \in tasks, t.batch = b, t.kind # "alert"
        PROVE  Carried(b)' \/ Persisted(b)' \/ Dropped({"enrich", "sink"}, b)'
    <3>1. t.kind \in {"enrich", "sink"}
      BY <2>4, TaskFields DEF IInv, Kinds
    <3>2. CASE Finished(t)
      <4>1. Sent(b)
        BY <2>4, <3>1, <3>2 DEF Finished, Sent
      <4> QED
        BY <2>3, <4>1
    <3>3. CASE LiveHeir(t)'
      BY <2>4, <3>3 DEF LiveHeir, Carried
    <3>4. CASE <<t.kind, t.batch>> \in dropped'
      BY <2>4, <3>1, <3>4 DEF Dropped
    <3> QED
      BY <3>2, <3>3, <3>4, Continues
  <2> QED
    BY <1>3, <2>1, <2>2, <2>4 DEF IInv, NothingLeftBehind, Carried
<1> QED
  BY <1>2, <1>3

\* Only the sink writes rows, and it has its message after the alert.
LEMMA AlertStep ==
    ASSUME IInv, Next
    PROVE  AlertBeforeRows'
<1> SUFFICES ASSUME NEW b \in Critical, NEW i \in 1..Chunks[b], rows'[b][i] > 0
             PROVE  Alerted(b)'
  BY DEF AlertBeforeRows
<1>1. b \in Batches
  BY PipelineAssumption
<1>2. SUFFICES Alerted(b)
  BY <1>1, AlertedStays
<1>3. ASSUME NEW t \in tasks, SinkInserts(t) PROVE Alerted(b)
  <2>1. CASE t.batch = b
    BY <1>3, <2>1 DEF IInv, AlertFirst, SinkInserts
  <2>2. CASE t.batch # b
    <3>1. rows'[b][i] = rows[b][i]
      BY <1>1, <1>3, <2>2, InsertedRows
    <3> QED
      BY <3>1 DEF IInv, AlertBeforeRows
  <2> QED
    BY <2>1, <2>2
<1>4. CASE rows' = rows
  BY <1>4 DEF IInv, AlertBeforeRows
<1>5. (\E t \in tasks : SinkInserts(t)) \/ rows' = rows
  BY DEF Next, Work, Accept, Fetch, EnrichAlerts, EnrichSends, AlertPosts,
         Ack, TaskFails, AlertAnswerLost, WorkerLost, Evict
<1> QED
  BY <1>3, <1>4, <1>5

-----------------------------------------------------------------------------
(* Counting messages.                                                      *)

\* Messages of Q after t has been replaced by N, of which at most one is of Q.
AtMostOne(N, Q, w) == N \cap Q \subseteq {w}
Rest(R, T, t, N) == R \subseteq (T \ {t}) \cup N
Recount(R, T, t, N, Q) ==
    /\ Cardinality(R \cap Q) \in Nat /\ Cardinality(T \cap Q) \in Nat
    /\ Cardinality(R \cap Q) <= Cardinality(T \cap Q) + 1
    /\ N \cap Q = {} \/ t \in Q => Cardinality(R \cap Q) <= Cardinality(T \cap Q)
    /\ N \cap Q = {} /\ t \in Q => Cardinality(R \cap Q) + 1 <= Cardinality(T \cap Q)

LEMMA Replaced ==
    ASSUME NEW T, IsFiniteSet(T), NEW t \in T, NEW N, NEW Q, NEW w, AtMostOne(N, Q, w),
           NEW R, Rest(R, T, t, N)
    PROVE  Recount(R, T, t, N, Q)
<1> USE DEF AtMostOne, Rest, Recount
<1> DEFINE S == T \cap Q
           B == S \ {t}
<1>1. IsFiniteSet(S) /\ Cardinality(S) \in Nat
  BY FS_Intersection, FS_CardinalityType
<1>2. IsFiniteSet(B) /\ Cardinality(B) \in Nat
      /\ Cardinality(B) = IF t \in S THEN Cardinality(S) - 1 ELSE Cardinality(S)
  BY <1>1, FS_RemoveElement, FS_CardinalityType
<1>3. /\ IsFiniteSet(B \cup {w}) /\ Cardinality(B \cup {w}) \in Nat
      /\ Cardinality(B \cup {w}) = IF w \in B THEN Cardinality(B) ELSE Cardinality(B) + 1
  BY <1>2, FS_AddElement, FS_CardinalityType
<1>4. /\ R \cap Q \subseteq B \cup {w}
      /\ N \cap Q = {} => R \cap Q \subseteq B
  OBVIOUS
<1>5. t \in S <=> t \in Q
  OBVIOUS
<1> HIDE DEF B, S
<1>6. /\ Cardinality(R \cap Q) \in Nat /\ Cardinality(R \cap Q) <= Cardinality(B \cup {w})
      /\ N \cap Q = {} => Cardinality(R \cap Q) <= Cardinality(B)
  <2>1. IsFiniteSet(R \cap Q) /\ Cardinality(R \cap Q) <= Cardinality(B \cup {w})
    BY <1>3, <1>4, FS_Subset
  <2>2. N \cap Q = {} => Cardinality(R \cap Q) <= Cardinality(B)
    BY <1>2, <1>4, FS_Subset
  <2> QED
    BY <2>1, <2>2, FS_CardinalityType
<1>7. /\ Cardinality(R \cap Q) <= Cardinality(S) + 1
      /\ N \cap Q = {} \/ t \in Q => Cardinality(R \cap Q) <= Cardinality(S)
      /\ N \cap Q = {} /\ t \in Q => Cardinality(R \cap Q) + 1 <= Cardinality(S)
  BY <1>1, <1>2, <1>3, <1>5, <1>6
<1> QED
  BY <1>1, <1>6, <1>7 DEF S

\* Messages of Q when some have gone.
LEMMA Fewer ==
    ASSUME NEW T, IsFiniteSet(T), NEW Q, NEW R, R \subseteq T
    PROVE  /\ Cardinality(R \cap Q) \in Nat /\ Cardinality(T \cap Q) \in Nat
           /\ Cardinality(R \cap Q) <= Cardinality(T \cap Q)
<1>1. IsFiniteSet(T \cap Q) /\ R \cap Q \subseteq T \cap Q
  BY FS_Intersection
<1> QED
  BY <1>1, FS_Subset, FS_CardinalityType

\* The messages that are counted, as parts of all there can be.
Writers(b, i) ==
    {t \in Tasks :
        /\ t.batch = b
        /\ \/ t.kind = "enrich" /\ t.at \notin {"retried", "ack"}
           \/ t.kind = "sink" /\ t.at # "retried" /\ t.done < i}
Alerters(b) ==
    {t \in Tasks :
        /\ t.batch = b
        /\ \/ t.kind = "enrich" /\ t.at \in {"queued", "run"}
           \/ t.kind = "alert" /\ t.at \notin {"retried", "ack"}}
Inside(b, i, j) == {t \in Tasks : t.batch = b /\ t.kind = "sink" /\ i <= t.done /\ t.done < j}

LEMMA CountedParts ==
    ASSUME tasks \subseteq Tasks
    PROVE  \A b, i, j : /\ Awaiting(b, i) = tasks \cap Writers(b, i)
                        /\ AwaitingAlert(b) = tasks \cap Alerters(b)
                        /\ Between(b, i, j) = tasks \cap Inside(b, i, j)
BY DEF Awaiting, AwaitingAlert, Between, Writers, Alerters, Inside

\* Counts, with those parts.
Tally(T, r, p, n, b) ==
    /\ \A i \in 1..Chunks[b] : r[b][i] + Cardinality(T \cap Writers(b, i)) <= 1 + n
    /\ p[b] + Cardinality(T \cap Alerters(b)) <= 1 + n
    /\ \A i, j \in 1..Chunks[b] :
          i <= j => r[b][i] >= r[b][j] + Cardinality(T \cap Inside(b, i, j))

LEMMA CountsTally ==
    ASSUME tasks \subseteq Tasks, NEW b
    PROVE  Counts(b) <=> (b \notin accepted => Untouched(b)) /\ Tally(tasks, rows, posted, Faults, b)
BY CountedParts DEF Counts, Tally

\* What is counted are numbers.
LEMMA CountTypes ==
    ASSUME IInv, NEW b \in Batches
    PROVE  /\ IsFiniteSet(tasks) /\ tasks \subseteq Tasks /\ Faults \in Nat
           /\ posted[b] \in Nat /\ Chunks[b] \in Nat
           /\ \A i \in 1..Chunks[b] : rows[b][i] \in Nat
           /\ Tally(tasks, rows, posted, Faults, b)
<1>1. /\ IsFiniteSet(tasks) /\ tasks \subseteq Tasks /\ posted[b] \in Nat
      /\ \A i \in 1..Chunks[b] : rows[b][i] \in Nat
      /\ spent \in [FaultKinds -> Nat] /\ Counts(b)
  BY DEF IInv, TypeOK
<1>2. Faults \in Nat
  BY <1>1 DEF Faults, FaultKinds
<1>3. Chunks[b] \in Nat
  BY PipelineAssumption
<1> QED
  BY <1>1, <1>2, <1>3, CountsTally

\* N has at most one message of Q, and only for t or for a fault.
Swaps(N, t, Q, fault) ==
    /\ \E w : AtMostOne(N, Q, w)
    /\ N \cap Q = {} \/ t \in Q \/ fault

LEMMA SwapCount ==
    ASSUME NEW T, IsFiniteSet(T), NEW t \in T, NEW N, NEW Q, NEW fault \in BOOLEAN, Swaps(N, t, Q, fault),
           NEW R, Rest(R, T, t, N)
    PROVE  /\ Cardinality(R \cap Q) \in Nat /\ Cardinality(T \cap Q) \in Nat
           /\ Cardinality(R \cap Q) <= Cardinality(T \cap Q) + 1
           /\ Cardinality(R \cap Q) <= Cardinality(T \cap Q) \/ fault
<1>0. PICK w : AtMostOne(N, Q, w)
  BY DEF Swaps
<1>1. N \cap Q = {} \/ t \in Q \/ fault
  BY DEF Swaps
<1>2. Recount(R, T, t, N, Q)
  BY <1>0, Replaced
<1> QED
  BY <1>1, <1>2 DEF Recount

\* A message is replaced, and with it goes at most one fault.
SwapsAll(N, t, b, fault) ==
    /\ \A i \in 1..Chunks[b] : Swaps(N, t, Writers(b, i), fault)
    /\ Swaps(N, t, Alerters(b), fault)
    /\ \A i, j \in 1..Chunks[b] : Swaps(N, t, Inside(b, i, j), FALSE)

LEMMA TallyMove ==
    ASSUME IInv, NEW b \in Batches, NEW t \in tasks, NEW N, NEW fault \in BOOLEAN,
           NEW n, n = IF fault THEN Faults + 1 ELSE Faults,
           NEW R, Rest(R, tasks, t, N), SwapsAll(N, t, b, fault)
    PROVE  Tally(R, rows, posted, n, b)
<1> USE DEF SwapsAll
<1>0. /\ IsFiniteSet(tasks) /\ Faults \in Nat /\ posted[b] \in Nat
      /\ \A i \in 1..Chunks[b] : rows[b][i] \in Nat
      /\ Tally(tasks, rows, posted, Faults, b)
  BY CountTypes
<1>1. ASSUME NEW i \in 1..Chunks[b]
      PROVE  rows[b][i] + Cardinality(R \cap Writers(b, i)) <= 1 + n
  <2> PICK Q : Q = Writers(b, i)
    OBVIOUS
  <2> DEFINE old == Cardinality(tasks \cap Q)
             new == Cardinality(R \cap Q)
  <2>1. rows[b][i] \in Nat /\ rows[b][i] + old <= 1 + Faults
    BY <1>0 DEF Tally
  <2>2. Swaps(N, t, Q, fault)
    OBVIOUS
  <2>3. /\ new \in Nat /\ old \in Nat /\ new <= old + 1
        /\ new <= old \/ fault
    BY <1>0, <2>2, SwapCount
  <2> HIDE DEF old, new
  <2>4. rows[b][i] + new <= 1 + n
    BY <1>0, <2>1, <2>3
  <2> QED
    BY <2>4 DEF new
<1>2. posted[b] + Cardinality(R \cap Alerters(b)) <= 1 + n
  <2> PICK Q : Q = Alerters(b)
    OBVIOUS
  <2> DEFINE old == Cardinality(tasks \cap Q)
             new == Cardinality(R \cap Q)
  <2>1. posted[b] + old <= 1 + Faults
    BY <1>0 DEF Tally
  <2>2. Swaps(N, t, Q, fault)
    OBVIOUS
  <2>3. /\ new \in Nat /\ old \in Nat /\ new <= old + 1
        /\ new <= old \/ fault
    BY <1>0, <2>2, SwapCount
  <2> HIDE DEF old, new
  <2>4. posted[b] + new <= 1 + n
    BY <1>0, <2>1, <2>2, <2>3
  <2> QED
    BY <2>4 DEF new
<1>3. ASSUME NEW i \in 1..Chunks[b], NEW j \in 1..Chunks[b], i <= j
      PROVE  rows[b][i] >= rows[b][j] + Cardinality(R \cap Inside(b, i, j))
  <2> PICK Q : Q = Inside(b, i, j)
    OBVIOUS
  <2> DEFINE old == Cardinality(tasks \cap Q)
             new == Cardinality(R \cap Q)
  <2>1. rows[b][i] \in Nat /\ rows[b][j] \in Nat /\ rows[b][i] >= rows[b][j] + old
    BY <1>0, <1>3 DEF Tally
  <2>2. Swaps(N, t, Q, FALSE)
    OBVIOUS
  <2>3. new \in Nat /\ old \in Nat /\ new <= old
    BY <1>0, <2>2, SwapCount
  <2> HIDE DEF old, new
  <2>4. rows[b][i] >= rows[b][j] + new
    BY <2>1, <2>3
  <2> QED
    BY <2>4 DEF new
<1> QED
  BY <1>1, <1>2, <1>3 DEF Tally

\* Messages go.
LEMMA TallyLess ==
    ASSUME IInv, NEW b \in Batches, NEW n \in Nat, n >= Faults, NEW R, R \subseteq tasks
    PROVE  Tally(R, rows, posted, n, b)
<1>0. /\ IsFiniteSet(tasks) /\ Faults \in Nat /\ posted[b] \in Nat
      /\ \A i \in 1..Chunks[b] : rows[b][i] \in Nat
      /\ Tally(tasks, rows, posted, Faults, b)
  BY CountTypes
<1>1. \A Q : /\ Cardinality(R \cap Q) \in Nat /\ Cardinality(tasks \cap Q) \in Nat
             /\ Cardinality(R \cap Q) <= Cardinality(tasks \cap Q)
  BY <1>0, Fewer
<1>2. ASSUME NEW k \in Nat, NEW Q, k + Cardinality(tasks \cap Q) <= 1 + Faults
      PROVE  k + Cardinality(R \cap Q) <= 1 + n
  <2> PICK old, new : old = Cardinality(tasks \cap Q) /\ new = Cardinality(R \cap Q)
    OBVIOUS
  <2>1. new \in Nat /\ old \in Nat /\ new <= old
    BY <1>1
  <2> QED
    BY <1>0, <1>2, <2>1
<1>3. ASSUME NEW k \in Nat, NEW l \in Nat, NEW Q, k >= l + Cardinality(tasks \cap Q)
      PROVE  k >= l + Cardinality(R \cap Q)
  BY <1>1, <1>3
<1> QED
  BY <1>0, <1>2, <1>3 DEF Tally

-----------------------------------------------------------------------------
(* The counts after each step.                                             *)

LEMMA OneSwap ==
    ASSUME NEW t, NEW u, NEW Q, NEW fault \in BOOLEAN, u \in Q => t \in Q \/ fault
    PROVE  Swaps({u}, t, Q, fault)
BY DEF Swaps, AtMostOne

\* A message with a new place counts where it counted, unless it is asked for again.
LEMMA PlaceCount ==
    ASSUME IInv, NEW t \in tasks, NEW u \in Tasks, u.batch = t.batch, u.kind = t.kind,
           NEW b \in Batches, tasks' = (tasks \ {t}) \cup {u},
           \/ u.done = t.done /\ t.at = "queued" /\ u.at = "run"
           \/ u.at = "ack" /\ u.kind = "alert"
    PROVE  Tally(tasks', rows, posted, Faults, b)
<1>1. t \in Tasks
  BY TaskFields DEF IInv
<1>2. SwapsAll({u}, t, b, FALSE)
  <2>1. \A i \in 1..Chunks[b] : u \in Writers(b, i) => t \in Writers(b, i)
    BY <1>1 DEF Writers
  <2>2. u \in Alerters(b) => t \in Alerters(b)
    BY <1>1 DEF Alerters
  <2>3. \A i, j \in 1..Chunks[b] : u \in Inside(b, i, j) => t \in Inside(b, i, j)
    BY <1>1 DEF Inside
  <2> QED
    BY <2>1, <2>2, <2>3, OneSwap DEF SwapsAll
<1>3. Rest(tasks', tasks, t, {u})
  BY DEF Rest
<1> QED
  BY <1>2, <1>3, TallyMove

\* A message that comes back costs a fault.
LEMMA BackCount ==
    ASSUME IInv, NEW t \in tasks, NEW u \in Tasks, u.done = 0,
           NEW b \in Batches, tasks' = (tasks \ {t}) \cup {u}
    PROVE  Tally(tasks', rows, posted, Faults + 1, b)
<1>1. \A i, j \in 1..Chunks[b] : u \notin Inside(b, i, j)
  BY PipelineAssumption DEF Inside
<1>2. SwapsAll({u}, t, b, TRUE)
  BY <1>1, OneSwap DEF SwapsAll
<1>3. Rest(tasks', tasks, t, {u})
  BY DEF Rest
<1> QED
  BY <1>2, <1>3, TallyMove

\* The enrichment passes its part of the work on.
LEMMA EnrichCount ==
    ASSUME IInv, NEW t \in tasks, NEW b \in Batches, EnrichAlerts(t) \/ EnrichSends(t)
    PROVE  Tally(tasks', rows, posted, Faults, b)
<1>0. t \in Tasks /\ t.batch \in Batches /\ t.done \in Nat /\ t.retries \in 0..MaxRetries
  BY TaskFields DEF IInv
<1>1. CASE EnrichAlerts(t)
  <2>1. PICK u : u = [t EXCEPT !.at = "send"]
    OBVIOUS
  <2>2. PICK m : m = Message("alert", t.batch, 0)
    OBVIOUS
  <2>3. PICK N : N = {u} \cup {v \in {m} : t.batch \in Critical}
    OBVIOUS
  <2>4. u \in Tasks /\ u.kind = "enrich" /\ u.at = "send" /\ u.batch = t.batch
    BY <1>0, <1>1, <2>1 DEF EnrichAlerts, Tasks
  <2>5. m \in Tasks /\ m.kind = "alert" /\ m.batch = t.batch
    BY <1>0, <2>2, NewMessage DEF IInv, Kinds
  <2>6. Rest(tasks', tasks, t, N)
    BY <1>1, <2>1, <2>2, <2>3 DEF EnrichAlerts, Replace, Rest
  <2>7. ASSUME NEW i \in 1..Chunks[b] PROVE Swaps(N, t, Writers(b, i), FALSE)
    <3>1. AtMostOne(N, Writers(b, i), u)
      BY <2>3, <2>5 DEF AtMostOne, Writers
    <3>2. u \in Writers(b, i) => t \in Writers(b, i)
      BY <1>0, <1>1, <2>4 DEF Writers, EnrichAlerts
    <3>3. N \cap Writers(b, i) = {} \/ t \in Writers(b, i)
      BY <3>1, <3>2 DEF AtMostOne
    <3> QED
      BY <3>1, <3>3 DEF Swaps
  <2>8. Swaps(N, t, Alerters(b), FALSE)
    <3>1. AtMostOne(N, Alerters(b), m)
      BY <2>3, <2>4 DEF AtMostOne, Alerters
    <3>2. m \in Alerters(b) => t \in Alerters(b)
      BY <1>0, <1>1, <2>5 DEF Alerters, EnrichAlerts
    <3>3. N \cap Alerters(b) = {} \/ t \in Alerters(b)
      BY <3>1, <3>2 DEF AtMostOne
    <3> QED
      BY <3>1, <3>3 DEF Swaps
  <2>9. ASSUME NEW i \in 1..Chunks[b], NEW j \in 1..Chunks[b]
        PROVE  Swaps(N, t, Inside(b, i, j), FALSE)
    BY <2>3, <2>4, <2>5 DEF Swaps, AtMostOne, Inside
  <2>10. SwapsAll(N, t, b, FALSE)
    BY <2>7, <2>8, <2>9 DEF SwapsAll
  <2> QED
    BY <2>6, <2>10, TallyMove
<1>2. CASE EnrichSends(t)
  <2>1. PICK u : u = [t EXCEPT !.at = "ack"]
    OBVIOUS
  <2>2. PICK m : m = Message("sink", t.batch, 0)
    OBVIOUS
  <2>3. PICK N : N = {u, m}
    OBVIOUS
  <2>4. u \in Tasks /\ u.kind = "enrich" /\ u.at = "ack" /\ u.batch = t.batch
    BY <1>0, <1>2, <2>1 DEF EnrichSends, Tasks
  <2>5. m \in Tasks /\ m.kind = "sink" /\ m.batch = t.batch /\ m.done = 0
    BY <1>0, <2>2, NewMessage DEF IInv, Kinds
  <2>6. Rest(tasks', tasks, t, N)
    BY <1>2, <2>1, <2>2, <2>3 DEF EnrichSends, Replace, Rest
  <2>7. ASSUME NEW i \in 1..Chunks[b] PROVE Swaps(N, t, Writers(b, i), FALSE)
    <3>1. AtMostOne(N, Writers(b, i), m)
      BY <2>3, <2>4 DEF AtMostOne, Writers
    <3>2. m \in Writers(b, i) => t \in Writers(b, i)
      BY <1>0, <1>2, <2>5 DEF Writers, EnrichSends
    <3>3. N \cap Writers(b, i) = {} \/ t \in Writers(b, i)
      BY <3>1, <3>2 DEF AtMostOne
    <3> QED
      BY <3>1, <3>3 DEF Swaps
  <2>8. Swaps(N, t, Alerters(b), FALSE)
    BY <2>3, <2>4, <2>5 DEF Swaps, AtMostOne, Alerters
  <2>9. ASSUME NEW i \in 1..Chunks[b], NEW j \in 1..Chunks[b]
        PROVE  Swaps(N, t, Inside(b, i, j), FALSE)
    BY <2>3, <2>4, <2>5, PipelineAssumption DEF Swaps, AtMostOne, Inside
  <2>10. SwapsAll(N, t, b, FALSE)
    BY <2>7, <2>8, <2>9 DEF SwapsAll
  <2> QED
    BY <2>6, <2>10, TallyMove
<1> QED
  BY <1>1, <1>2

\* The sink's message moves on by one chunk, and that chunk is stored.
LEMMA OneRecount ==
    ASSUME NEW T, IsFiniteSet(T), NEW t \in T, NEW u, NEW Q, NEW R, R = (T \ {t}) \cup {u}
    PROVE  /\ Cardinality(R \cap Q) \in Nat /\ Cardinality(T \cap Q) \in Nat
           /\ Cardinality(R \cap Q) <= Cardinality(T \cap Q) + 1
           /\ u \notin Q \/ t \in Q => Cardinality(R \cap Q) <= Cardinality(T \cap Q)
           /\ u \notin Q /\ t \in Q => Cardinality(R \cap Q) + 1 <= Cardinality(T \cap Q)
<1>1. PICK N : N = {u}
  OBVIOUS
<1>2. AtMostOne(N, Q, u) /\ Rest(R, T, t, N)
  BY <1>1 DEF AtMostOne, Rest
<1>3. Recount(R, T, t, N, Q)
  BY <1>2, Replaced
<1>4. N \cap Q = {} <=> u \notin Q
  BY <1>1
<1> QED
  BY <1>3, <1>4 DEF Recount

LEMMA SinkCount ==
    ASSUME IInv, NEW t \in tasks, NEW b \in Batches, SinkInserts(t)
    PROVE  Tally(tasks', rows', posted, Faults, b)
<1>1. PICK k : k = t.done + 1
  OBVIOUS
<1>2. PICK u : u = [t EXCEPT !.done = k, !.at = IF k = Chunks[t.batch] THEN "ack" ELSE "run"]
  OBVIOUS
<1>3. /\ t \in Tasks /\ t.kind = "sink" /\ t.done \in Nat /\ k \in 1..Chunks[t.batch]
      /\ Chunks[t.batch] \in Nat /\ t.at = "run"
  BY <1>1, TaskFields, InsertFacts DEF IInv, SinkInserts
<1>4. u \in Tasks /\ u.kind = "sink" /\ u.batch = t.batch /\ u.done = k /\ u.at # "retried"
  <2>1. PICK place \in {"run", "ack"} : u = [t EXCEPT !.done = k, !.at = place]
    BY <1>2
  <2>2. t \in Tasks /\ t.kind = "sink" /\ k \in Nat
    BY <1>3
  <2> QED
    BY <2>1, <2>2 DEF Tasks
<1>5. tasks' = (tasks \ {t}) \cup {u}
  BY <1>1, <1>2 DEF SinkInserts, NextChunk, Replace
<1>6. /\ IsFiniteSet(tasks) /\ Faults \in Nat /\ posted[b] \in Nat /\ Chunks[b] \in Nat
      /\ \A i \in 1..Chunks[b] : rows[b][i] \in Nat
      /\ Tally(tasks, rows, posted, Faults, b)
  BY CountTypes
<1>7. CASE b # t.batch
  <2>1. SwapsAll({u}, t, b, FALSE)
    <3>1. u \notin Alerters(b) /\ \A i, j \in 1..Chunks[b] : u \notin Writers(b, i) \cup Inside(b, i, j)
      BY <1>4, <1>7 DEF Alerters, Writers, Inside
    <3> QED
      BY <3>1, OneSwap DEF SwapsAll
  <2>2. Rest(tasks', tasks, t, {u})
    BY <1>5 DEF Rest
  <2>3. Tally(tasks', rows, posted, Faults, b)
    BY <2>1, <2>2, TallyMove
  <2>4. \A i \in 1..Chunks[b] : rows'[b][i] = rows[b][i]
    BY <1>7, InsertedRows
  <2> QED
    BY <2>3, <2>4 DEF Tally
<1>8. CASE b = t.batch
  <2>1. \A i \in 1..Chunks[b] : rows'[b][i] = IF i = k THEN rows[b][i] + 1 ELSE rows[b][i]
    <3>1. rows[b] \in [1..Chunks[b] -> Nat] /\ DOMAIN rows = Batches
      BY DEF IInv, TypeOK
    <3>2. rows' = [rows EXCEPT ![b] = [rows[b] EXCEPT ![k] = rows[b][k] + 1]]
      BY <1>1, <1>8, InsertFacts
    <3>3. rows'[b] = [rows[b] EXCEPT ![k] = rows[b][k] + 1]
      BY <3>1, <3>2
    <3> QED
      BY <3>1, <3>3
  <2>2. ASSUME NEW i \in 1..Chunks[b]
        PROVE  rows'[b][i] + Cardinality(tasks' \cap Writers(b, i)) <= 1 + Faults
    <3> PICK Q : Q = Writers(b, i)
      OBVIOUS
    <3> PICK old, new : old = Cardinality(tasks \cap Q) /\ new = Cardinality(tasks' \cap Q)
      OBVIOUS
    <3>1. (t \in Q <=> t.done < i) /\ (u \in Q <=> k < i)
      BY <1>3, <1>4, <1>8 DEF Writers
    <3>2. /\ new \in Nat /\ old \in Nat
          /\ u \notin Q \/ t \in Q => new <= old
          /\ u \notin Q /\ t \in Q => new + 1 <= old
      BY <1>5, <1>6, OneRecount
    <3>3. rows[b][i] \in Nat /\ rows[b][i] + old <= 1 + Faults
      BY <1>6 DEF Tally
    <3>4. CASE i = k
      <4>1. new + 1 <= old /\ rows'[b][i] = rows[b][i] + 1
        BY <1>1, <1>3, <2>1, <3>1, <3>2, <3>4
      <4> QED
        BY <1>6, <3>2, <3>3, <4>1
    <3>5. CASE i # k
      <4>1. new <= old /\ rows'[b][i] = rows[b][i]
        BY <1>1, <1>3, <2>1, <3>1, <3>2, <3>5
      <4> QED
        BY <1>6, <3>2, <3>3, <4>1
    <3> QED
      BY <3>4, <3>5
  <2>3. posted[b] + Cardinality(tasks' \cap Alerters(b)) <= 1 + Faults
    <3> PICK Q : Q = Alerters(b)
      OBVIOUS
    <3> PICK old, new : old = Cardinality(tasks \cap Q) /\ new = Cardinality(tasks' \cap Q)
      OBVIOUS
    <3>1. u \notin Q
      BY <1>4 DEF Alerters
    <3>2. new \in Nat /\ old \in Nat /\ new <= old
      BY <1>5, <1>6, <3>1, OneRecount
    <3>3. posted[b] + old <= 1 + Faults
      BY <1>6 DEF Tally
    <3> QED
      BY <1>6, <3>2, <3>3
  <2>4. ASSUME NEW i \in 1..Chunks[b], NEW j \in 1..Chunks[b], i <= j
        PROVE  rows'[b][i] >= rows'[b][j] + Cardinality(tasks' \cap Inside(b, i, j))
    <3> PICK Q : Q = Inside(b, i, j)
      OBVIOUS
    <3> PICK old, new : old = Cardinality(tasks \cap Q) /\ new = Cardinality(tasks' \cap Q)
      OBVIOUS
    <3>1. (t \in Q <=> i <= t.done /\ t.done < j) /\ (u \in Q <=> i <= k /\ k < j)
      BY <1>3, <1>4, <1>8 DEF Inside
    <3>2. /\ new \in Nat /\ old \in Nat /\ new <= old + 1
          /\ u \notin Q \/ t \in Q => new <= old
          /\ u \notin Q /\ t \in Q => new + 1 <= old
      BY <1>5, <1>6, OneRecount
    <3>3. rows[b][i] \in Nat /\ rows[b][j] \in Nat /\ rows[b][i] >= rows[b][j] + old
      BY <1>6, <2>4 DEF Tally
    <3>4. CASE i = k /\ j = k
      <4>1. new <= old /\ rows'[b][i] = rows[b][i] + 1 /\ rows'[b][j] = rows[b][j] + 1
        BY <1>1, <1>3, <2>1, <3>1, <3>2, <3>4
      <4> QED
        BY <3>2, <3>3, <4>1
    <3>5. CASE i = k /\ j # k
      <4>1. rows'[b][i] = rows[b][i] + 1 /\ rows'[b][j] = rows[b][j]
        BY <2>1, <3>5
      <4> QED
        BY <3>2, <3>3, <4>1
    <3>6. CASE i # k /\ j = k
      <4>1. new + 1 <= old /\ rows'[b][i] = rows[b][i] /\ rows'[b][j] = rows[b][j] + 1
        BY <1>1, <1>3, <2>1, <2>4, <3>1, <3>2, <3>6
      <4> QED
        BY <3>2, <3>3, <4>1
    <3>7. CASE i # k /\ j # k
      <4>1. new <= old /\ rows'[b][i] = rows[b][i] /\ rows'[b][j] = rows[b][j]
        BY <1>1, <1>3, <2>1, <3>1, <3>2, <3>7
      <4> QED
        BY <3>2, <3>3, <4>1
    <3> QED
      BY <3>4, <3>5, <3>6, <3>7
  <2> QED
    BY <2>2, <2>3, <2>4 DEF Tally
<1> QED
  BY <1>7, <1>8


\* A retried message costs a fault, whether it comes back or is dropped.
LEMMA RetryCount ==
    ASSUME IInv, NEW t \in tasks, NEW b \in Batches, Retry(t)
    PROVE  Tally(tasks', rows, posted, Faults + 1, b)
<1>1. t \in Tasks /\ Faults \in Nat
  BY TaskFields, CountTypes DEF IInv
<1>2. ASSUME NEW u, NEW m, Again(t, u, m) PROVE Tally(tasks', rows, posted, Faults + 1, b)
  <2>1. PICK N : N = {u, m}
    OBVIOUS
  <2>2. /\ u \in Tasks /\ u.kind = t.kind /\ u.batch = t.batch /\ u.done = t.done /\ u.at = "retried"
        /\ m \in Tasks /\ m.done = 0
    BY <1>2 DEF Again
  <2>3. Rest(tasks', tasks, t, N)
    BY <1>2, <2>1 DEF Again, Rest
  <2>4. ASSUME NEW i \in 1..Chunks[b] PROVE Swaps(N, t, Writers(b, i), TRUE)
    <3>1. AtMostOne(N, Writers(b, i), m)
      BY <2>1, <2>2 DEF AtMostOne, Writers
    <3> QED
      BY <3>1 DEF Swaps
  <2>5. Swaps(N, t, Alerters(b), TRUE)
    <3>1. AtMostOne(N, Alerters(b), m)
      BY <2>1, <2>2 DEF AtMostOne, Alerters
    <3> QED
      BY <3>1 DEF Swaps
  <2>6. ASSUME NEW i \in 1..Chunks[b], NEW j \in 1..Chunks[b]
        PROVE  Swaps(N, t, Inside(b, i, j), FALSE)
    <3>1. m \notin Inside(b, i, j)
      BY <2>2, PipelineAssumption DEF Inside
    <3>2. u \in Inside(b, i, j) => t \in Inside(b, i, j)
      BY <1>1, <2>2 DEF Inside
    <3> QED
      BY <2>1, <3>1, <3>2 DEF Swaps, AtMostOne
  <2>7. SwapsAll(N, t, b, TRUE)
    BY <2>4, <2>5, <2>6 DEF SwapsAll
  <2> QED
    BY <2>3, <2>7, TallyMove
<1>3. CASE tasks' = tasks \ {t}
  <2>1. tasks' \subseteq tasks /\ Faults + 1 \in Nat /\ Faults + 1 >= Faults
    BY <1>1, <1>3
  <2> QED
    BY <2>1, TallyLess
<1> QED
  BY <1>2, <1>3, RetryFacts

\* An alert posted is one no longer awaited.
LEMMA PostCount ==
    ASSUME IInv, NEW t \in tasks, NEW b \in Batches, AlertPosts(t)
    PROVE  Tally(tasks', rows, posted', Faults, b)
<1>1. PICK u : u = [t EXCEPT !.at = "ack"]
  OBVIOUS
<1>2. t \in Tasks /\ t.kind = "alert" /\ t.at = "run" /\ t.batch \in Batches
  BY TaskFields DEF IInv, AlertPosts
<1>3. u \in Tasks /\ u.kind = "alert" /\ u.at = "ack" /\ u.batch = t.batch
  BY <1>1, <1>2 DEF Tasks
<1>4. tasks' = (tasks \ {t}) \cup {u}
  BY <1>1 DEF AlertPosts, Replace
<1>5. Tally(tasks', rows, posted, Faults, b)
  BY <1>3, <1>2, <1>4, PlaceCount
<1>6. /\ posted \in [Batches -> Nat]
      /\ posted' = [posted EXCEPT ![t.batch] = posted[t.batch] + 1]
  BY DEF AlertPosts, IInv, TypeOK
<1>7. posted'[b] + Cardinality(tasks' \cap Alerters(b)) <= 1 + Faults
  <2>1. CASE b # t.batch
    BY <1>5, <1>6, <2>1 DEF Tally
  <2>2. CASE b = t.batch
    <3> PICK Q : Q = Alerters(b)
      OBVIOUS
    <3> PICK old, new : old = Cardinality(tasks \cap Q) /\ new = Cardinality(tasks' \cap Q)
      OBVIOUS
    <3>1. t \in Q /\ u \notin Q
      BY <1>2, <1>3, <2>2 DEF Alerters
    <3>2. IsFiniteSet(tasks) /\ Faults \in Nat /\ posted[b] \in Nat /\ posted[b] + old <= 1 + Faults
      BY CountTypes DEF Tally
    <3>3. new \in Nat /\ old \in Nat /\ new + 1 <= old
      BY <1>4, <3>1, <3>2, OneRecount
    <3>4. posted'[b] = posted[b] + 1
      BY <1>6, <2>2
    <3> QED
      BY <3>2, <3>3, <3>4
  <2> QED
    BY <2>1, <2>2
<1> QED
  BY <1>5, <1>7 DEF Tally

\* An alert whose answer is lost is posted and, perhaps, still awaited: that is one fault.
LEMMA AnswerLostCount ==
    ASSUME IInv, NEW t \in tasks, NEW b \in Batches, AlertAnswerLost(t)
    PROVE  Tally(tasks', rows, posted', Faults + 1, b)
<1>1. t \in Tasks /\ t.kind = "alert" /\ t.at = "run" /\ t.batch \in Batches
  BY TaskFields DEF IInv, AlertAnswerLost
<1>2. Tally(tasks', rows, posted, Faults + 1, b)
  BY RetryCount DEF AlertAnswerLost
<1>3. /\ posted \in [Batches -> Nat]
      /\ posted' = [posted EXCEPT ![t.batch] = posted[t.batch] + 1]
  BY DEF AlertAnswerLost, IInv, TypeOK
<1>4. posted'[b] + Cardinality(tasks' \cap Alerters(b)) <= 1 + (Faults + 1)
  <2>1. CASE b # t.batch
    BY <1>2, <1>3, <2>1 DEF Tally
  <2>2. CASE b = t.batch
    <3> PICK Q : Q = Alerters(b)
      OBVIOUS
    <3> PICK old, new : old = Cardinality(tasks \cap Q) /\ new = Cardinality(tasks' \cap Q)
      OBVIOUS
    <3>1. t \in Q
      BY <1>1, <2>2 DEF Alerters
    <3>2. IsFiniteSet(tasks) /\ Faults \in Nat /\ posted[b] \in Nat /\ posted[b] + old <= 1 + Faults
      BY CountTypes DEF Tally
    <3>3. PICK N, w : Rest(tasks', tasks, t, N) /\ AtMostOne(N, Q, w)
      <4>1. ASSUME NEW u, NEW m, Again(t, u, m)
            PROVE  Rest(tasks', tasks, t, {u, m}) /\ AtMostOne({u, m}, Q, m)
        BY <4>1 DEF Again, Rest, AtMostOne, Alerters
      <4>2. CASE tasks' = tasks \ {t}
        BY <4>2 DEF Rest, AtMostOne
      <4> QED
        BY <4>1, <4>2, RetryFacts DEF AlertAnswerLost
    <3>4. new \in Nat /\ old \in Nat /\ new <= old
      <4>1. Recount(tasks', tasks, t, N, Q)
        BY <3>2, <3>3, Replaced
      <4> QED
        BY <3>1, <4>1 DEF Recount
    <3>5. posted'[b] = posted[b] + 1
      BY <1>3, <2>2
    <3> QED
      BY <3>2, <3>4, <3>5
  <2> QED
    BY <2>1, <2>2
<1> QED
  BY <1>2, <1>4 DEF Tally

\* The first message of a batch.
LEMMA AcceptCount ==
    ASSUME IInv, NEW c \in Batches, NEW b \in Batches, Accept(c)
    PROVE  Tally(tasks', rows, posted, Faults, b)
<1>1. PICK m : m = Message("enrich", c, 0)
  OBVIOUS
<1>2. m \in Tasks /\ m.kind = "enrich" /\ m.batch = c /\ tasks' = tasks \cup {m}
  BY <1>1, NewMessage DEF Accept, IInv, Kinds
<1>3. /\ Tally(tasks, rows, posted, Faults, b) /\ Faults \in Nat
      /\ \A i \in 1..Chunks[b] : rows[b][i] \in Nat
  BY CountTypes
<1>4. CASE b # c
  <2>1. /\ \A i \in 1..Chunks[b] : tasks' \cap Writers(b, i) = tasks \cap Writers(b, i)
        /\ tasks' \cap Alerters(b) = tasks \cap Alerters(b)
        /\ \A i, j \in 1..Chunks[b] : tasks' \cap Inside(b, i, j) = tasks \cap Inside(b, i, j)
    BY <1>2, <1>4 DEF Writers, Alerters, Inside
  <2> QED
    BY <1>3, <2>1 DEF Tally
<1>5. CASE b = c
  <2>1. Untouched(b)
    BY <1>5 DEF IInv, Counts, Accept
  <2>2. ASSUME NEW Q, \A t \in Q : t.batch = b
        PROVE  Cardinality(tasks' \cap Q) \in Nat /\ Cardinality(tasks' \cap Q) <= 1
    <3>1. tasks' \cap Q \subseteq {m}
      BY <1>2, <2>1, <2>2 DEF Untouched
    <3>2. IsFiniteSet({m}) /\ Cardinality({m}) = 1
      BY FS_Singleton
    <3> QED
      BY <3>1, <3>2, FS_Subset, FS_CardinalityType
  <2>3. \A i \in 1..Chunks[b] : rows[b][i] + Cardinality(tasks' \cap Writers(b, i)) <= 1 + Faults
    <3> SUFFICES ASSUME NEW i \in 1..Chunks[b]
                 PROVE  rows[b][i] + Cardinality(tasks' \cap Writers(b, i)) <= 1 + Faults
      OBVIOUS
    <3> PICK Q : Q = Writers(b, i)
      OBVIOUS
    <3>1. \A t \in Q : t.batch = b
      BY DEF Writers
    <3>2. rows[b][i] = 0
      BY <2>1 DEF Untouched
    <3> QED
      BY <1>3, <2>2, <3>1, <3>2
  <2>4. posted[b] + Cardinality(tasks' \cap Alerters(b)) <= 1 + Faults
    <3> PICK Q : Q = Alerters(b)
      OBVIOUS
    <3>1. \A t \in Q : t.batch = b
      BY DEF Alerters
    <3>2. posted[b] = 0
      BY <2>1 DEF Untouched
    <3> QED
      BY <1>3, <2>2, <3>1, <3>2
  <2>5. \A i, j \in 1..Chunks[b] :
           i <= j => rows[b][i] >= rows[b][j] + Cardinality(tasks' \cap Inside(b, i, j))
    <3>1. \A i, j \in 1..Chunks[b] : tasks' \cap Inside(b, i, j) = tasks \cap Inside(b, i, j)
      BY <1>2 DEF Inside
    <3> QED
      BY <1>3, <3>1 DEF Tally
  <2> QED
    BY <2>3, <2>4, <2>5 DEF Tally
<1> QED
  BY <1>4, <1>5

\* What is not accepted stays untouched.
LEMMA UntouchedStep ==
    ASSUME IInv, Next, NEW b \in Batches, b \notin accepted'
    PROVE  Untouched(b)'
<1>1. b \notin accepted
  BY DEF Next, Work, Accept, Fetch, EnrichAlerts, EnrichSends, SinkInserts, AlertPosts,
         Ack, TaskFails, AlertAnswerLost, WorkerLost, Evict
<1>2. Untouched(b)
  BY <1>1 DEF IInv, Counts
<1>3. \A t \in tasks : t \in Tasks /\ t.batch \in Batches /\ t.batch # b
  BY <1>2, TaskFields DEF IInv, Untouched
<1>4. \A t \in tasks' : t.batch # b
  <2>1. ASSUME NEW c \in Batches, Accept(c) PROVE \A t \in tasks' : t.batch # b
    BY <1>3, <2>1, NewMessage DEF Accept, IInv, Kinds
  <2>2. ASSUME NEW t \in tasks, EnrichAlerts(t) \/ EnrichSends(t) PROVE \A v \in tasks' : v.batch # b
    <3>1. \A kind \in Kinds : Message(kind, t.batch, 0).batch # b
      BY <1>3, NewMessage DEF IInv
    <3> QED
      BY <1>3, <2>2, <3>1 DEF EnrichAlerts, EnrichSends, Replace, Tasks, Kinds
  <2>3. ASSUME NEW t \in tasks, Fetch(t) \/ SinkInserts(t) \/ AlertPosts(t) \/ Ack(t)
        PROVE  \A v \in tasks' : v.batch # b
    BY <1>3, <2>3 DEF Fetch, SinkInserts, AlertPosts, Ack, Replace, Tasks
  <2>4. ASSUME NEW t \in tasks, TaskFails(t) \/ AlertAnswerLost(t) \/ WorkerLost(t)
        PROVE  \A v \in tasks' : v.batch # b
    <3>1. CASE WorkerLost(t)
      BY <1>3, <3>1 DEF WorkerLost, Replace, Tasks
    <3>2. CASE Retry(t)
      BY <1>3, <3>2, RetryFacts DEF Again
    <3> QED
      BY <2>4, <3>1, <3>2 DEF TaskFails, AlertAnswerLost
  <2>5. ASSUME NEW kind \in Kinds, Evict(kind) PROVE \A v \in tasks' : v.batch # b
    BY <1>3, <2>5 DEF Evict
  <2> QED
    BY <2>1, <2>2, <2>3, <2>4, <2>5 DEF Next, Work
<1>5. \A i \in 1..Chunks[b] : rows'[b][i] = 0
  <2>1. ASSUME NEW t \in tasks, SinkInserts(t) PROVE \A i \in 1..Chunks[b] : rows'[b][i] = 0
    BY <1>2, <1>3, <2>1, InsertedRows DEF Untouched
  <2>2. (\E t \in tasks : SinkInserts(t)) \/ rows' = rows
    BY DEF Next, Work, Accept, Fetch, EnrichAlerts, EnrichSends, AlertPosts,
           Ack, TaskFails, AlertAnswerLost, WorkerLost, Evict
  <2> QED
    BY <1>2, <2>1, <2>2 DEF Untouched
<1>6. posted'[b] = 0
  <2>1. ASSUME NEW t \in tasks, AlertPosts(t) \/ AlertAnswerLost(t) PROVE posted'[b] = 0
    BY <1>2, <1>3, <2>1 DEF AlertPosts, AlertAnswerLost, Untouched, IInv, TypeOK
  <2>2. (\E t \in tasks : AlertPosts(t) \/ AlertAnswerLost(t)) \/ posted' = posted
    BY DEF Next, Work, Accept, Fetch, EnrichAlerts, EnrichSends, SinkInserts,
           Ack, TaskFails, WorkerLost, Evict
  <2> QED
    BY <1>2, <2>1, <2>2 DEF Untouched
<1> QED
  BY <1>4, <1>5, <1>6 DEF Untouched

\* Faults are counted.
LEMMA FaultSteps ==
    ASSUME IInv
    PROVE  /\ UNCHANGED spent => Faults' = Faults
           /\ Suffer("error") \/ Suffer("crash") => Faults' = Faults + 1
           /\ Suffer("evict") => Faults' = Faults
<1>1. spent \in [FaultKinds -> Nat]
  BY DEF IInv, TypeOK
<1> QED
  BY <1>1 DEF Suffer, Faults, FaultKinds

LEMMA CountStep ==
    ASSUME IInv, Next, NEW b \in Batches
    PROVE  Counts(b)'
<1> USE FaultSteps
<1>0. Faults \in Nat /\ Faults >= Faults
  BY CountTypes
<1>1. Tally(tasks', rows', posted', Faults', b)
  <2>1. ASSUME NEW c \in Batches, Accept(c) PROVE Tally(tasks', rows', posted', Faults', b)
    BY <2>1, AcceptCount DEF Accept
  <2>2. ASSUME NEW t \in tasks, Fetch(t) PROVE Tally(tasks', rows', posted', Faults', b)
    <3>1. t \in Tasks
      BY TaskFields DEF IInv
    <3>2. PICK u : u = [t EXCEPT !.at = "run"]
      OBVIOUS
    <3>3. /\ u \in Tasks /\ u.batch = t.batch /\ u.kind = t.kind /\ u.done = t.done /\ u.at = "run"
          /\ t.at = "queued"
      BY <2>2, <3>1, <3>2 DEF Tasks, Fetch
    <3>4. tasks' = (tasks \ {t}) \cup {u}
      BY <2>2, <3>2 DEF Fetch, Replace
    <3>5. Tally(tasks', rows, posted, Faults, b)
      BY <3>3, <3>4, PlaceCount
    <3> QED
      BY <2>2, <3>5 DEF Fetch
  <2>3. ASSUME NEW t \in tasks, EnrichAlerts(t) \/ EnrichSends(t)
        PROVE  Tally(tasks', rows', posted', Faults', b)
    BY <2>3, EnrichCount DEF EnrichAlerts, EnrichSends
  <2>4. ASSUME NEW t \in tasks, SinkInserts(t) PROVE Tally(tasks', rows', posted', Faults', b)
    <3>1. posted' = posted /\ Faults' = Faults
      BY <2>4 DEF SinkInserts
    <3> QED
      BY <2>4, <3>1, SinkCount
  <2>5. ASSUME NEW t \in tasks, AlertPosts(t) PROVE Tally(tasks', rows', posted', Faults', b)
    BY <2>5, PostCount DEF AlertPosts
  <2>6. ASSUME NEW t \in tasks, Ack(t) PROVE Tally(tasks', rows', posted', Faults', b)
    <3>1. tasks' \subseteq tasks /\ rows' = rows /\ posted' = posted /\ Faults' = Faults
      BY <2>6 DEF Ack
    <3> QED
      BY <1>0, <3>1, TallyLess
  <2>7. ASSUME NEW t \in tasks, TaskFails(t) PROVE Tally(tasks', rows', posted', Faults', b)
    <3>1. Retry(t) /\ rows' = rows /\ posted' = posted /\ Faults' = Faults + 1
      BY <2>7 DEF TaskFails
    <3> QED
      BY <3>1, RetryCount
  <2>8. ASSUME NEW t \in tasks, AlertAnswerLost(t) PROVE Tally(tasks', rows', posted', Faults', b)
    <3>1. rows' = rows /\ Faults' = Faults + 1
      BY <2>8 DEF AlertAnswerLost
    <3> QED
      BY <2>8, <3>1, AnswerLostCount
  <2>9. ASSUME NEW t \in tasks, WorkerLost(t) PROVE Tally(tasks', rows', posted', Faults', b)
    <3>1. t \in Tasks
      BY TaskFields DEF IInv
    <3>2. PICK u : u = [t EXCEPT !.at = "queued", !.done = 0]
      OBVIOUS
    <3>3. u \in Tasks /\ u.done = 0
      BY <3>1, <3>2 DEF Tasks
    <3>4. tasks' = (tasks \ {t}) \cup {u}
      BY <2>9, <3>2 DEF WorkerLost, Replace
    <3>5. rows' = rows /\ posted' = posted /\ Faults' = Faults + 1
      BY <2>9 DEF WorkerLost
    <3> QED
      BY <3>3, <3>4, <3>5, BackCount
  <2>10. ASSUME NEW kind \in Kinds, Evict(kind) PROVE Tally(tasks', rows', posted', Faults', b)
    <3>1. tasks' \subseteq tasks /\ rows' = rows /\ posted' = posted /\ Faults' = Faults
      BY <2>10 DEF Evict
    <3> QED
      BY <1>0, <3>1, TallyLess
  <2> QED
    BY <2>1, <2>2, <2>3, <2>4, <2>5, <2>6, <2>7, <2>8, <2>9, <2>10 DEF Next, Work
<1>2. tasks' \subseteq Tasks
  BY TypeStep DEF TypeOK
<1>3. /\ \A i : Awaiting(b, i)' = tasks' \cap Writers(b, i)
      /\ AwaitingAlert(b)' = tasks' \cap Alerters(b)
      /\ \A i, j : Between(b, i, j)' = tasks' \cap Inside(b, i, j)
  BY <1>2 DEF Awaiting, AwaitingAlert, Between, Writers, Alerters, Inside
<1> QED
  BY <1>1, <1>3, UntouchedStep DEF Counts, Tally

LEMMA InitInv == Init => IInv
<1> SUFFICES ASSUME Init PROVE IInv
  OBVIOUS
<1>1. IsFiniteSet(tasks)
  BY FS_EmptySet DEF Init
<1>2. TypeOK
  BY PipelineAssumption DEF Init, TypeOK, FaultKinds
<1>3. \A t \in tasks : Passed(t) /\ Done(t) /\ AlertFirst(t)
  BY DEF Init
<1>4. NothingLeftBehind
  BY DEF Init, NothingLeftBehind
<1>5. AlertBeforeRows
  BY PipelineAssumption DEF Init, AlertBeforeRows
<1>6. ASSUME NEW b \in Batches PROVE Counts(b)
  <2>1. Tally({}, rows, posted, 0, b)
    <3>1. \A Q : {} \cap Q = {} /\ Cardinality({}) = 0
      BY FS_EmptySet
    <3>2. posted[b] = 0 /\ \A i \in 1..Chunks[b] : rows[b][i] = 0
      BY DEF Init
    <3> QED
      BY <3>1, <3>2 DEF Tally
  <2>2. tasks = {} /\ Faults = 0 /\ Untouched(b)
    BY DEF Init, Faults, FaultKinds, Untouched
  <2> QED
    BY <2>1, <2>2, CountsTally
<1> QED
  BY <1>1, <1>2, <1>3, <1>4, <1>5, <1>6 DEF IInv

LEMMA StepInv == IInv /\ [Next]_vars => IInv'
<1> SUFFICES ASSUME IInv, [Next]_vars PROVE IInv'
  OBVIOUS
<1>1. CASE Next
  <2>1. (\A t \in tasks : Passed(t) /\ Done(t) /\ AlertFirst(t))'
    BY <1>1, GoodStep DEF Good
  <2> QED
    BY <1>1, <2>1, TypeStep, BehindStep, AlertStep, CountStep DEF IInv
<1>2. CASE UNCHANGED vars
  <2>1. \A b \in Batches : Counts(b)'
    BY <1>2 DEF vars, IInv, Counts, Untouched, Faults, Awaiting, AwaitingAlert, Between
  <2> QED
    BY <1>2, <2>1 DEF vars, IInv, TypeOK, Passed, Done, AlertFirst, NothingLeftBehind,
                      AlertBeforeRows, Sent, Carried, Persisted, Dropped, Alerted,
                      Finished, LiveHeir, Key
<1> QED
  BY <1>1, <1>2

\* The inductive invariant: what each message says of rows, alerts and other messages.
THEOREM Invariant == Spec => []IInv
BY InitInv, StepInv, PTL DEF Spec

\* Messages, rows and history keep their types; ids tell messages apart.
THEOREM TypeCorrect == Spec => []TypeOK
<1>1. IInv => TypeOK
  BY DEF IInv
<1> QED
  BY <1>1, Invariant, PTL

\* An accepted batch (ingest_router.py) is carried by a message, persisted
\* (sink_tasks.py), or recorded as dropped, after any faults.
THEOREM NeverLeftBehind == Spec => []NothingLeftBehind
<1>1. IInv => NothingLeftBehind
  BY DEF IInv
<1> QED
  BY <1>1, Invariant, PTL

\* The alert of a batch (intel_tasks.py) is on its way before its rows are stored.
THEOREM AlertsComeFirst == Spec => []AlertBeforeRows
<1>1. IInv => AlertBeforeRows
  BY DEF IInv
<1> QED
  BY <1>1, Invariant, PTL

\* What the database holds of a batch is a prefix of it (bulk_persist_logs commits
\* chunk after chunk), and no chunk has fewer copies than a later one.
THEOREM StoredFromTheStart == Spec => []RowsArePrefixes
<1>1. ASSUME IInv PROVE RowsArePrefixes
  <2> SUFFICES ASSUME NEW b \in Batches, NEW i \in 1..Chunks[b], NEW j \in 1..Chunks[b], i <= j
               PROVE  rows[b][i] >= rows[b][j]
    BY DEF RowsArePrefixes
  <2> PICK old : old = Cardinality(tasks \cap Inside(b, i, j))
    OBVIOUS
  <2>1. /\ rows[b][i] \in Nat /\ rows[b][j] \in Nat
        /\ rows[b][i] >= rows[b][j] + old
    BY <1>1, CountTypes DEF Tally
  <2>2. old \in Nat
    BY <1>1, CountTypes, FS_Intersection, FS_CardinalityType
  <2> QED
    BY <2>1, <2>2
<1> QED
  BY <1>1, Invariant, PTL

\* Every copy of a row or of an alert beyond the first has a fault of its own: no
\* schedule of the workers duplicates anything without one.
THEOREM CopiesHaveFaults == Spec => []CopiesNeedFaults
<1>1. ASSUME IInv PROVE CopiesNeedFaults
  <2>1. ASSUME NEW b \in Batches
        PROVE  /\ \A i \in 1..Chunks[b] : rows[b][i] <= 1 + Faults
               /\ posted[b] <= 1 + Faults
    <3>1. \A Q : Cardinality(tasks \cap Q) \in Nat
      BY <1>1, CountTypes, FS_Intersection, FS_CardinalityType
    <3>2. /\ Faults \in Nat /\ posted[b] \in Nat /\ Tally(tasks, rows, posted, Faults, b)
          /\ \A i \in 1..Chunks[b] : rows[b][i] \in Nat
      BY <1>1, CountTypes
    <3>3. posted[b] <= 1 + Faults
      <4> PICK k : k = Cardinality(tasks \cap Alerters(b))
        OBVIOUS
      <4>1. k \in Nat /\ posted[b] + k <= 1 + Faults
        BY <3>1, <3>2 DEF Tally
      <4> QED
        BY <3>2, <4>1
    <3>4. ASSUME NEW i \in 1..Chunks[b] PROVE rows[b][i] <= 1 + Faults
      <4> PICK k : k = Cardinality(tasks \cap Writers(b, i))
        OBVIOUS
      <4>1. k \in Nat /\ rows[b][i] + k <= 1 + Faults
        BY <3>1, <3>2 DEF Tally
      <4> QED
        BY <3>2, <4>1
    <3> QED
      BY <3>3, <3>4
  <2>2. 1 + Faults = 1 + spent["error"] + spent["crash"]
    BY <1>1 DEF IInv, TypeOK, Faults, FaultKinds
  <2> QED
    BY <2>1, <2>2 DEF CopiesNeedFaults
<1> QED
  BY <1>1, Invariant, PTL
-----------------------------------------------------------------------------
(* The end of the work: what is to do for the messages is the number of    *)
(* their steps, and every step of a worker takes more away than it adds.   *)

LEMMA StepsOfOne ==
    ASSUME NEW t, ToDo(t) \in Nat
    PROVE  IsFiniteSet({t} \X (1..ToDo(t))) /\ Cardinality({t} \X (1..ToDo(t))) = ToDo(t)
<1> PICK n : n = ToDo(t)
  OBVIOUS
<1>1. IsFiniteSet(1..n) /\ Cardinality(1..n) = n
  BY FS_Interval
<1>2. IsFiniteSet({t}) /\ Cardinality({t}) = 1
  BY FS_Singleton
<1>3. IsFiniteSet({t} \X (1..n)) /\ Cardinality({t} \X (1..n)) = Cardinality({t}) * Cardinality(1..n)
  BY <1>1, <1>2, FS_Product
<1> QED
  BY <1>1, <1>2, <1>3

LEMMA StepsFinite ==
    ASSUME NEW T, IsFiniteSet(T), \A t \in T : ToDo(t) \in Nat
    PROVE  IsFiniteSet(Steps(T)) /\ Cardinality(Steps(T)) \in Nat
<1> DEFINE f == [t \in T |-> {t} \X (1..ToDo(t))]
           U == {{t} \X (1..ToDo(t)) : t \in T}
<1>1. f \in Surjection(T, U)
  BY DEF Surjection
<1>2. IsFiniteSet(U)
  BY <1>1, FS_Surjection
<1>3. \A R \in U : IsFiniteSet(R)
  BY StepsOfOne
<1> HIDE DEF U
<1>4. IsFiniteSet(UNION U)
  BY <1>2, <1>3, FS_UNION
<1> QED
  BY <1>4, FS_CardinalityType DEF Steps, U

\* One message taken out.
LEMMA StepsTake ==
    ASSUME NEW T, IsFiniteSet(T), \A t \in T : ToDo(t) \in Nat, NEW x \in T
    PROVE  /\ Cardinality(Steps(T \ {x})) \in Nat
           /\ Cardinality(Steps(T)) = Cardinality(Steps(T \ {x})) + ToDo(x)
<1> PICK A : A = Steps(T \ {x})
  OBVIOUS
<1> PICK R : R = {x} \X (1..ToDo(x))
  OBVIOUS
<1>1. IsFiniteSet(A) /\ Cardinality(A) \in Nat
  <2>1. IsFiniteSet(T \ {x})
    BY FS_RemoveElement
  <2> QED
    BY <2>1, StepsFinite
<1>2. IsFiniteSet(R) /\ Cardinality(R) = ToDo(x)
  BY StepsOfOne
<1>3. Steps(T) = A \cup R
  BY DEF Steps
<1>4. A \cap R = {}
  BY DEF Steps
<1>5. Cardinality(A \cup R) = Cardinality(A) + Cardinality(R) - Cardinality(A \cap R)
  BY <1>1, <1>2, FS_Union
<1>6. Cardinality(A \cap R) = 0
  BY <1>4, FS_EmptySet
<1>7. ToDo(x) \in Nat
  OBVIOUS
<1> QED
  BY <1>1, <1>2, <1>3, <1>5, <1>6, <1>7

\* One message put in.
LEMMA StepsPut ==
    ASSUME NEW T, IsFiniteSet(T), \A t \in T : ToDo(t) \in Nat, NEW x, ToDo(x) \in Nat
    PROVE  /\ IsFiniteSet(T \cup {x}) /\ \A t \in T \cup {x} : ToDo(t) \in Nat
           /\ Cardinality(Steps(T \cup {x})) \in Nat
           /\ Cardinality(Steps(T \cup {x})) <= Cardinality(Steps(T)) + ToDo(x)
<1> PICK S : S = T \cup {x}
  OBVIOUS
<1>1. IsFiniteSet(S) /\ \A t \in S : ToDo(t) \in Nat
  BY FS_AddElement
<1>2. Cardinality(Steps(S)) \in Nat /\ Cardinality(Steps(T)) \in Nat
  BY <1>1, StepsFinite
<1>3. CASE x \in T
  <2> PICK k : k = Cardinality(Steps(T))
    OBVIOUS
  <2>1. S = T /\ k <= k + ToDo(x)
    BY <1>2, <1>3
  <2> QED
    BY <1>1, <1>2, <2>1
<1>4. CASE x \notin T
  <2>1. S \ {x} = T /\ x \in S
    BY <1>4
  <2>2. Cardinality(Steps(S)) = Cardinality(Steps(S \ {x})) + ToDo(x)
    BY <1>1, <2>1, StepsTake
  <2>3. Cardinality(Steps(S)) = Cardinality(Steps(T)) + ToDo(x)
    BY <2>1, <2>2
  <2> QED
    BY <1>1, <1>2, <2>3
<1> QED
  BY <1>3, <1>4

\* The steps of a message, by its kind and place.
LEMMA ToDoFacts ==
    ASSUME NEW t \in Tasks, t.kind = "sink" => t.done <= Chunks[t.batch]
    PROVE  /\ ToDo(t) \in Nat \ {0} /\ Chunks[t.batch] \in Nat \ {0}
           /\ t.at \in {"retried", "ack"} => ToDo(t) = 1
           /\ t.kind = "sink" /\ t.at = "queued" => ToDo(t) = Chunks[t.batch] + 2 - t.done
           /\ t.kind = "sink" /\ t.at = "run" => ToDo(t) = Chunks[t.batch] + 1 - t.done
           /\ t.kind = "alert" /\ t.at = "queued" => ToDo(t) = 3
           /\ t.kind = "alert" /\ t.at = "run" => ToDo(t) = 2
           /\ t.kind = "enrich" /\ t.at = "queued" => ToDo(t) = Chunks[t.batch] + 9
           /\ t.kind = "enrich" /\ t.at = "run" => ToDo(t) = Chunks[t.batch] + 8
           /\ t.kind = "enrich" /\ t.at = "send" => ToDo(t) = Chunks[t.batch] + 4
<1>1. /\ t.kind \in {"enrich", "sink", "alert"} /\ t.at \in {"queued", "run", "send", "retried", "ack"}
      /\ t.done \in Nat /\ Chunks[t.batch] \in Nat \ {0}
  BY PipelineAssumption DEF Tasks, Kinds
<1>2. CASE t.at \in {"retried", "ack"}
  BY <1>1, <1>2 DEF ToDo
<1>3. CASE t.at \notin {"retried", "ack"} /\ t.kind = "sink"
  BY <1>1, <1>3 DEF ToDo
<1>4. CASE t.at \notin {"retried", "ack"} /\ t.kind = "alert"
  BY <1>1, <1>4 DEF ToDo
<1>5. CASE t.at = "send" /\ t.kind = "enrich"
  BY <1>1, <1>5 DEF ToDo
<1>6. CASE t.at \in {"queued", "run"} /\ t.kind = "enrich"
  BY <1>1, <1>6 DEF ToDo
<1> QED
  BY <1>1, <1>2, <1>3, <1>4, <1>5, <1>6

\* A message replaced by one with fewer steps ...
LEMMA EffortMove ==
    ASSUME IInv, NEW t \in tasks, NEW u, ToDo(u) \in Nat, ToDo(u) < ToDo(t),
           tasks' = (tasks \ {t}) \cup {u}
    PROVE  Effort' < Effort
<1> PICK R : R = tasks \ {t}
  OBVIOUS
<1>0. IsFiniteSet(tasks) /\ \A v \in tasks : ToDo(v) \in Nat
  BY ToDoFacts DEF IInv, TypeOK
<1>1. /\ Cardinality(Steps(R)) \in Nat
      /\ Cardinality(Steps(tasks)) = Cardinality(Steps(R)) + ToDo(t)
  BY <1>0, StepsTake
<1>2. IsFiniteSet(R) /\ \A v \in R : ToDo(v) \in Nat
  BY <1>0, FS_RemoveElement
<1>3. /\ Cardinality(Steps(R \cup {u})) \in Nat
      /\ Cardinality(Steps(R \cup {u})) <= Cardinality(Steps(R)) + ToDo(u)
  BY <1>2, StepsPut
<1>4. tasks' = R \cup {u} /\ ToDo(t) \in Nat
  BY <1>0
<1>5. Cardinality(Steps(tasks')) < Cardinality(Steps(tasks))
  BY <1>1, <1>3, <1>4
<1> QED
  BY <1>5 DEF Effort, Steps, ToDo

\* ... which leaves room for those of the message it sends.
LEMMA EffortSend ==
    ASSUME IInv, NEW t \in tasks, NEW u, NEW m, ToDo(u) \in Nat, ToDo(m) \in Nat,
           ToDo(u) + ToDo(m) < ToDo(t),
           tasks' = (tasks \ {t}) \cup {u, m}
    PROVE  Effort' < Effort
<1> PICK R : R = tasks \ {t}
  OBVIOUS
<1>0. IsFiniteSet(tasks) /\ \A v \in tasks : ToDo(v) \in Nat
  BY ToDoFacts DEF IInv, TypeOK
<1>1. /\ Cardinality(Steps(R)) \in Nat
      /\ Cardinality(Steps(tasks)) = Cardinality(Steps(R)) + ToDo(t)
  BY <1>0, StepsTake
<1>2. IsFiniteSet(R) /\ \A v \in R : ToDo(v) \in Nat
  BY <1>0, FS_RemoveElement
<1> PICK S : S = R \cup {u}
  OBVIOUS
<1>3. /\ IsFiniteSet(S) /\ \A v \in S : ToDo(v) \in Nat
      /\ Cardinality(Steps(S)) \in Nat
      /\ Cardinality(Steps(S)) <= Cardinality(Steps(R)) + ToDo(u)
  BY <1>2, StepsPut
<1>4. /\ Cardinality(Steps(S \cup {m})) \in Nat
      /\ Cardinality(Steps(S \cup {m})) <= Cardinality(Steps(S)) + ToDo(m)
  BY <1>3, StepsPut
<1>5. tasks' = S \cup {m} /\ ToDo(t) \in Nat
  BY <1>0
<1>6. Cardinality(Steps(tasks')) < Cardinality(Steps(tasks))
  BY <1>1, <1>3, <1>4, <1>5
<1> QED
  BY <1>6 DEF Effort, Steps, ToDo

\* Every step of a worker leaves less to do.
LEMMA WorkStep ==
    ASSUME IInv, NEW t \in tasks, Work(t)
    PROVE  Effort' < Effort
<1>0. /\ IsFiniteSet(tasks) /\ t \in Tasks /\ (t.kind = "sink" => t.done <= Chunks[t.batch])
      /\ t.kind \in Kinds /\ t.batch \in Batches /\ t.done \in Nat
      /\ Chunks[t.batch] \in Nat \ {0}
  BY TaskFields, PipelineAssumption DEF IInv
<1>1. CASE Fetch(t)
  <2> PICK u : u = [t EXCEPT !.at = "run"]
    OBVIOUS
  <2>1. u \in Tasks /\ u.kind = t.kind /\ u.batch = t.batch /\ u.done = t.done /\ u.at = "run"
    BY <1>0 DEF Tasks
  <2>2. tasks' = (tasks \ {t}) \cup {u} /\ t.at = "queued"
    BY <1>1 DEF Fetch, Replace
  <2>3. ToDo(u) \in Nat /\ ToDo(u) < ToDo(t)
    <3>1. CASE t.kind = "enrich"
      <4>1. ToDo(u) = Chunks[t.batch] + 8 /\ ToDo(t) = Chunks[t.batch] + 9
        BY <1>0, <2>1, <2>2, <3>1, ToDoFacts
      <4> QED  BY <1>0, <4>1
    <3>2. CASE t.kind = "sink"
      <4>1. ToDo(u) = Chunks[t.batch] + 1 - t.done /\ ToDo(t) = Chunks[t.batch] + 2 - t.done
        BY <1>0, <2>1, <2>2, <3>2, ToDoFacts
      <4> QED  BY <1>0, <3>2, <4>1
    <3>3. CASE t.kind = "alert"
      <4>1. ToDo(u) = 2 /\ ToDo(t) = 3
        BY <1>0, <2>1, <2>2, <3>3, ToDoFacts
      <4> QED  BY <4>1
    <3> QED  BY <1>0, <3>1, <3>2, <3>3 DEF Kinds
  <2> QED
    BY <2>2, <2>3, EffortMove
<1>2. CASE EnrichAlerts(t)
  <2> PICK u : u = [t EXCEPT !.at = "send"]
    OBVIOUS
  <2> PICK m : m = Message("alert", t.batch, 0)
    OBVIOUS
  <2>1. u \in Tasks /\ u.kind = "enrich" /\ u.batch = t.batch /\ u.at = "send"
    BY <1>0, <1>2 DEF Tasks, EnrichAlerts
  <2>2. m \in Tasks /\ m.kind = "alert" /\ m.batch = t.batch /\ m.at = "queued"
    BY <1>0, NewMessage DEF Kinds
  <2>3. /\ tasks' = (tasks \ {t}) \cup ({u} \cup {w \in {m} : t.batch \in Critical})
        /\ t.kind = "enrich" /\ t.at = "run"
    BY <1>2 DEF EnrichAlerts, Replace
  <2>4. ToDo(u) = Chunks[t.batch] + 4
    BY <2>1, ToDoFacts
  <2>5. ToDo(m) = 3
    BY <2>2, ToDoFacts
  <2>6. ToDo(t) = Chunks[t.batch] + 8
    BY <1>0, <2>3, ToDoFacts
  <2>7. ToDo(u) \in Nat /\ ToDo(m) \in Nat /\ ToDo(u) < ToDo(t) /\ ToDo(u) + ToDo(m) < ToDo(t)
    BY <1>0, <2>4, <2>5, <2>6
  <2>8. CASE t.batch \in Critical
    <3>1. tasks' = (tasks \ {t}) \cup {u, m}
      BY <2>3, <2>8
    <3> QED  BY <2>7, <3>1, EffortSend
  <2>9. CASE t.batch \notin Critical
    <3>1. tasks' = (tasks \ {t}) \cup {u}
      BY <2>3, <2>9
    <3> QED  BY <2>7, <3>1, EffortMove
  <2> QED
    BY <2>8, <2>9
<1>3. CASE EnrichSends(t)
  <2> PICK u : u = [t EXCEPT !.at = "ack"]
    OBVIOUS
  <2> PICK m : m = Message("sink", t.batch, 0)
    OBVIOUS
  <2>1. u \in Tasks /\ u.kind = "enrich" /\ u.batch = t.batch /\ u.at = "ack"
    BY <1>0, <1>3 DEF Tasks, EnrichSends
  <2>2. m \in Tasks /\ m.kind = "sink" /\ m.batch = t.batch /\ m.at = "queued" /\ m.done = 0
    BY <1>0, NewMessage DEF Kinds
  <2>3. tasks' = (tasks \ {t}) \cup {u, m} /\ t.kind = "enrich" /\ t.at = "send"
    BY <1>3 DEF EnrichSends, Replace
  <2>4. ToDo(u) = 1
    BY <2>1, ToDoFacts
  <2>5. ToDo(m) = Chunks[t.batch] + 2
    <3>1. m.done <= Chunks[m.batch] /\ Chunks[t.batch] + 2 - 0 = Chunks[t.batch] + 2
      BY <1>0, <2>2
    <3> QED  BY <2>2, <3>1, ToDoFacts
  <2>6. ToDo(t) = Chunks[t.batch] + 4
    BY <1>0, <2>3, ToDoFacts
  <2>7. ToDo(u) \in Nat /\ ToDo(m) \in Nat /\ ToDo(u) + ToDo(m) < ToDo(t)
    BY <1>0, <2>4, <2>5, <2>6
  <2> QED
    BY <2>3, <2>7, EffortSend
<1>4. CASE SinkInserts(t)
  <2> DEFINE n == t.done + 1
             place == IF n = Chunks[t.batch] THEN "ack" ELSE "run"
  <2> PICK u : u = [t EXCEPT !.done = n, !.at = place]
    OBVIOUS
  <2>1. n \in 1..Chunks[t.batch]
    BY <1>4, InsertFacts
  <2>2. u \in Tasks /\ u.kind = "sink" /\ u.batch = t.batch /\ u.at = place /\ u.done = n
    <3>1. n \in Nat /\ place \in {"queued", "run", "send", "retried", "ack"} /\ t.kind = "sink"
      BY <1>0, <1>4 DEF SinkInserts
    <3> HIDE DEF n, place
    <3> QED  BY <1>0, <3>1 DEF Tasks
  <2>3. tasks' = (tasks \ {t}) \cup {u} /\ t.kind = "sink" /\ t.at = "run"
    BY <1>4 DEF SinkInserts, Replace, NextChunk
  <2>4. ToDo(t) = Chunks[t.batch] + 1 - t.done
    BY <1>0, <2>3, ToDoFacts
  <2>5. ToDo(u) = Chunks[t.batch] + 1 - n
    <3>1. u.done <= Chunks[u.batch]
      BY <1>0, <2>1, <2>2
    <3>2. CASE n = Chunks[t.batch]
      <4>1. ToDo(u) = 1
        BY <2>2, <3>1, <3>2, ToDoFacts
      <4> QED  BY <1>0, <3>2, <4>1
    <3>3. CASE n # Chunks[t.batch]
      BY <1>0, <2>2, <3>1, <3>3, ToDoFacts
    <3> QED
      BY <3>2, <3>3
  <2>6. ToDo(u) \in Nat /\ ToDo(u) < ToDo(t)
    BY <1>0, <2>1, <2>4, <2>5
  <2> QED
    BY <2>3, <2>6, EffortMove
<1>5. CASE AlertPosts(t)
  <2> PICK u : u = [t EXCEPT !.at = "ack"]
    OBVIOUS
  <2>1. u \in Tasks /\ u.kind = "alert" /\ u.batch = t.batch /\ u.at = "ack"
    BY <1>0, <1>5 DEF Tasks, AlertPosts
  <2>2. tasks' = (tasks \ {t}) \cup {u} /\ t.kind = "alert" /\ t.at = "run"
    BY <1>5 DEF AlertPosts, Replace
  <2>3. ToDo(u) = 1 /\ ToDo(t) = 2
    BY <1>0, <2>1, <2>2, ToDoFacts
  <2>4. ToDo(u) \in Nat /\ ToDo(u) < ToDo(t)
    BY <2>3
  <2> QED
    BY <2>2, <2>4, EffortMove
<1>6. CASE Ack(t)
  <2> PICK R : R = tasks \ {t}
    OBVIOUS
  <2>1. \A v \in tasks : ToDo(v) \in Nat \ {0}
    BY ToDoFacts DEF IInv, TypeOK
  <2>2. /\ Cardinality(Steps(R)) \in Nat
        /\ Cardinality(Steps(tasks)) = Cardinality(Steps(R)) + ToDo(t)
    BY <1>0, <2>1, StepsTake
  <2>3. tasks' = R
    BY <1>6 DEF Ack
  <2>4. Cardinality(Steps(tasks')) < Cardinality(Steps(tasks))
    BY <2>1, <2>2, <2>3
  <2> QED
    BY <2>4 DEF Effort, Steps, ToDo
<1> QED
  BY <1>1, <1>2, <1>3, <1>4, <1>5, <1>6 DEF Work

\* Between two faults or acceptances the workers (celery_app.py) run dry: no order in
\* which they take and finish the messages keeps them busy for ever.
THEOREM WorkEnds == Spec => WorkShrinks
<1>1. IInv /\ [Next]_vars => [(\E t \in tasks : Work(t)) => Effort' < Effort]_vars
  BY WorkStep
<1> QED
  BY <1>1, Invariant, PTL DEF Spec, WorkShrinks

\* Only the enrichment has a place between its two messages.
OnlyEnrichSends == \A t \in tasks : t.at = "send" => t.kind = "enrich"

LEMMA SendStep == IInv /\ OnlyEnrichSends /\ [Next]_vars => OnlyEnrichSends'
<1> SUFFICES ASSUME IInv, OnlyEnrichSends, [Next]_vars, NEW u \in tasks', u.at = "send"
             PROVE  u.kind = "enrich"
  BY DEF OnlyEnrichSends
<1>0. /\ \A t \in tasks : t \in Tasks /\ t.kind \in Kinds /\ t.batch \in Batches
      /\ IsFiniteSet(tasks)
  BY TaskFields DEF IInv
<1>1. CASE u \in tasks
  BY <1>1 DEF OnlyEnrichSends
<1>2. ASSUME NEW kind \in Kinds, NEW b \in Batches PROVE Message(kind, b, 0).at # "send"
  BY <1>0, NewMessage
<1>3. ASSUME NEW t \in tasks, Work(t), u \notin tasks PROVE u.kind = "enrich"
  <2>1. CASE Fetch(t)
    <3>1. u = [t EXCEPT !.at = "run"]
      BY <1>3, <2>1 DEF Fetch, Replace
    <3>2. u.at = "run"
      BY <1>0, <3>1 DEF Tasks
    <3> QED  BY <3>2
  <2>2. CASE EnrichAlerts(t)
    <3>1. u = [t EXCEPT !.at = "send"] \/ u = Message("alert", t.batch, 0)
      BY <1>3, <2>2 DEF EnrichAlerts, Replace
    <3>2. u = [t EXCEPT !.at = "send"]
      BY <1>0, <1>2, <3>1 DEF Kinds
    <3> QED  BY <1>0, <2>2, <3>2 DEF Tasks, EnrichAlerts
  <2>3. CASE EnrichSends(t) \/ AlertPosts(t)
    <3>1. u = [t EXCEPT !.at = "ack"] \/ u = Message("sink", t.batch, 0)
      BY <1>3, <2>3 DEF EnrichSends, AlertPosts, Replace
    <3>2. u = [t EXCEPT !.at = "ack"]
      BY <1>0, <1>2, <3>1 DEF Kinds
    <3>3. u.at = "ack"
      BY <1>0, <3>2 DEF Tasks
    <3> QED  BY <3>3
  <2>4. CASE SinkInserts(t)
    <3> PICK place \in {"ack", "run"} : u = [t EXCEPT !.done = NextChunk(t), !.at = place]
      BY <1>3, <2>4 DEF SinkInserts, Replace
    <3>1. u.at = place
      BY <1>0 DEF Tasks
    <3> QED  BY <3>1
  <2>5. CASE Ack(t)
    BY <1>3, <2>5 DEF Ack
  <2> QED
    BY <1>3, <2>1, <2>2, <2>3, <2>4, <2>5 DEF Work
<1>4. ASSUME NEW t \in tasks, Retry(t), u \notin tasks PROVE FALSE
  BY <1>4, RetryFacts DEF Again
<1>5. ASSUME NEW t \in tasks, WorkerLost(t), u \notin tasks PROVE FALSE
  <2>1. u = [t EXCEPT !.at = "queued", !.done = 0]
    BY <1>5 DEF WorkerLost, Replace
  <2>2. u.at = "queued"
    BY <1>0, <2>1 DEF Tasks
  <2> QED  BY <2>2
<1>6. ASSUME NEW b \in Batches, Accept(b), u \notin tasks PROVE FALSE
  BY <1>2, <1>6 DEF Accept, Kinds
<1>7. ASSUME NEW kind \in Kinds, Evict(kind), u \notin tasks PROVE FALSE
  BY <1>7 DEF Evict
<1> QED
  BY <1>1, <1>3, <1>4, <1>5, <1>6, <1>7 DEF Next, TaskFails, AlertAnswerLost, vars

\* Workers that can do nothing more have left every batch stored or dropped, and its
\* alert posted or dropped; with WorkEnds, all that BatchSettles needs but fairness.
THEOREM StopsWhenSettled == Spec => []StopsSettled
<1>1. Init => OnlyEnrichSends
  BY DEF Init, OnlyEnrichSends
<1>2. ASSUME IInv, OnlyEnrichSends PROVE StopsSettled
  <2>1. ASSUME NEW t \in tasks PROVE \E u \in tasks : Ready(u)
    <3>1. CASE \A u \in tasks : u.at = "queued"
      <4>1. {u \in tasks : u.at # "queued"} = {}
        BY <3>1
      <4>2. Cardinality({u \in tasks : u.at # "queued"}) < Processes
        BY <4>1, FS_EmptySet, PipelineAssumption
      <4> QED
        BY <2>1, <3>1, <4>2 DEF Ready
    <3>2. ASSUME NEW u \in tasks, u.at # "queued" PROVE Ready(u)
      <4>1. u.at \in {"run", "send", "retried", "ack"}
        BY <1>2, <3>2, TaskFields DEF IInv, Tasks
      <4> QED
        BY <1>2, <4>1 DEF Ready, OnlyEnrichSends
    <3> QED
      BY <3>1, <3>2
  <2>2. ASSUME tasks = {}, NEW b \in accepted PROVE Persisted(b) \/ Dropped({"enrich", "sink"}, b)
    BY <1>2, <2>2 DEF IInv, NothingLeftBehind, Carried
  <2>3. ASSUME tasks = {}, NEW b \in accepted, b \in Critical PROVE posted[b] > 0 \/ Dropped(Kinds, b)
    <3>1. CASE Dropped({"enrich", "sink"}, b)
      BY <3>1 DEF Dropped, Kinds
    <3>2. CASE Persisted(b)
      <4>1. b \in Batches /\ Chunks[b] \in Nat \ {0}
        BY <2>3, PipelineAssumption
      <4>2. rows[b][1] > 0 /\ 1 \in 1..Chunks[b]
        BY <3>2, <4>1 DEF Persisted
      <4>3. Alerted(b)
        BY <1>2, <2>3, <4>2 DEF IInv, AlertBeforeRows
      <4> QED
        BY <2>3, <4>3 DEF Alerted, Dropped, Kinds
    <3> QED
      BY <2>2, <2>3, <3>1, <3>2
  <2> QED
    BY <2>1, <2>2, <2>3 DEF StopsSettled
<1> QED
  BY <1>1, <1>2, SendStep, Invariant, PTL DEF Spec

-----------------------------------------------------------------------------
(* Pipeline implements Delivery.  A step of a task that moves on keeps its *)
(* batch in transit (Moved); the batches that stop being in transit are    *)
(* stored or broken because none is left behind (GoneWell); the copies     *)
(* still to come leave room for the one the sink completes (CopyCounts).   *)

LEMMA DeliveryInit == Init => D!Init
<1> SUFFICES ASSUME Init PROVE D!Init
  OBVIOUS
<1>1. InTransit = {} /\ Broken = {}
  BY DEF Init, InTransit, Carried, Broken, Dropped
<1>2. WithAlert = {}
  BY PipelineAssumption DEF Init, WithAlert, Alerted, Dropped
<1>3. Copies = [b \in Batches |-> 0]
  <2>1. \A b \in Batches : Chunks[b] \in 1..Chunks[b]
    BY PipelineAssumption
  <2> QED
    BY <2>1 DEF Init, Copies
<1>4. AllFaults = 0
  BY DEF Init, AllFaults, FaultKinds
<1> QED
  BY <1>1, <1>2, <1>3, <1>4 DEF D!Init

\* Only what was accepted is ever dropped.
DroppedWasAccepted == \A b \in Batches : Dropped(Kinds, b) => b \in accepted

LEMMA TasksAccepted ==
    ASSUME IInv, NEW t \in tasks
    PROVE  t.batch \in accepted
BY TaskFields DEF IInv, Counts, Untouched

LEMMA DroppedStep == IInv /\ DroppedWasAccepted /\ [Next]_vars => DroppedWasAccepted'
<1> SUFFICES ASSUME IInv, DroppedWasAccepted, [Next]_vars,
                    NEW b \in Batches, NEW k \in Kinds, <<k, b>> \in dropped'
             PROVE  b \in accepted'
  BY DEF DroppedWasAccepted, Dropped
<1>1. accepted \subseteq accepted'
  BY DEF Next, vars, Work, Accept, Fetch, EnrichAlerts, EnrichSends, SinkInserts, AlertPosts,
         Ack, TaskFails, AlertAnswerLost, WorkerLost, Evict
<1>2. CASE <<k, b>> \in dropped
  BY <1>1, <1>2 DEF DroppedWasAccepted, Dropped
<1>3. ASSUME NEW t \in tasks, <<k, b>> = <<t.kind, t.batch>> PROVE b \in accepted'
  BY <1>1, <1>3, TasksAccepted
<1>4. <<k, b>> \in dropped \/ \E t \in tasks : <<k, b>> = <<t.kind, t.batch>>
  BY DEF Next, vars, Work, Accept, Fetch, EnrichAlerts, EnrichSends, SinkInserts, AlertPosts,
         Ack, TaskFails, AlertAnswerLost, WorkerLost, Evict, Retry
<1> QED
  BY <1>2, <1>3, <1>4

LEMMA FaultCounts ==
    ASSUME IInv
    PROVE  /\ AllFaults \in Nat /\ Faults \in Nat /\ Faults <= AllFaults
           /\ \A k \in FaultKinds : Suffer(k) => AllFaults' = AllFaults + 1
<1>1. spent \in [FaultKinds -> Nat]
  BY DEF IInv, TypeOK
<1>2. spent["error"] \in Nat /\ spent["crash"] \in Nat /\ spent["evict"] \in Nat
  BY <1>1 DEF FaultKinds
<1>3. AllFaults \in Nat /\ Faults \in Nat /\ Faults <= AllFaults
  BY <1>2 DEF AllFaults, Faults
<1>4. ASSUME NEW k \in FaultKinds, Suffer(k) PROVE AllFaults' = AllFaults + 1
  <2>1. spent' = [spent EXCEPT ![k] = spent[k] + 1]
    BY <1>4 DEF Suffer
  <2>2. /\ spent'["error"] = IF k = "error" THEN spent["error"] + 1 ELSE spent["error"]
        /\ spent'["crash"] = IF k = "crash" THEN spent["crash"] + 1 ELSE spent["crash"]
        /\ spent'["evict"] = IF k = "evict" THEN spent["evict"] + 1 ELSE spent["evict"]
    BY <1>1, <2>1 DEF FaultKinds
  <2>3. k \in {"error", "crash", "evict"}
    BY DEF FaultKinds
  <2> QED
    BY <1>2, <2>2, <2>3 DEF AllFaults
<1> QED
  BY <1>3, <1>4

\* A batch whose message moves on, and may send others, stays in transit.
LEMMA Moved ==
    ASSUME IInv, NEW t \in tasks, NEW u, NEW N, u.kind = t.kind, u.batch = t.batch, u \in N,
           tasks' = (tasks \ {t}) \cup N,
           \A m \in N : m.kind = "alert" \/ (t.kind # "alert" /\ m.batch = t.batch)
    PROVE  InTransit' = InTransit
BY DEF InTransit, Carried

LEMMA MovedOne ==
    ASSUME IInv, NEW t \in tasks, NEW u, u.kind = t.kind, u.batch = t.batch,
           tasks' = (tasks \ {t}) \cup {u}
    PROVE  InTransit' = InTransit
BY DEF InTransit, Carried

\* An alert is as old as its message.
LEMMA NoNewAlert ==
    ASSUME IInv, Next,
           \A b \in Critical : posted'[b] > 0 => Alerted(b),
           \A b \in Critical : <<"alert", b>> \in dropped' => Alerted(b),
           \A v \in tasks' : v.kind = "alert" => v \in tasks \/ Alerted(v.batch)
    PROVE  WithAlert' = WithAlert
<1>1. \A b \in Critical : Alerted(b)' => Alerted(b)
  BY DEF Alerted, Dropped
<1>2. \A b \in Critical : Alerted(b) => Alerted(b)'
  BY AlertedStays, PipelineAssumption
<1> QED
  BY <1>1, <1>2 DEF WithAlert

LEMMA StoredIsStored ==
    ASSUME NEW b \in Batches, Persisted(b)
    PROVE  b \in D!Stored
<1>1. Chunks[b] \in 1..Chunks[b]
  BY PipelineAssumption
<1> QED
  BY <1>1 DEF Persisted, D!Stored, Copies

\* A batch that is no longer in transit is stored or broken.
LEMMA GoneWell ==
    ASSUME IInv, Next, NEW b \in InTransit, b \notin InTransit', rows' = rows
    PROVE  b \in D!Stored \/ b \in Broken'
<1>1. b \in Batches /\ b \in accepted
  BY TasksAccepted DEF InTransit, Carried
<1>2. accepted \subseteq accepted'
  BY DEF Next, Work, Accept, Fetch, EnrichAlerts, EnrichSends, SinkInserts, AlertPosts,
         Ack, TaskFails, AlertAnswerLost, WorkerLost, Evict
<1>3. Persisted(b)' \/ Dropped({"enrich", "sink"}, b)'
  BY <1>1, <1>2, BehindStep DEF NothingLeftBehind, InTransit
<1>4. Persisted(b)' => Persisted(b)
  BY DEF Persisted
<1> QED
  BY <1>1, <1>3, <1>4, StoredIsStored DEF Broken

\* The sink that completes a copy was still to come.
LEMMA CopyCounts ==
    ASSUME IInv, NEW t \in tasks, SinkInserts(t)
    PROVE  /\ t.batch \in InTransit
           /\ t.batch \in Critical => t.batch \in WithAlert
           /\ Copies[t.batch] <= AllFaults
           /\ \/ Copies' = [Copies EXCEPT ![t.batch] = @ + 1]
              \/ Copies' = Copies
<1> DEFINE b == t.batch
           n == t.done + 1
<1>1. /\ b \in Batches /\ Chunks[b] \in Nat /\ t.done \in Nat /\ n \in 1..Chunks[b]
      /\ rows[b] \in [1..Chunks[b] -> Nat]
      /\ rows' = [rows EXCEPT ![b] = [rows[b] EXCEPT ![n] = rows[b][n] + 1]]
  BY InsertFacts
<1>2. t.kind = "sink" /\ t.at = "run"
  BY DEF SinkInserts
<1>3. b \in InTransit
  BY <1>1, <1>2 DEF InTransit, Carried
<1>4. b \in Critical => b \in WithAlert
  BY <1>2 DEF IInv, AlertFirst, WithAlert
<1>5. Copies[b] <= AllFaults
  <2> PICK W : W = tasks \cap Writers(b, Chunks[b])
    OBVIOUS
  <2> PICK c : c = rows[b][Chunks[b]]
    OBVIOUS
  <2>1. Chunks[b] \in 1..Chunks[b] /\ c \in Nat
    BY <1>1
  <2>2. t \in W
    BY <1>1, <1>2, TaskFields DEF IInv, Writers
  <2>3. IsFiniteSet(W)
    BY FS_Intersection DEF IInv
  <2>4. Cardinality(W) \in Nat /\ Cardinality(W) # 0
    BY <2>2, <2>3, FS_CardinalityType, FS_EmptySet
  <2>5. c + Cardinality(W) <= 1 + Faults
    BY <1>1, <2>1, CountTypes DEF Tally
  <2>6. Copies[b] = c
    BY <1>1 DEF Copies
  <2> QED
    BY <2>1, <2>4, <2>5, <2>6, FaultCounts
<1>6. Copies' = [Copies EXCEPT ![b] = @ + 1] \/ Copies' = Copies
  <2>1. DOMAIN rows = Batches
    BY DEF IInv, TypeOK
  <2>2. rows'[b] = [rows[b] EXCEPT ![n] = rows[b][n] + 1] /\ \A c \in Batches : c # b => rows'[c] = rows[c]
    BY <1>1, <2>1
  <2>3. Copies' = [c \in Batches |-> rows'[c][Chunks[c]]]
    BY DEF Copies
  <2>4. CASE n = Chunks[b]
    <3>1. rows'[b][Chunks[b]] = rows[b][Chunks[b]] + 1
      BY <1>1, <2>2, <2>4
    <3>2. Copies' = [Copies EXCEPT ![b] = @ + 1]
      BY <1>1, <2>2, <2>3, <3>1 DEF Copies
    <3> QED
      BY <3>2
  <2>5. CASE n # Chunks[b]
    <3>1. rows'[b][Chunks[b]] = rows[b][Chunks[b]]
      BY <1>1, <2>2, <2>5
    <3>2. Copies' = Copies
      BY <2>2, <2>3, <3>1 DEF Copies
    <3> QED
      BY <3>2
  <2> QED
    BY <2>4, <2>5
<1> QED
  BY <1>3, <1>4, <1>5, <1>6

\* Steps of a worker.
LEMMA DeliveryWork ==
    ASSUME IInv, Next, NEW t \in tasks, Work(t)
    PROVE  [D!Next]_(D!vars)
<1> USE DEF D!vars
<1>0. /\ t \in Tasks /\ t.kind \in Kinds /\ t.batch \in Batches
      /\ t.batch \in accepted
  BY TaskFields, TasksAccepted DEF IInv
<1>1. /\ Broken' = Broken /\ AllFaults' = AllFaults /\ dropped' = dropped
  BY DEF Work, Fetch, EnrichAlerts, EnrichSends, SinkInserts, AlertPosts, Ack,
         Broken, Dropped, AllFaults
<1>2. /\ \A b \in Critical : posted[b] > 0 => Alerted(b)
      /\ \A b \in Critical : <<"alert", b>> \in dropped' => Alerted(b)
  BY <1>1 DEF Alerted, Dropped
<1>3. rows' = rows => Copies' = Copies
  BY DEF Copies
<1>4. CASE Fetch(t)
  <2> PICK u : u = [t EXCEPT !.at = "run"]
    OBVIOUS
  <2>1. u.kind = t.kind /\ u.batch = t.batch
    BY <1>0 DEF Tasks
  <2>2. tasks' = (tasks \ {t}) \cup {u} /\ rows' = rows /\ posted' = posted
    BY <1>4 DEF Fetch, Replace
  <2>3. InTransit' = InTransit
    BY <2>1, <2>2, MovedOne
  <2>4. \A v \in tasks' : v.kind = "alert" => v \in tasks \/ Alerted(v.batch)
    BY <2>1, <2>2 DEF Alerted
  <2>5. WithAlert' = WithAlert
    BY <1>2, <2>2, <2>4, NoNewAlert
  <2> QED
    BY <1>1, <1>3, <2>2, <2>3, <2>5
<1>5. CASE EnrichAlerts(t)
  <2> PICK u : u = [t EXCEPT !.at = "send"]
    OBVIOUS
  <2> PICK m : m = Message("alert", t.batch, 0)
    OBVIOUS
  <2> DEFINE N == {u} \cup {w \in {m} : t.batch \in Critical}
  <2>1. u.kind = "enrich" /\ u.batch = t.batch /\ t.kind = "enrich"
    BY <1>0, <1>5 DEF Tasks, EnrichAlerts
  <2>2. m.kind = "alert" /\ m.batch = t.batch
    BY <1>0, NewMessage DEF IInv, Kinds
  <2>3. tasks' = (tasks \ {t}) \cup N /\ rows' = rows /\ posted' = posted
    BY <1>5 DEF EnrichAlerts, Replace
  <2>4. InTransit' = InTransit
    <3>1. u \in N /\ \A v \in N : v.kind = "alert" \/ (t.kind # "alert" /\ v.batch = t.batch)
      BY <2>1, <2>2
    <3> HIDE DEF N
    <3> QED  BY <2>1, <2>3, <3>1, Moved
  <2>5. t.batch \in InTransit
    BY <1>0, <2>1 DEF InTransit, Carried
  <2>6. CASE t.batch \in Critical
    <3>1. Alerted(t.batch)'
      BY <2>2, <2>3, <2>6 DEF Alerted
    <3>2. \A b \in Critical : Alerted(b)' => Alerted(b) \/ b = t.batch
      BY <1>1, <2>1, <2>2, <2>3 DEF Alerted, Dropped
    <3>3. \A b \in Critical : Alerted(b) => Alerted(b)'
      BY AlertedStays, PipelineAssumption
    <3>4. WithAlert' = WithAlert \cup {t.batch}
      BY <2>6, <3>1, <3>2, <3>3 DEF WithAlert
    <3> QED
      BY <1>1, <1>3, <2>3, <2>4, <2>5, <2>6, <3>4 DEF D!Next, D!Alert
  <2>7. CASE t.batch \notin Critical
    <3>1. \A v \in tasks' : v.kind = "alert" => v \in tasks \/ Alerted(v.batch)
      BY <2>1, <2>3, <2>7
    <3>2. WithAlert' = WithAlert
      BY <1>2, <2>3, <3>1, NoNewAlert
    <3> QED
      BY <1>1, <1>3, <2>3, <2>4, <3>2
  <2> QED
    BY <2>6, <2>7
<1>6. CASE EnrichSends(t)
  <2> PICK u : u = [t EXCEPT !.at = "ack"]
    OBVIOUS
  <2> PICK m : m = Message("sink", t.batch, 0)
    OBVIOUS
  <2>1. u.kind = "enrich" /\ u.batch = t.batch /\ t.kind = "enrich"
    BY <1>0, <1>6 DEF Tasks, EnrichSends
  <2>2. m.kind = "sink" /\ m.batch = t.batch
    BY <1>0, NewMessage DEF IInv, Kinds
  <2>3. tasks' = (tasks \ {t}) \cup {u, m} /\ rows' = rows /\ posted' = posted
    BY <1>6 DEF EnrichSends, Replace
  <2>4. InTransit' = InTransit
    <3> DEFINE N == {u, m}
    <3>1. u \in N /\ \A v \in N : v.kind = "alert" \/ (t.kind # "alert" /\ v.batch = t.batch)
      BY <2>1, <2>2
    <3>2. tasks' = (tasks \ {t}) \cup N
      BY <2>3
    <3> HIDE DEF N
    <3> QED  BY <2>1, <3>1, <3>2, Moved
  <2>5. \A v \in tasks' : v.kind = "alert" => v \in tasks \/ Alerted(v.batch)
    BY <2>1, <2>2, <2>3
  <2>6. WithAlert' = WithAlert
    BY <1>2, <2>3, <2>5, NoNewAlert
  <2> QED
    BY <1>1, <1>3, <2>3, <2>4, <2>6
<1>7. CASE SinkInserts(t)
  <2> PICK place \in {"ack", "run"} : tasks' = (tasks \ {t}) \cup {[t EXCEPT !.done = t.done + 1, !.at = place]}
    BY <1>7 DEF SinkInserts, Replace, NextChunk
  <2> PICK u : u = [t EXCEPT !.done = t.done + 1, !.at = place]
    OBVIOUS
  <2>1. u.kind = "sink" /\ u.batch = t.batch /\ t.kind = "sink"
    BY <1>0, <1>7 DEF Tasks, SinkInserts
  <2>2. tasks' = (tasks \ {t}) \cup {u} /\ posted' = posted
    BY <1>7 DEF SinkInserts
  <2>3. InTransit' = InTransit
    BY <2>1, <2>2, MovedOne
  <2>4. \A v \in tasks' : v.kind = "alert" => v \in tasks \/ Alerted(v.batch)
    BY <2>1, <2>2
  <2>5. WithAlert' = WithAlert
    BY <1>2, <2>2, <2>4, NoNewAlert
  <2>6. /\ t.batch \in InTransit
        /\ t.batch \in Critical => t.batch \in WithAlert
        /\ Copies[t.batch] <= AllFaults
        /\ Copies' = [Copies EXCEPT ![t.batch] = @ + 1] \/ Copies' = Copies
    BY <1>7, CopyCounts
  <2>7. CASE Copies' = [Copies EXCEPT ![t.batch] = @ + 1]
    BY <1>1, <2>3, <2>5, <2>6, <2>7 DEF D!Next, D!Store
  <2>8. CASE Copies' = Copies
    BY <1>1, <2>3, <2>5, <2>8
  <2> QED
    BY <2>6, <2>7, <2>8
<1>8. CASE AlertPosts(t)
  <2> PICK u : u = [t EXCEPT !.at = "ack"]
    OBVIOUS
  <2>1. u.kind = "alert" /\ u.batch = t.batch /\ t.kind = "alert"
    BY <1>0, <1>8 DEF Tasks, AlertPosts
  <2>2. tasks' = (tasks \ {t}) \cup {u} /\ rows' = rows
    BY <1>8 DEF AlertPosts, Replace
  <2>3. InTransit' = InTransit
    BY <2>1, <2>2, MovedOne
  <2>4. \A b \in Critical : posted'[b] > 0 => Alerted(b)
    <3>1. Alerted(t.batch)
      BY <2>1 DEF Alerted
    <3>2. \A b \in Batches : b # t.batch => posted'[b] = posted[b]
      BY <1>8 DEF AlertPosts, IInv, TypeOK
    <3> QED
      BY <1>2, <3>1, <3>2, PipelineAssumption
  <2>5. \A v \in tasks' : v.kind = "alert" => v \in tasks \/ Alerted(v.batch)
    BY <2>1, <2>2 DEF Alerted
  <2>6. WithAlert' = WithAlert
    BY <1>2, <2>4, <2>5, NoNewAlert
  <2> QED
    BY <1>1, <1>3, <2>2, <2>3, <2>6
<1>9. CASE Ack(t)
  <2>1. tasks' = (tasks \ {t}) \cup {} /\ rows' = rows /\ posted' = posted
    BY <1>9 DEF Ack
  <2>2. InTransit' \subseteq InTransit /\ InTransit \subseteq InTransit' \cup {t.batch}
    <3>1. \A m \in {} : m.kind = "alert" \/ (t.kind # "alert" /\ m.batch = t.batch)
      OBVIOUS
    <3> QED  BY <2>1 DEF InTransit, Carried
  <2>3. WithAlert' = WithAlert
    <3>1. \A v \in tasks' : v.kind = "alert" => v \in tasks \/ Alerted(v.batch)
      BY <2>1
    <3> QED  BY <1>2, <2>1, <3>1, NoNewAlert
  <2>4. CASE InTransit' = InTransit
    BY <1>1, <1>3, <2>1, <2>3, <2>4
  <2>5. CASE InTransit' # InTransit
    <3>1. t.batch \in InTransit /\ InTransit' = InTransit \ {t.batch}
      BY <2>2, <2>5
    <3>2. t.batch \in D!Stored \/ t.batch \in Broken
      BY <1>1, <2>1, <3>1, GoneWell
    <3> QED
      BY <1>1, <1>3, <2>1, <2>3, <3>1, <3>2 DEF D!Next, D!Release
  <2> QED
    BY <2>4, <2>5
<1> QED
  BY <1>4, <1>5, <1>6, <1>7, <1>8, <1>9 DEF Work

\* A fault that leaves rows as they are, breaks the batches of B, and stops only them.
LEMMA DeliveryFault ==
    ASSUME IInv, Next, rows' = rows, AllFaults' = AllFaults + 1, WithAlert' = WithAlert,
           NEW B \in SUBSET InTransit, Broken' = Broken \cup B,
           InTransit' \subseteq InTransit, InTransit \subseteq InTransit' \cup B
    PROVE  D!Next
<1>1. Copies' = Copies
  BY DEF Copies
<1>2. InTransit' = InTransit \ (InTransit \ InTransit') /\ InTransit \ InTransit' \in SUBSET B
  OBVIOUS
<1>3. D!Fault
  BY <1>1, <1>2 DEF D!Fault
<1> QED
  BY <1>3 DEF D!Next

\* A task that is retried, or dropped when its retries are used up.
LEMMA DeliveryRetry ==
    ASSUME IInv, Next, NEW t \in tasks, Retry(t), rows' = rows, AllFaults' = AllFaults + 1,
           \A b \in Critical : posted'[b] > 0 => Alerted(b)
    PROVE  D!Next
<1>0. t \in Tasks /\ t.kind \in Kinds /\ t.batch \in Batches
  BY TaskFields DEF IInv
<1>1. ASSUME NEW u, NEW m, Again(t, u, m), dropped' = dropped PROVE D!Next
  <2> PICK N : N = {u, m}
    OBVIOUS
  <2>1. /\ u.kind = t.kind /\ u.batch = t.batch /\ m.kind = t.kind /\ m.batch = t.batch
        /\ tasks' = (tasks \ {t}) \cup N
    BY <1>1 DEF Again
  <2>2. \A v \in N : v.kind = "alert" \/ (t.kind # "alert" /\ v.batch = t.batch)
    BY <2>1
  <2>3. InTransit' = InTransit
    BY <2>1, <2>2, Moved
  <2>4. WithAlert' = WithAlert
    <3>0. t.kind = "alert" => Alerted(t.batch)
      BY DEF Alerted
    <3>1. \A v \in tasks' : v.kind = "alert" => v \in tasks \/ Alerted(v.batch)
      BY <2>1, <3>0
    <3>2. \A b \in Critical : <<"alert", b>> \in dropped' => Alerted(b)
      BY <1>1 DEF Alerted, Dropped
    <3> QED  BY <3>1, <3>2, NoNewAlert
  <2>5. Broken' = Broken \cup {} /\ {} \in SUBSET InTransit /\ InTransit \subseteq InTransit' \cup {}
    BY <1>1, <2>3 DEF Broken, Dropped
  <2> QED
    BY <2>3, <2>4, <2>5, DeliveryFault
<1>2. CASE tasks' = tasks \ {t} /\ dropped' = dropped \cup {<<t.kind, t.batch>>}
  <2> DEFINE B == {b \in {t.batch} : t.kind # "alert"}
  <2>1. B \in SUBSET InTransit
    BY <1>0 DEF InTransit, Carried
  <2>2. Broken' = Broken \cup B
    BY <1>0, <1>2 DEF Broken, Dropped, Kinds
  <2>3. InTransit' \subseteq InTransit /\ InTransit \subseteq InTransit' \cup B
    BY <1>2 DEF InTransit, Carried
  <2>4. WithAlert' = WithAlert
    <3>1. \A v \in tasks' : v.kind = "alert" => v \in tasks \/ Alerted(v.batch)
      BY <1>2
    <3>2. \A b \in Critical : <<"alert", b>> \in dropped' => Alerted(b)
      BY <1>2 DEF Alerted, Dropped
    <3> QED  BY <3>1, <3>2, NoNewAlert
  <2> HIDE DEF B
  <2> QED
    BY <2>1, <2>2, <2>3, <2>4, DeliveryFault
<1> QED
  BY <1>1, <1>2, RetryFacts

LEMMA DeliveryStep == IInv /\ DroppedWasAccepted /\ [Next]_vars => [D!Next]_(D!vars)
<1> SUFFICES ASSUME IInv, DroppedWasAccepted, [Next]_vars PROVE [D!Next]_(D!vars)
  OBVIOUS
<1>0. \A b \in Critical : posted[b] > 0 => Alerted(b)
  BY DEF Alerted
<1>1. ASSUME NEW b \in Batches, Accept(b) PROVE D!Next
  <2> PICK m : m = Message("enrich", b, 0)
    OBVIOUS
  <2>1. m.kind = "enrich" /\ m.batch = b
    BY NewMessage DEF IInv, Kinds
  <2>2. /\ tasks' = tasks \cup {m} /\ rows' = rows /\ posted' = posted
        /\ dropped' = dropped /\ spent' = spent /\ b \notin accepted
    BY <1>1 DEF Accept
  <2>3. InTransit' = InTransit \cup {b}
    BY <2>1, <2>2 DEF InTransit, Carried
  <2>4. b \notin InTransit
    BY <2>2, TasksAccepted DEF InTransit, Carried
  <2>5. b \notin Broken
    BY <2>2 DEF Broken, DroppedWasAccepted, Dropped, Kinds
  <2>6. b \notin D!Stored
    <3>1. Chunks[b] \in 1..Chunks[b]
      BY PipelineAssumption
    <3>2. rows[b][Chunks[b]] = 0
      BY <2>2, <3>1 DEF IInv, Counts, Untouched
    <3> QED  BY <3>2 DEF D!Stored, Copies
  <2>7. WithAlert' = WithAlert
    BY <2>1, <2>2 DEF WithAlert, Alerted, Dropped
  <2>8. Copies' = Copies /\ Broken' = Broken /\ AllFaults' = AllFaults
    BY <2>2 DEF Copies, Broken, Dropped, AllFaults
  <2> QED
    BY <2>3, <2>4, <2>5, <2>6, <2>7, <2>8 DEF D!Next, D!Accept
<1>2. ASSUME NEW t \in tasks, Work(t), Next PROVE [D!Next]_(D!vars)
  BY <1>2, DeliveryWork
<1>3. ASSUME NEW t \in tasks, TaskFails(t), Next PROVE D!Next
  <2>1. Retry(t) /\ rows' = rows /\ posted' = posted /\ Suffer("error")
    BY <1>3 DEF TaskFails
  <2>2. AllFaults' = AllFaults + 1
    BY <2>1, FaultCounts DEF FaultKinds
  <2> QED
    BY <1>0, <1>3, <2>1, <2>2, DeliveryRetry
<1>4. ASSUME NEW t \in tasks, AlertAnswerLost(t), Next PROVE D!Next
  <2>1. /\ Retry(t) /\ rows' = rows /\ Suffer("error") /\ t.kind = "alert"
        /\ posted' = [posted EXCEPT ![t.batch] = @ + 1]
    BY <1>4 DEF AlertAnswerLost
  <2>2. AllFaults' = AllFaults + 1
    BY <2>1, FaultCounts DEF FaultKinds
  <2>3. Alerted(t.batch) /\ \A b \in Batches : b # t.batch => posted'[b] = posted[b]
    BY <2>1 DEF Alerted, IInv, TypeOK
  <2>4. \A b \in Critical : posted'[b] > 0 => Alerted(b)
    BY <1>0, <2>3, PipelineAssumption
  <2> QED
    BY <1>4, <2>1, <2>2, <2>4, DeliveryRetry
<1>5. ASSUME NEW t \in tasks, WorkerLost(t), Next PROVE D!Next
  <2> PICK u : u = [t EXCEPT !.at = "queued", !.done = 0]
    OBVIOUS
  <2>0. t \in Tasks
    BY TaskFields DEF IInv
  <2>1. u.kind = t.kind /\ u.batch = t.batch
    BY <2>0 DEF Tasks
  <2>2. /\ tasks' = (tasks \ {t}) \cup {u} /\ rows' = rows /\ posted' = posted
        /\ dropped' = dropped /\ Suffer("crash")
    BY <1>5 DEF WorkerLost, Replace
  <2>3. InTransit' = InTransit
    BY <2>1, <2>2, MovedOne
  <2>4. WithAlert' = WithAlert
    <3>0. t.kind = "alert" => Alerted(t.batch)
      BY DEF Alerted
    <3>1. \A v \in tasks' : v.kind = "alert" => v \in tasks \/ Alerted(v.batch)
      BY <2>1, <2>2, <3>0
    <3>2. \A b \in Critical : <<"alert", b>> \in dropped' => Alerted(b)
      BY <2>2 DEF Alerted, Dropped
    <3> QED  BY <1>0, <1>5, <2>2, <3>1, <3>2, NoNewAlert
  <2>5. Broken' = Broken \cup {} /\ {} \in SUBSET InTransit /\ InTransit \subseteq InTransit' \cup {}
    BY <2>2, <2>3 DEF Broken, Dropped
  <2>6. AllFaults' = AllFaults + 1
    BY <2>2, FaultCounts DEF FaultKinds
  <2> QED
    BY <1>5, <2>2, <2>3, <2>4, <2>5, <2>6, DeliveryFault
<1>6. ASSUME NEW kind \in Kinds, Evict(kind), Next PROVE D!Next
  <2> PICK W : W = {t \in tasks : t.kind = kind /\ t.at = "queued"}
    OBVIOUS
  <2> DEFINE B == {b \in Batches : kind # "alert" /\ \E t \in W : t.batch = b}
  <2>1. /\ tasks' = tasks \ W /\ dropped' = dropped \cup {<<t.kind, t.batch>> : t \in W}
        /\ rows' = rows /\ posted' = posted /\ Suffer("evict")
    BY <1>6 DEF Evict
  <2>2. \A t \in W : t \in tasks /\ t.kind = kind /\ t.batch \in Batches
    BY TaskFields DEF IInv
  <2>3. B \in SUBSET InTransit
    BY <2>2 DEF InTransit, Carried
  <2>4. Broken' = Broken \cup B
    <3>1. ASSUME NEW b \in Batches PROVE b \in Broken' <=> b \in Broken \/ b \in B
      BY <2>1, <2>2 DEF Broken, Dropped, Kinds
    <3> QED  BY <3>1 DEF Broken
  <2>5. InTransit' \subseteq InTransit /\ InTransit \subseteq InTransit' \cup B
    BY <2>1, <2>2 DEF InTransit, Carried
  <2>6. WithAlert' = WithAlert
    <3>1. \A v \in tasks' : v.kind = "alert" => v \in tasks \/ Alerted(v.batch)
      BY <2>1
    <3>2. \A b \in Critical : <<"alert", b>> \in dropped' => Alerted(b)
      BY <2>1, <2>2 DEF Alerted, Dropped
    <3> QED  BY <1>0, <1>6, <2>1, <3>1, <3>2, NoNewAlert
  <2>7. AllFaults' = AllFaults + 1
    BY <2>1, FaultCounts DEF FaultKinds
  <2> HIDE DEF B
  <2> QED
    BY <1>6, <2>1, <2>3, <2>4, <2>5, <2>6, <2>7, DeliveryFault
<1>7. CASE UNCHANGED vars
  BY <1>7 DEF vars, D!vars, InTransit, Carried, Copies, WithAlert, Alerted, Broken, Dropped, AllFaults
<1> QED
  BY <1>1, <1>2, <1>3, <1>4, <1>5, <1>6, <1>7 DEF Next

\* The Celery tasks (celery_app.py, intel_tasks.py, sink_tasks.py) keep the promise of
\* Delivery, for any number of batches, workers, retries and faults.
THEOREM Implementation == Spec => ImplementsDelivery
<1>1. Init => DroppedWasAccepted
  BY DEF Init, DroppedWasAccepted, Dropped
<1> QED
  BY <1>1, DeliveryInit, DroppedStep, DeliveryStep, Invariant, PTL
     DEF Spec, ImplementsDelivery, D!Spec
=============================================================================

------------------------------ MODULE FeedSync ------------------------------
(***************************************************************************)
(* The tasks that fill threat_intel: sync_all_feeds and the               *)
(* _bulk_upsert_domains of its feeds (backend/workers/feed_tasks.py),      *)
(* run by several Celery workers at once, as a redelivered or an operator's*)
(* sync overlaps the one of Celery Beat.  Each feed is one database        *)
(* session: a SELECT and an INSERT for each domain, in the order of a      *)
(* Python set, and one commit at the end.                                  *)
(*                                                                         *)
(* PostgreSQL is modelled as the code meets it: a SELECT sees what is      *)
(* committed, an INSERT waits while another session holds the same domain  *)
(* uncommitted and raises IntegrityError when it is committed, and a cycle *)
(* of waiting sessions ends with an error in one of them.                  *)
(*                                                                         *)
(* Abstracted: HTTP, CSV and URL parsing (Offers is what a feed yields),   *)
(* is_whitelisted (DomainNames), and the Umbrella feed (Enrichment).       *)
(***************************************************************************)
EXTENDS Integers, Sequences, FiniteSets

CONSTANTS
    Domains,
    Order,        \* threat types of the feeds in the order they are synced
    Offers,       \* [type |-> domains of that feed]
    Trusted,      \* domains is_whitelisted knows
    Workers,      \* Celery workers that take feed tasks
    MaxFaults,    \* bound: failed fetches, database errors and crashes
    MaxOverlaps,  \* bound: syncs that start while another one runs
    None          \* no entry, no domain

Types == {Order[i] : i \in DOMAIN Order}

ASSUME FeedSyncAssumption ==
    /\ Order \in Seq(Types) /\ Order # <<>>
    /\ Domains # {} /\ IsFiniteSet(Domains)
    /\ Offers \in [Types -> SUBSET Domains]
    /\ Trusted \subseteq Domains
    /\ None \notin Types \cup Domains
    /\ MaxFaults \in Nat /\ MaxOverlaps \in Nat

VARIABLES
    threats,     \* threat_intel as committed: domain and threat_type
    at,          \* where each worker stands
    feed,        \* index of the feed it syncs
    todo,        \* domains of the feed it has not looked at
    cur,         \* the domain whose INSERT it has begun
    held,        \* rows it has flushed and not committed
    dropped,     \* rows a conflict has rolled back in this session
    inserted, skipped,   \* the counts it will report
    faults, overlaps

bounds == <<faults, overlaps>>
session == <<todo, cur, held, dropped, inserted, skipped>>
vars == <<threats, at, feed, session, bounds>>

All(v) == [w \in Workers |-> v]

Init ==
    /\ threats = [d \in Domains |-> None]
    /\ at = All("idle") /\ feed = All(1)
    /\ todo = All({}) /\ cur = All(None) /\ held = All({}) /\ dropped = All({})
    /\ inserted = All(0) /\ skipped = All(0)
    /\ faults = 0 /\ overlaps = 0

-----------------------------------------------------------------------------
Type(w) == Order[feed[w]]
Go(w, place) == at' = [at EXCEPT ![w] = place]

\* Mutant: a session is left open, and its rows with it.
LeftOpen(w, D) ==
    /\ todo' = [todo EXCEPT ![w] = D]
    /\ cur' = [cur EXCEPT ![w] = None]
    /\ UNCHANGED held
    /\ dropped' = [dropped EXCEPT ![w] = {}]
    /\ inserted' = [inserted EXCEPT ![w] = 0]
    /\ skipped' = [skipped EXCEPT ![w] = 0]

\* A session starts with nothing done, and leaves nothing behind.
Open(w, D) ==
    /\ todo' = [todo EXCEPT ![w] = D]
    /\ cur' = [cur EXCEPT ![w] = None]
    /\ held' = [held EXCEPT ![w] = {}]
    /\ dropped' = [dropped EXCEPT ![w] = {}]
    /\ inserted' = [inserted EXCEPT ![w] = 0]
    /\ skipped' = [skipped EXCEPT ![w] = 0]

\* sync_all_feeds goes on with the next feed, or returns.
NextFeed(w) ==
    /\ Open(w, {})
    /\ IF feed[w] = Len(Order) THEN Go(w, "idle") /\ feed' = [feed EXCEPT ![w] = 1]
       ELSE Go(w, "fetch") /\ feed' = [feed EXCEPT ![w] = @ + 1]

\* Beat starts sync_all_feeds every six hours, and now and then an operator or a
\* redelivery does while it still runs.
Start(w) ==
    /\ at[w] = "idle"
    /\ IF \A v \in Workers : at[v] = "idle" THEN UNCHANGED overlaps
       ELSE overlaps < MaxOverlaps /\ overlaps' = overlaps + 1
    /\ Go(w, "fetch")
    /\ UNCHANGED <<threats, feed, session, faults>>

\* The feed answers; an empty one opens no session.
Fetch(w) ==
    /\ at[w] = "fetch"
    /\ IF Offers[Type(w)] = {} THEN NextFeed(w)
       ELSE Open(w, Offers[Type(w)]) /\ Go(w, "pick") /\ UNCHANGED feed
    /\ UNCHANGED <<threats, bounds>>

\* Mutant: trusted domains are looked up and inserted like the others.
SkippableListed(d) == threats[d] # None

\* A trusted domain, or one the SELECT finds.
Skippable(d) == d \in Trusted \/ threats[d] # None

\* The next domain of the set is skipped ...
Skip(w) ==
    /\ at[w] = "pick"
    /\ \E d \in todo[w] :
          /\ Skippable(d)
          /\ todo' = [todo EXCEPT ![w] = @ \ {d}]
    /\ skipped' = [skipped EXCEPT ![w] = @ + 1]
    /\ UNCHANGED <<threats, at, feed, cur, held, dropped, inserted, bounds>>

\* ... or added to the session, before the flush that inserts it.
Add(w) ==
    /\ at[w] = "pick"
    /\ \E d \in todo[w] :
          /\ ~Skippable(d)
          /\ todo' = [todo EXCEPT ![w] = @ \ {d}]
          /\ cur' = [cur EXCEPT ![w] = d]
    /\ Go(w, "flush")
    /\ UNCHANGED <<threats, feed, held, dropped, inserted, skipped, bounds>>

\* The INSERT of w waits for the transaction of v.
Waits(w, v) == v # w /\ at[w] = "flush" /\ cur[w] \in held[v]

Blocked(w) == \E v \in Workers : Waits(w, v)

\* Mutant: a row is counted before the flush and after it.
FlushCountsTwice(w) ==
    /\ at[w] = "flush" /\ ~Blocked(w) /\ threats[cur[w]] = None
    /\ held' = [held EXCEPT ![w] = @ \cup {cur[w]}]
    /\ inserted' = [inserted EXCEPT ![w] = @ + 2]
    /\ cur' = [cur EXCEPT ![w] = None]
    /\ Go(w, "pick")
    /\ UNCHANGED <<threats, feed, todo, dropped, skipped, bounds>>

\* The flush inserts the row.
Flush(w) ==
    /\ at[w] = "flush" /\ ~Blocked(w) /\ threats[cur[w]] = None
    /\ held' = [held EXCEPT ![w] = @ \cup {cur[w]}]
    /\ inserted' = [inserted EXCEPT ![w] = @ + 1]
    /\ cur' = [cur EXCEPT ![w] = None]
    /\ Go(w, "pick")
    /\ UNCHANGED <<threats, feed, todo, dropped, skipped, bounds>>

\* Mutant: a conflict ends the loop.
ConflictBreaks(w) ==
    /\ at[w] = "flush" /\ ~Blocked(w) /\ threats[cur[w]] # None
    /\ held' = [held EXCEPT ![w] = {}]
    /\ dropped' = [dropped EXCEPT ![w] = @ \cup held[w]]
    /\ skipped' = [skipped EXCEPT ![w] = @ + 1]
    /\ cur' = [cur EXCEPT ![w] = None]
    /\ todo' = [todo EXCEPT ![w] = {}]
    /\ Go(w, "pick")
    /\ UNCHANGED <<threats, feed, inserted, bounds>>

\* Another sync has committed the domain since the SELECT: IntegrityError, and the
\* rollback undoes every row of the session, though `inserted` still counts them.
Conflict(w) ==
    /\ at[w] = "flush" /\ ~Blocked(w) /\ threats[cur[w]] # None
    /\ held' = [held EXCEPT ![w] = {}]
    /\ dropped' = [dropped EXCEPT ![w] = @ \cup held[w]]
    /\ skipped' = [skipped EXCEPT ![w] = @ + 1]
    /\ cur' = [cur EXCEPT ![w] = None]
    /\ Go(w, "pick")
    /\ UNCHANGED <<threats, feed, todo, inserted, bounds>>

\* The table after the commit of w.
Committed(w) == [d \in Domains |-> IF d \in held[w] THEN Type(w) ELSE threats[d]]

\* The set is done: commit, report, next feed.
Commit(w) ==
    /\ at[w] = "pick" /\ todo[w] = {}
    /\ threats' = Committed(w)
    /\ NextFeed(w)
    /\ UNCHANGED bounds

\* Mutant: nobody breaks the cycle.
DeadlockStays(w) == FALSE /\ UNCHANGED vars

\* PostgreSQL finds w in a cycle of waiting sessions ...
Deadlocked(w) ==
    \E S \in SUBSET Workers :
        /\ w \in S
        /\ \A v \in S : (\E u \in S : Waits(v, u)) /\ (\E u \in S : Waits(u, v))

\* ... OperationalError, which is no IntegrityError, so the session is rolled back
\* and the feed fails.
DeadlockError(w) ==
    /\ Deadlocked(w)
    /\ NextFeed(w)
    /\ UNCHANGED <<threats, bounds>>

Fault == faults < MaxFaults /\ faults' = faults + 1 /\ UNCHANGED overlaps

\* The fetch fails (self.retry of a task called as a function raises), or the
\* database does: the session is rolled back and sync_all_feeds goes on.
FeedFails(w) ==
    /\ Fault /\ at[w] # "idle"
    /\ NextFeed(w)
    /\ UNCHANGED threats

\* The worker dies.  Its message is delivered again, to the process that replaces it
\* or to any idle one, and starts from the first feed.
Crash(w) ==
    /\ Fault /\ at[w] # "idle"
    /\ Open(w, {})
    /\ feed' = [feed EXCEPT ![w] = 1]
    /\ \E v \in Workers :
          /\ v = w \/ at[v] = "idle"
          /\ at' = [at EXCEPT ![w] = "idle", ![v] = "fetch"]
    /\ UNCHANGED threats

-----------------------------------------------------------------------------
Step(w) == \/ Fetch(w) \/ Skip(w) \/ Add(w) \/ Flush(w) \/ Conflict(w)
           \/ Commit(w) \/ DeadlockError(w)

Next ==
    \E w \in Workers : Start(w) \/ Step(w) \/ FeedFails(w) \/ Crash(w)

Spec == Init /\ [][Next]_vars

\* A running task goes on, and Beat starts the next sync every six hours.
Fairness == \A w \in Workers : WF_vars(Step(w)) /\ WF_vars(Start(w))

FairSpec == Spec /\ Fairness

-----------------------------------------------------------------------------
TypeOK ==
    /\ threats \in [Domains -> Types \cup {None}]
    /\ at \in [Workers -> {"idle", "fetch", "pick", "flush"}]
    /\ feed \in [Workers -> 1..Len(Order)]
    /\ todo \in [Workers -> SUBSET Domains]
    /\ cur \in [Workers -> Domains \cup {None}]
    /\ \A w \in Workers : at[w] = "flush" => cur[w] # None
    /\ held \in [Workers -> SUBSET Domains]
    /\ dropped \in [Workers -> SUBSET Domains]
    /\ inserted \in [Workers -> Nat] /\ skipped \in [Workers -> Nat]
    /\ faults \in 0..MaxFaults /\ overlaps \in 0..MaxOverlaps

\* The domain whose INSERT waits.
Current(w) == IF at[w] = "flush" THEN {cur[w]} ELSE {}

\* Within a session no domain of the feed gets lost but by a conflict: it is still
\* to come, flushed, listed by some feed, trusted, or rolled back with the others.
OnlyConflictsDrop ==
    \A w \in Workers : at[w] \in {"pick", "flush"} =>
        Offers[Type(w)] \subseteq
            {d \in Domains : threats[d] # None} \cup Trusted
                \cup todo[w] \cup Current(w) \cup held[w] \cup dropped[w]

\* The counts that sync_all_feeds reports: every domain of the feed is counted once,
\* and "inserted" exceeds what the commit will add by the rows rolled back.
CountsExplained ==
    \A w \in Workers : at[w] \in {"pick", "flush"} =>
        /\ inserted[w] = Cardinality(held[w]) + Cardinality(dropped[w])
        /\ inserted[w] + skipped[w] + Cardinality(todo[w] \cup Current(w))
              = Cardinality(Offers[Type(w)])

TT == INSTANCE ThreatTable WITH
          Feeds <- [d \in Domains |-> {t \in Types : d \in Offers[t] \ Trusted}]

\* The table only ever grows, by domains of one feed at a time with that feed's
\* type, none of them trusted: what the sessions do to it in any interleaving.
ImplementsThreatTable == TT!Spec

\* Rolled-back rows, deadlocks and faults only delay: no sync waits for ever for the
\* rows of another, though two sessions insert common domains in different orders,
\* and with a sync every six hours every domain of every feed that is not trusted
\* ends up in the table.
Converges ==
    /\ \A w \in Workers : at[w] # "idle" ~> at[w] = "idle"
    /\ <>(\A t \in Types : \A d \in Offers[t] \ Trusted : threats[d] # None)

-----------------------------------------------------------------------------
(* What of Converges is safety: everything but the fairness rule.          *)

\* More than any session takes: the fetch, and a look and a flush for each domain.
SessionSteps == 2 * Cardinality(Domains) + 2

\* The most steps w can still take before its task returns.
Left(w) ==
    IF at[w] = "idle" THEN 0
    ELSE (Len(Order) - feed[w]) * SessionSteps
            + CASE at[w] = "fetch" -> SessionSteps
                [] at[w] = "pick" -> 2 * Cardinality(todo[w]) + 1
                [] at[w] = "flush" -> 2 * Cardinality(todo[w]) + 2

\* Every step of a sync, a conflict and a deadlock too, brings its end nearer, and
\* no other sync, whatever it commits or rolls back, adds to what it has to do: the
\* loop has no retry in it.  Only a crash starts a sync over.
SyncsShrink ==
    [][\A w \in Workers :
          /\ Step(w) => Left(w)' < Left(w)
          /\ Left(w)' > Left(w) => Start(w) \/ \E v \in Workers : Crash(v)]_vars

\* w has a step to take: it waits for nobody, or is to be the victim of a deadlock.
Ready(w) ==
    \/ at[w] \in {"fetch", "pick"}
    \/ at[w] = "flush" /\ ~Blocked(w)
    \/ Deadlocked(w)

\* Running syncs are never all stuck: of any of them, with those they wait for, and
\* those that these wait for in turn, one can go on.
NobodyStuck ==
    \A S \in SUBSET Workers :
        /\ \E v \in S : at[v] # "idle"
        /\ \A v \in S, u \in Workers : Waits(v, u) => u \in S
        => \E v \in S : Ready(v)

\* A commit without a conflict before it puts the whole feed into the table: no
\* domain needs a second sync for another reason.
CleanSyncCompletes ==
    [][\A w \in Workers : Commit(w) /\ dropped[w] = {} =>
          \A d \in Offers[Type(w)] \ Trusted : threats'[d] # None]_vars

-----------------------------------------------------------------------------
(* The inductive invariant behind the safety properties: the unique key of *)
(* the table, and how the parts of a session relate.                       *)

\* The unique key of the table, over what is committed and what is flushed.
KeysUnique ==
    /\ \A w \in Workers : \A d \in held[w] : threats[d] = None
    /\ \A w, v \in Workers : w # v => held[w] \cap held[v] = {}

\* A domain of the feed is in one part of the session at most; the rows are those of
\* domains that are not trusted; outside a session there are none.
Sessions ==
    \A w \in Workers :
        /\ at[w] \in {"idle", "fetch"} => held[w] = {}
        /\ at[w] \in {"pick", "flush"} =>
              /\ todo[w] \cup Current(w) \cup held[w] \cup dropped[w] \subseteq Offers[Type(w)]
              /\ todo[w] \cap (Current(w) \cup held[w] \cup dropped[w]) = {}
              /\ Current(w) \cap (held[w] \cup dropped[w]) = {}
              /\ held[w] \cap dropped[w] = {}
              /\ (Current(w) \cup held[w]) \cap Trusted = {}

IInv == TypeOK /\ KeysUnique /\ Sessions /\ OnlyConflictsDrop /\ CountsExplained
=============================================================================

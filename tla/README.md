# NovaGuard: a TLA+ model, its checks and its proofs

NovaGuard watches the DNS traffic of a network. An **edge agent** (`src/agent/`) captures
queries on a host and sends them in batches to a **server** (`src/backend/`), which classifies
the domains, stores the logs, raises alerts, tells the agents which sources to quarantine, and
serves what it knows to STIX clients and dashboards. This directory models the parts in which
order, concurrency and failure decide whether the system is right, checks small instances with
TLC and proves the main results with TLAPS for every value of the constants.

## 1. Inventory

| Component | State it keeps | Operations | Interacts by |
|---|---|---|---|
| Sender `agent/buffer_sender.py` | memory buffer, batch in flight, SQLite table `pending_logs`, health flag, backoff, counters | `run`, `_flush`, `_final_flush`, `_send_batch`, `_persist_to_sqlite`, `_drain_sqlite` | IPC queue in, HTTP out |
| Agent lifecycle `agent/sniffer.py` `main`, `signal_handler` | `shutdown_triggered`, `stop_event`, four processes, the bounded IPC queue with its feeder threads and pipe | start, join, timed join and `terminate`, sentinel, exit functions | events, signals, queue |
| Capture `_scapy_worker` | none but the queue | `process_packet`, `stop_filter` | queue, `stop_event` |
| IPS listener `_ips_worker` | subscription, iptables rules of the host | receive, validate, look for a rule, add or delete it, reconnect | Redis pub/sub, iptables |
| Ingestion API `api/v1/ingest_router.py`, `domain/schemas.py` | none | validate a batch, enqueue it, answer 202 | Celery message |
| Celery tasks `workers/` (`intel`, `sink`, `alert`) and `celery_app.py` | messages in three queues, rows of `dns_logs` | enrich, insert in chunks, post to the webhook; acks_late, requeue, retry | messages, PostgreSQL, webhook |
| Classification `intel_tasks.py` steps 1-4 | Redis keys `domain:*` (24 h), `whitelist:top_domains`, table `threat_intel` | five round trips per batch | shared Redis and database |
| Threat feeds `feed_tasks.py` | `threat_intel`, the whitelist, one session per feed | `sync_all_feeds`, `sync_urlhaus`, `sync_phishtank`, `sync_top_domains`, `_bulk_upsert_domains` | row locks, commits, Redis commands |
| Domain names `core/entropy.py`, `is_whitelisted` | none (pure) | registered domain, measured label, entropy gate, density filters, exclusions | calls |
| TAXII `api/v1/taxii_router.py` | none; the client keeps `added_after` and its objects | a poll: newest threats after a time, as STIX objects | reads `dns_logs` |
| Query API `api/v1/query_router.py`, `log_repo.py` | none | count and page; statistics, statement by statement | reads `dns_logs` |
| Security, config, async cache helper, models, migrations, scripts, deployment | none, or declarations | | |

What is hard in it:

* the sender acts on an outside world that fails between any two of its steps (API, answer,
  disk, process), and has to keep every log in exactly one place;
* the agent's shutdown is a protocol of timed joins between four processes, run inside a signal
  handler, on top of a queue with hidden threads and a lock that `terminate()` can break;
* a batch on the server is a chain of messages with at-least-once delivery, bounded retries and
  several transactions;
* a verdict is computed from four reads of shared state, each of which others change meanwhile,
  and is then stored for a day;
* two feed syncs insert overlapping sets in the order of a Python set, in sessions that one
  conflict rolls back, and can wait for each other;
* a quarantine is broadcast at most once, to listeners that look for a rule and then add it, while
  another agent of the host does the same;
* three kinds of readers put one answer together from several statements, or one feed from
  several polls, while rows arrive late and out of order;
* names are cut at dots by three pieces of code, with three lists, that have to agree.

What makes each component correct: the sender neither loses nor duplicates a log without a
fault and always ends on the sentinel; the shutdown ends and saves what was captured; an
accepted batch is never left half processed without a message that carries it; a verdict never
names a threat that is not listed, and a stale one dies out; every feed's domains get into the
table whatever the syncs do to each other; a firewall ends up as the last order says and never
locks its own host out; a client that follows the feed misses only what can be explained, and the
figures of one response do not contradict each other; all names below a base are treated alike.
`PROJECT.json` lists each hazard at its line with the properties that cover it; a note says what they
leave open, or why no property covers it.

## 2. Modules

| Module | Models | Extends or uses |
|---|---|---|
| `Outbox` | what the sender promises: four variables, four actions | |
| `BufferSender` (`BufferSenderMC`) | the sender process, step by step | instantiates `Outbox` for the refinement |
| `AgentLifecycle` | the agent's processes and their end | |
| `Delivery` | what the server promises about an accepted batch: five variables, five actions | |
| `Pipeline` (`PipelineMC`) | messages, transactions and alerts of a batch on the server | instantiates `Delivery` |
| `ThreatTable` | what `threat_intel` promises to its readers: one variable, one action | |
| `Enrichment` (`EnrichmentMC`) | verdicts, caches, feeds and whitelist | instantiates `ThreatTable` |
| `FeedSync` (`FeedSyncMC`) | the syncs of the feeds as database sessions | instantiates `ThreatTable` |
| `DomainNames` (`DomainNamesMC`) | registered domains, whitelists and DGA rules on names | |
| `Quarantine` (`QuarantineMC`) | the IPS channel, its listeners and the rules of the hosts | |
| `LogReads` (`LogReadsMC`) | the readers of `dns_logs` while it grows | |
| `*_proof` | theorems and proofs, one module each for all but `Outbox`, `Delivery` and `ThreatTable` | the module, TLAPS |

The models meet at named interfaces. `AgentLifecycle` sees the sender from outside and shows on
its side what `BufferSender` assumes (`SentinelIsLast`: nothing is captured after the sentinel, the
guard of `Capture`). `BufferSender` ends where the API accepts a batch; `Pipeline` begins there
(`Accept`), and a batch the sender repeats is a new batch to it, as the API gives each request a
new UUID. `Enrichment` is the inside of the first task of `Pipeline`; a task that fails there ends
and is a new `Begin` on its retry. `ThreatTable` joins the two that share `threat_intel`: the
sessions of `FeedSync` implement it, and the feeds that overtake the tasks in `Enrichment` are
steps of it, so what `Enrichment` shows holds for the syncs as they are. `DomainNames` is the
inside of the constants `Dga` and `Registered` of `Enrichment` and `Trusted` of `FeedSync`. The
command that `Detect` of `Quarantine` publishes is the one for which `Enrichment` has
`Quarantined`. The rows that `Commit` of `LogReads` adds are those of `SinkInserts` of `Pipeline`,
two copies of a row included.

### BufferSender

One sequential process, so the control state is a program counter. A step is everything the
code does between two points that something outside can see or cut short: a `get` on the queue,
the POST reaching the API, its answer, one SQLite transaction.

| Code | Model |
|---|---|
| `_buffer`, the local `batch` or the row of `_drain_sqlite` | `buffer`, `flight` (`row = 0`: from memory) |
| the caller a POST returns to | `ctx`: `size`, `time`, `final`, `drain` |
| `pending_logs` and its AUTOINCREMENT key | `pending`, `nextId` |
| `_api_healthy`, `_current_backoff`, `stats` | `healthy`, `backoff`, `stats` |
| the three branches of `run`: a log, `Empty`, the sentinel | `GetLog`, `GetTimeout`, `GetStop` |
| `_send_batch` | `PostAccepted`, `PostAnswerLost`, `PostFailed`, then `AnswerOk`, `AnswerFail` |
| `_persist_to_sqlite` | `Persist`, `PersistFails` (the exception is swallowed) |
| `_drain_sqlite` | `SelectRow`, `DeleteRow`, `DrainFails` |

`received`, `captured`, `lost`, `orphaned` and `spent` are history variables; `spent` counts faults
of five kinds (outage, lost answer, disk error, crash, restart) against the bounds `MaxFaults`.
A restart keeps the agent id (`--agent-id`) or makes a new one, as `AgentIdFixed` allows; the rows
of another id are `orphaned`, since `_drain_sqlite` selects by id. `Poison` logs are those
`DNSLogItem` refuses, which fail a whole batch with 422.

### AgentLifecycle

`main` is one program counter that also stands for the handler, which interrupts it. Each timed
join is a choice: the child has ended, or it is in something that can outlast the timeout
(`SlowScapy`, `SlowSender`) and is terminated. The multiprocessing queue is modelled by what
its implementation does: a counted bound, a feeder thread per writing process, a pipe of limited
capacity, one write lock, and the wait for the feeder at the exit of a process. A terminated
process skips that wait, leaves its items counted, and, if its feeder was blocked, leaves the
lock taken. `Signal("ctrlc")` reaches the whole process group, `Signal("term")` only `main`.

### Pipeline

A message is a record with its kind, batch, retries and the place its task has reached; it stays
in `tasks` until it is acknowledged. A retry is two steps, as in Celery: `Retry` sends a new message
with one more retry and a fresh start, and the old one waits at `retried` for its `Ack`; a worker that
dies between the two leaves both. A lost worker gives a message back unchanged; the sink's position in
the batch is in the task, not in the message, so both start again with the first chunk. `Evict` is `allkeys-lru` taking a queue.
The logs of one chunk are one transaction, hence one counter. The webhook is configured.

`Delivery` says the same without queues: a batch is carried until the database has all of it; a copy
beyond the first needs a fault of its own; only a fault takes a batch away unstored; the alert is
sent before anything is stored. In the mapping a batch is carried while a message for its rows
exists (`InTransit`), its copies are those of its last chunk (`Copies`, since `RowsArePrefixes`),
and the faults are errors, crashes and evictions together.

### Enrichment

Each worker is one program counter with the locals of `process_and_enrich_batch`. Each round
trip is one action. `SyncFeed` is the one commit of a feed sync; it commits any part of the feed's
domains, since a conflict rolls back the ones before it. `SyncDeletes`, `SyncAdds` and `SyncFails`
are the Redis commands of `sync_top_domains`. Nothing keeps two runs of it apart (Beat, `sync_all_feeds`
and a redelivery start it), so `loading` holds what each running one has still to add, and one may
delete what another has added; `MaxSyncs` bounds how many overlap.

### FeedSync

A worker is a program counter (`fetch`, `pick`, `flush`) with the locals of `_bulk_upsert_domains`:
`todo` is the Python set it iterates, in any order; `held` are rows it has flushed and not
committed; `dropped` (history) the rows its session has lost to a rollback. PostgreSQL is what the
code meets of it: `Waits` (an INSERT waits for another session's key), `Conflict` (the key turned
out to be committed: `IntegrityError`, and `session.rollback()` undoes `held`), `DeadlockError` (a
cycle of waits; not an `IntegrityError`, so the feed fails). `Crash` rolls
the session back and gives the message back; the process that replaces the lost one, or any idle one,
takes it and begins with the first feed.

### Quarantine

The inbox is what Redis has sent and `get_message` has not returned. `Take` is the receipt, the
whitelist and `iptables -C`; `Act` is the `-A` or `-D` that follows, a call of its own, so that two
agents of a host can both find no rule. A check that fails reads as "no such rule", as the code
does not look at why (`misread` counts these); one that cannot be run at all raises, and the command
is dropped with a line in the log. `spoilt` (history) are the sources about which some
agent of the host missed a command or failed a call. Rules outlive the agents.

### LogReads

Rows have a time in ticks, `Ticks` of which make a second, because STIX times are cut to seconds
(`Stamp`) and come back as `added_after`. A poll takes the newest `Limit` threats after the cursor,
in any order of equal times, and the client stores the bundle: an observed-data is named by source,
domain and time, an indicator by its domain. `CountRows` and `ReadPage` are the two statements of
the listing, `NextStatement` one of the statements of a statistic; each sees what is committed when it
starts. Readers do not disturb each other, so each behaviour has one, chosen in `Init`.
`excused` (history) are the rows that a client which goes on from the newest time cannot get: they
came behind something it had, or were more than a limit in one gap.

### DomainNames

A name is a sequence of labels, a label a sequence of characters. The operators are the functions
of `entropy.py` and `is_whitelisted`; quotients are products and logarithms a table of
`n * log2(n)`. The two steps put one character, or one label, in front of a name, so an
action property compares a name with its subdomains.

## 3. Runs

| Run | Question | Instance | Outcome |
|---|---|---|---|
| `sender` | Does any interleaving of faults forget, duplicate or mislay a log? Does the sender implement `Outbox`, end on the sentinel, empty its memory, drain once arrivals have ended? | 3 logs, one of them poison; flush and queue size 2; one fault of each of 5 kinds; restarts with and without `--agent-id`; fair | holds |
| `sender_idle_drain` | After an outage, are stored rows delivered? | 2 logs, one outage | violated |
| `lifecycle` | Does the shutdown keep its order, lose nothing, and end? | 3 logs, queue of 3, pipe of 2, two signals of either kind, a sender that may die | holds |
| `lifecycle_ctrlc` | Does one Ctrl+C drain the queue? | the same, one Ctrl+C | violated |
| `lifecycle_hang` | Does one SIGTERM always end the agent? | the same, one SIGTERM | violated |
| `pipeline` | Is a batch ever left behind, half stored for good, copied without a fault, stored before its alert? Does it settle, and with ever less to do? Does it implement `Delivery`? | one critical batch of 2 chunks, 2 processes, one retry, 2 errors, 1 crash, 1 eviction | holds |
| `enrichment` | Can a verdict name a threat that is not listed, quarantine without one, or stay stale? | 2 domains, 2 workers, 2 types, 2 syncs of the whitelist at once, evictions | holds |
| `whitelist_gap` | Is a popular domain always safe? | the same, no eviction | violated |
| `names` | Is a base its own base and that of all names below it? Do the whitelists agree? Does one more character in front change a verdict? | all names of up to 6 characters in 4 classes | holds |
| `feeds` | What can two syncs at once lose, report, or wait for? Can they all be stuck? Does the table fill up, and as `ThreatTable` allows? | 2 feeds of 3 domains, two in common and one trusted; 2 workers; 2 faults, 2 overlaps | holds |
| `ips` | Does the firewall follow the orders, without endless copies and without a lockout? Do listeners go on? | 2 agents of one host, 2 sources, one exempt; 3 commands, 2 faults | holds |
| `reads` | What can a polling client miss? Is each indicator the newest, each listing as full as it says, each statistic consistent? | 5 rows, two ticks per second, limit and page of 2 | holds |

The violated runs check what the documentation or a comment of the code says; each has an entry
under `findings` in `PROJECT.json` with the quoted line. The findings without a run are
disagreements read in the code while modelling; several of them are the reason for a premise in a
property that holds (`spoilt` in `FirewallFollowsOrders`, `excused` in `SkipsExplained`, `dropped` in
`CountsExplained`, `LabelAndTld` in `ListsAgree`).

**Bounds, and why they are enough.** In `sender` a batch of two logs is the smallest in which a
size flush, a partial time flush and a final flush differ, and three logs make a batch in hand or
stored with one more log behind it; one fault of each kind lets any pair of kinds meet, and the
counting properties speak of the number of faults, which the proofs extend to any budget. `MaxBackoff`
of 5 from 2 makes the doubling overshoot the cap. It has some 422,000 states. In
`lifecycle` three logs fill the queue (3) and overfill the pipe (2), which all blocking cases
need; a third signal does nothing that a second does not. In `pipeline` batches meet only in the
competition for processes and in the eviction of a queue, and each property speaks of one batch:
one batch with its duplicated messages on two processes meets both. In `enrichment` two workers are
what an old verdict overwriting a newer one needs, two types what a conflict of feeds needs, and two syncs of
the whitelist what one deleting the other's list needs; this is the largest run, some 673,000 states. In
`feeds` two common domains are the fewest with which sessions wait for each other, and `MaxOverlaps`
bounds syncs that start while another runs: without it the two could meet in a deadlock over and
over. In `ips` two agents race between check and insert, and a third command can follow the
contradiction of two; both exempt the same source, since agents of one host with different whitelists
are outside what `FirewallFollowsOrders` claims (a finding). In `reads` two ticks tell times within a second apart, the limit of two is
exceeded by five rows, and the rows hold two copies of one query, one safe query and a time
without a fraction. In `names` six characters make names of up to six labels, or one label long enough
for every filter; the thresholds are scaled down with them: 1.2 bits for the 3.2 of the code.
`CHECK_DEADLOCK FALSE` is set everywhere because each of these systems may stop: the agent ends,
names reach their length, and fault budgets, batches, commands, rows and logs run out.

**Fairness.** `BufferSender`: weak fairness of the process's own steps, because it is sequential
and blocks only in calls with a timeout; nothing is assumed of the API, of new logs, of the
sentinel or of restarts. `AgentLifecycle`: threads and processes go on when they can, and joins
return when over or expired; no signal is assumed. `Pipeline`: some open work step is taken; which
message first is open. `Enrichment`: a task goes on, and a cache entry expires (Redis's TTL); no feed,
no batch and no list is assumed. `FeedSync`: a running sync goes on, and Celery Beat starts the next
one (every six hours in `celery_app.py`). `Quarantine`: a living listener goes on; commands, faults
and signals are not assumed. `LogReads`: the client polls again, which is the one assumption about
an outside party; it is what the property is about.

**Properties worth a second look.** `RowsLeaveDelivered` (a row leaves SQLite only when the API has
all of it and it is the oldest) is the order that the drain promises. `BatchesBounded` says that no
outage lets a batch outgrow what the API accepts. `HealthyDrains` has the end of arrivals in
its premise: a log that fills the buffer is flushed by size and skips the drain
(`buffer_sender.py:154-157`), so under steady traffic a healthy sender need not drain.
`ShutdownEnds` names in `Stuck` the three states
that keep the agent from ending, and `lifecycle_hang` shows that one of them is reachable with one
signal. `RowsArePrefixes` with `CopiesNeedFaults` is the exact shape of what a failing sink leaves
in the table. `StaleVerdictsEnd` is true because a hit never renews the TTL; it is the one thing
that bounds the life of a verdict a feed has overtaken. `Converges` holds although a session can
lose everything it has flushed, because the next sync finds the rows missing.
`FirewallFollowsOrders` holds although `iptables -C` and `-A` are two calls and two agents
interleave them, because each agent removes one copy on the order that ends a quarantine.
`SkipsExplained` says exactly which rows a STIX client that follows the feed never gets.
`FiguresAgree` says which figures of a response made of several statements can still be compared.

## 4. Proofs

All theorems hold for every value of the constants allowed by the named assumptions
(`ConstantsAssumption`, `LifecycleAssumption`, `PipelineAssumption`, ...), which TLC evaluates in
the runs. In each proof module but `DomainNames_proof` the theorem `Invariant` is `Spec => []IInv`,
with `IInv` defined in the component's module and first checked by TLC; a lemma for `Init` and one
for each step, most of them split by action, prove it, and the safety theorems follow from it. It
includes `TypeOK`.

**`BufferSender_proof`.** `TypeCorrect`; `NothingForgotten` (`Accounted`), `OnlyFaultsLose`
(`LossNeedsFault`), `DuplicatesBounded` (`DuplicatesNeedFaults`), `StopIsClean` (`CleanStop`),
`BackoffIsHealth`, `BatchSizes` (`BatchesBounded`), `CountersAddUp` (`StatsAddUp`); the action
property `RowsLeave` (`RowsLeaveDelivered`); and `Implementation`: the sender implements `Outbox`.
`SentinelApproaches`, `MemoryGoesOn` and `HealthyDrainsOnly` are the safety halves of its liveness
properties (below). `Accounted` says nothing of where a log is, and a step that moves one needs to
know that the batch in hand really is the oldest row (`RowIds`), that a row about to be deleted has
been accepted (`AnsweredMeansDelivered`), and that the buffer is empty while a batch is in hand
(`Control`). For the bound on copies a log must be in one place (`OnePlace`), and the count depends
on that place: none while it is queued, at most one more than the doubtful events while its row is
answered (`Copies`). The sizes and the counters need a second invariant on top of the first: that
nothing but sentinels is behind a sentinel (`BehindStop`), so that the final flush is a partial
batch, and that the counters agree with what is in hand at each point of a flush. The refinement
maps `held` to all places that hold a log and `faults` to crashes, disk errors and restarts.

**`AgentLifecycle_proof`.** `TypeCorrect`, `SentinelLast` (`SentinelIsLast`), `LosesNothing`
(`GracefulLosesNothing`), for any logs, capacities and number of signals. The sentinel is last
because `main` and the handler come to their `put` only behind the capture process, by a join or by
`terminate` (`BehindCapture`), and a dead process writes no more; `OneEach` bounds the sentinels, of
which a signal in the middle of `main`'s own shutdown makes two. That the sender leaves nothing
behind follows: what it has not read when it ends is behind the sentinel. `ShutdownNeverStands` and
`ShutdownShortens` are the two halves of "the shutdown ends". The first needs three more invariants:
a put in progress has its log and a feeder that holds the lock its item (`InProgress`); the children
that were joined are gone (`Joined`); and a sentinel that has been put is somewhere before a sender
that lives (`SentinelOnItsWay`).

**`Pipeline_proof`.** `TypeCorrect`; `NeverLeftBehind` (`NothingLeftBehind`), `AlertsComeFirst`
(`AlertBeforeRows`), `StoredFromTheStart` (`RowsArePrefixes`), `CopiesHaveFaults`
(`CopiesNeedFaults`), for any batches, chunks, retries, processes and faults. The first two rest on
what a message says of the rest (`Passed`, `Done`, `AlertFirst`): a message ends only by being
sent again, acknowledged after its work, or recorded as dropped (`Successor`, `Continues`), so what it
stands for lives on in another message, in the database or in the record (`Lasting`). For the copies, what is
there and what is still to come are counted together (`Counts`): the copies of chunk `i` and the
messages that will still write it are at most one more than the faults, and chunk `i` is ahead of
chunk `j` by at least the sink messages between the two. Each action replaces a message by others,
of which at most one counts in the same place, and a message that counts where its predecessor did
not costs a fault (`Swaps`, `TallyMove`). `Implementation` (`ImplementsDelivery`) maps each step to
one of `Delivery` or to a stutter: a step of a worker moves a message on with its batch (`Moved`),
completes a copy (`CopyCounts`) or acknowledges the last message of a batch, of which something is
then stored or was broken (`GoneWell`); an error, a crash or an eviction is one fault that breaks
the batches of the messages it drops. `WorkEnds` (`WorkShrinks`) counts the steps the messages can
still take, as a set of pairs, for any number of batches and chunks; `StopsWhenSettled` says that
the workers stand still only when there is no message left, and that every batch is then stored and
its alert posted, or something of it was dropped.

**`Enrichment_proof`.** `TypeCorrect`, `ThreatsListed`, `QuarantineListed`, `VerdictsComplete`, and
`Implementation`: the classification with its feeds implements `ThreatTable`, for any number of
workers, domains and feeds. `ThreatsAreListed` holds together the cache and all workers' hands,
because each copies from the other; it is inductive because an entry of `threat_intel` never
changes. `StaleWrites` and `StaleGone` say of a verdict that a feed has overtaken that only tasks
which had made up their mind before (`Late`) can still write it, each once, and that without them it
never returns; `OnlyTheGap` that a domain of the whitelist is found safe as long as the list is
there, so that the gap of `sync_top_domains`, which the run `whitelist_gap` finds, is the only
reason for the opposite. `AllClassified` needs to know that the hits have their verdict while the
misses are looked up (`HitsClassified`), and that a task starts with no misses left over
(`StartsAfresh`).

**`FeedSync_proof`.** `TypeCorrect`, `OnlyConflicts` (`OnlyConflictsDrop`), `Counts`
(`CountsExplained`), and `Implementation`: the sessions of any number of workers implement
`ThreatTable`. The invariant adds the unique key over what is committed and what is flushed
(`KeysUnique`) and that a domain is in one part of a session at most (`Sessions`); with it a commit
adds only new domains, of one feed. `SyncsEnd` (`SyncsShrink`): every step of a sync, a conflict
too, leaves it less to do, and nobody gives it more. `SomeoneGoesOn` (`NobodyStuck`): of sessions
that wait for each other in any shape, one goes on or is the victim of a deadlock; of the sets of
waiting sessions that are closed under waiting, the proof takes one that waits for the fewest
domains, and shows that it holds a cycle. `CleanSyncs`: a commit of a session that dropped nothing
completes its feed.

**`Quarantine_proof`.** `TypeCorrect`, `Copies` (`CopiesBounded`), `Exempts` (`ExemptNeverBlocked`),
and `Follows` (`FirewallFollowsOrders`), for any agents on any hosts. An agent about to add a rule
is counted with the rules that are there; it was not counted before, since it found no rule, or its
check failed. `NoneRefused` carries the whitelist from the receipt to the call. For the last theorem
the invariant says, of a source about which a host has missed nothing (`OrdersReach`), that each
agent still has the last order before it or is done with it (`Latest`), and that after a release
there are never more rules, added or about to be, than agents that still have to look (`Followed`):
a publication that reaches everyone restores this bound because of `CopiesBounded`, and each later
look or call gives up at most what it pays for. `ListenersMove` (`ListenersAdvance`) rests on
`InboxOfLinked`: only a listener that is connected, and lives, has commands before it, so what
breaks the link also empties the inbox.

**`LogReads_proof`.** `TypeCorrect`, `Skips` (`SkipsExplained`), `Indicators` (`IndicatorIsNewest`)
and `Repeats` (`RepeatsOnlyLastSecond`), for any rows, limits and resolution of time. The invariant
says that the cursor is the second of the newest sighting (`CursorIsLastSecond`) and that a row no
poll has seen is behind it only with an excuse (`BehindExcused`); a page of the newest rows then
misses only what the limit cuts off. `Pager` (`ListingSound`) rests on an invariant of its own,
`Listing`: rows are only added, so a row that no page has had is behind at least the pages that were
read, and the last page has all of them but those committed since its count. `FiguresOfMoments`
(`FiguresAgree`) rests on `Figures`: a later statement sees what an earlier one saw. `PollSettles`
(`PollBringsAll`): one poll brings or excuses every threat in the table, and nothing undoes it.

**`DomainNames_proof`.** `BaseIsItsOwnBase` (`BaseIsBase`), `SubdomainsShareBase`
(`SubdomainKeepsBase`), `WhitelistsAgree` (`ListsAgree`), for every alphabet and every list. The scan
from the back finds the last label that is no TLD label, and labels put in front do not move it.
`VerdictKept` (`ShortLabelKeepsVerdict`): the positions of the longest labels move by one, and so
does the first of them; the property assumes what the list in the code has, excluded domains of
two labels, for a longer one could be the subdomain itself.

Proved, and in no run of their own (TLC agreed with each before it was proved): the type
invariants; `CleanStop`, `StatsAddUp`, `BackoffTracksHealth`, `AllClassified`, `RepeatsOnlyLastSecond`,
`ImplementsThreatTable` of `Enrichment`; `CleanSyncCompletes`, `StaleStaysAway`, `SafeWithoutGap`;
the inductive invariants; and the theorems of the next table but `WorkEnds` and `SomeoneGoesOn`.

**Liveness: what is proved of it.** Liveness under fairness, and anything with `ENABLED`, is out of
the installed provers' reach, so these properties are checked by TLC only. What is proved of each,
for every value of the constants, is the safety in it: a number that the system's own steps make
smaller and that others can make larger only in ways which are named, or that what a property waits
for, once there, stays. Where a property says that several processes together go on, a theorem also
says that they are never at a standstill, by naming the conditions under which each can take its
step. What remains for TLC is that an enabled step is taken.

| Checked by TLC | Proved |
|---|---|
| `SentinelEnds` | `SentinelApproaches` (`SentinelNears`): a flush for each log before the sentinel, then the rest of the round; only a second sentinel adds to it |
| `MemoryDrains` | `MemoryGoesOn` (`LogsAdvance`): the place in the queue, the room in the buffer, the rest of the round and of `flush_interval`; nothing adds to it while the sender lives |
| `HealthyDrains` | `HealthyDrainsOnly` (`HealthyOnlyDrains`): nothing is added to SQLite, and each drain without a fault takes a row |
| `ShutdownEnds` | `ShutdownShortens` (`ShutdownShrinks`), `ShutdownNeverStands` (`ShutdownGoesOn`) |
| `BatchSettles` | `WorkEnds` (`WorkShrinks`), `StopsWhenSettled` (`StopsSettled`) |
| `StaleVerdictsEnd` | `StaleWrites` (`StaleWritesRunOut`), `StaleGone` (`StaleStaysAway`) |
| `Converges` | `SyncsEnd` (`SyncsShrink`), `SomeoneGoesOn` (`NobodyStuck`), `CleanSyncs` (`CleanSyncCompletes`) |
| `ListenersGoOn` | `ListenersMove` (`ListenersAdvance`) |
| `ThreatsArrive` | `PollSettles` (`PollBringsAll`) |

**Out of reach altogether.** Induction over data, whose theorems take an operator as a parameter,
and any module that reaches a `RECURSIVE` operator; none does here.

## 5. Not modelled

* The contents of packets, payloads, log lines and alerts: no property depends on them.
* `_batch_sequence` and `retry_count`: written, never read.
* Time: `due`, a join that expires and a TTL that runs out are choices. The backoff is a number only,
  because the code never waits for it.
* The starvation of the drain under steady traffic (`buffer_sender.py:157`): it needs endless
  arrivals, and each log of the model is captured once. `HealthyDrains` therefore claims nothing
  while logs arrive.
* The eviction by Redis of Celery's own bookkeeping of unacknowledged messages, and its visibility
  timeout, which is longer than any task here.
* A signal before the handlers are installed.
* The top lists and the health route of the query API, one statement each; discovery and
  collections of the TAXII server, constant answers.
* Security, configuration, the async cache helper, models, migrations, scripts and deployment:
  stateless or declarations (see `components` in `PROJECT.json`).

## 6. Plan

Done: the agent (`Outbox`, `BufferSender`, `AgentLifecycle`), the server (`Delivery`, `Pipeline`,
`Enrichment`, `FeedSync` with `ThreatTable`, `DomainNames`), the IPS (`Quarantine`) and the readers
(`LogReads`), all with proofs: every safety property of a run, every refinement, and the safety half
of every liveness property. To come:

1. A composition of `Outbox` and `Delivery`, which the two sides implement: from the captured log to
   its row, with the copies of both sides counted in one property.
2. That `main` and the sender of `AgentLifecycle` relate to `BufferSender` as its guards assume, stated
   as a refinement.
3. A variant of `BufferSender` with endless arrivals, for the starvation of the drain.

----------------------------- MODULE Enrichment -----------------------------
(***************************************************************************)
(* How a domain gets its verdict, and what moves underneath while it does: *)
(* process_and_enrich_batch (backend/workers/intel_tasks.py), run by       *)
(* several worker processes at once, each on the unique domains of a batch *)
(* and in five round trips: the cache, the Umbrella whitelist, the table   *)
(* threat_intel, the cache again, the alerts.  Between them the feed tasks *)
(* (backend/workers/feed_tasks.py) add threats and replace the whitelist,  *)
(* and Redis expires or evicts keys.                                       *)
(*                                                                         *)
(* Abstracted: the entropy and density rules (Dga is the set of domains    *)
(* is_dga_suspicious flags) and extract_registered_domain (Registered).    *)
(* A task that fails ends here and is retried as a new batch (Pipeline).   *)
(***************************************************************************)
EXTENDS Naturals, FiniteSets, SequencesExt

CONSTANTS
    Domains,      \* domains that are looked up
    Registered,   \* [Domains -> registered domains]
    Dga,          \* domains the entropy and density rules flag
    Types,        \* threat types: malware, phishing, ...
    Feeds,        \* [Domains -> types of the feeds that can list them]
    TopLists,     \* versions of the Umbrella list, sets of registered domains
    Workers,      \* worker processes
    MaxSyncs,     \* bound: runs of sync_top_domains at once (Beat, operator, redelivery)
    Evicting,     \* Redis is out of memory and may evict the whitelist
    None          \* no entry

Verdicts == {"safe", "suspicious"} \cup Types

ASSUME EnrichmentAssumption ==
    /\ Dga \subseteq Domains
    /\ MaxSyncs \in Nat /\ Evicting \in BOOLEAN
    /\ None \notin Verdicts /\ Types \cap {"safe", "suspicious"} = {}
    /\ Feeds \in [Domains -> SUBSET Types]
    /\ \A L \in TopLists : L \subseteq {Registered[d] : d \in Domains}

VARIABLES
    cache,        \* domain:<d> in Redis
    top,          \* whitelist:top_domains in Redis
    threats,      \* threat_intel: domain and threat_type
    loading,      \* what each running sync_top_domains has still to add
    at,           \* where each worker stands in its task
    batch,        \* unique_domains
    uncached,     \* uncached_domains
    class         \* classifications

taskVars == <<at, batch, uncached, class>>
vars == <<cache, top, threats, loading, taskVars>>

NoClass == [d \in Domains |-> None]

Init ==
    /\ cache = NoClass
    /\ top \in TopLists
    /\ threats = NoClass
    /\ loading = <<>>
    /\ at = [w \in Workers |-> "idle"]
    /\ batch = [w \in Workers |-> {}]
    /\ uncached = [w \in Workers |-> {}]
    /\ class = [w \in Workers |-> NoClass]

-----------------------------------------------------------------------------
(* The task.                                                               *)

\* The domains in D get the verdict that f gives them.
Classify(w, D, f) ==
    class' = [class EXCEPT ![w] =
                 [d \in Domains |-> IF d \in D THEN f[d] ELSE class[w][d]]]

Go(w, place) == at' = [at EXCEPT ![w] = place]

\* A message is taken: the unique domains of its logs.
Begin(w) ==
    /\ at[w] = "idle"
    /\ \E D \in SUBSET Domains \ {{}} : batch' = [batch EXCEPT ![w] = D]
    /\ Go(w, "get")
    /\ UNCHANGED <<cache, top, threats, loading, uncached, class>>

\* One pipeline of GETs: a hit is the verdict.
ReadCache(w) ==
    /\ at[w] = "get"
    /\ LET misses == {d \in batch[w] : cache[d] = None}
       IN  /\ uncached' = [uncached EXCEPT ![w] = misses]
           /\ Go(w, IF misses = {} THEN "enrich" ELSE "whitelist")
    /\ Classify(w, batch[w], cache)
    /\ UNCHANGED <<cache, top, threats, loading, batch>>

\* One pipeline of SISMEMBERs: a popular domain is safe.
CheckWhitelist(w) ==
    /\ at[w] = "whitelist"
    /\ Classify(w, uncached[w],
                [d \in Domains |-> IF Registered[d] \in top THEN "safe" ELSE None])
    /\ Go(w, "lookup")
    /\ UNCHANGED <<cache, top, threats, loading, batch, uncached>>

\* What the table, or else the DGA rules, say of a domain.
Judged(d) == IF threats[d] # None THEN threats[d]
             ELSE IF d \in Dga THEN "suspicious" ELSE "safe"

\* One SELECT for what is left, then the rules.
LookUp(w) ==
    /\ at[w] = "lookup"
    /\ Classify(w, {d \in uncached[w] : class[w][d] = None},
                [d \in Domains |-> Judged(d)])
    /\ Go(w, "set")
    /\ UNCHANGED <<cache, top, threats, loading, batch, uncached>>

\* Mutant: every answer is written back, hits included.
StoredHitsToo(w) == batch[w]

\* The domains whose verdict goes to the cache, with a new TTL.
Stored(w) == uncached[w]

\* One pipeline of SETs.
StoreCache(w) ==
    /\ at[w] = "set"
    /\ cache' = [d \in Domains |-> IF d \in Stored(w) THEN class[w][d] ELSE cache[d]]
    /\ Go(w, "enrich")
    /\ UNCHANGED <<top, threats, loading, batch, uncached, class>>

\* The task lets go of what it had computed.
End(w) ==
    /\ Go(w, "idle")
    /\ batch' = [batch EXCEPT ![w] = {}]
    /\ uncached' = [uncached EXCEPT ![w] = {}]
    /\ class' = [class EXCEPT ![w] = NoClass]

\* Mutant: what the rules suspect is malicious.
MaliciousIfNotSafe(v) == v # "safe"

\* Levels of the verdicts: an alert for all that is not safe, a quarantine of the
\* source for what is malicious.
Malicious(v) == v \notin {"safe", "suspicious"}
Quarantined(w) == {d \in batch[w] : at[w] = "enrich" /\ Malicious(class[w][d])}

\* The logs are enriched, alerts and commands sent, the rest is the sink's.
Enrich(w) ==
    /\ at[w] = "enrich"
    /\ End(w)
    /\ UNCHANGED <<cache, top, threats, loading>>

\* Redis or PostgreSQL raises; a pipeline of SETs may have got half way.
Fails(w) ==
    /\ at[w] # "idle"
    /\ \E S \in SUBSET uncached[w] :
          /\ at[w] = "set" \/ S = {}
          /\ cache' = [d \in Domains |-> IF d \in S THEN class[w][d] ELSE cache[d]]
    /\ End(w)
    /\ UNCHANGED <<top, threats, loading>>

-----------------------------------------------------------------------------
(* What moves underneath.                                                  *)

\* Mutant: an upsert that overwrites the type an earlier feed gave.
UpsertReplaces(D, t) ==
    threats' = [d \in Domains |-> IF d \in D THEN t ELSE threats[d]]

\* What is there stays as it is.
Upsert(D, t) ==
    threats' = [d \in Domains |-> IF d \in D /\ threats[d] = None THEN t ELSE threats[d]]

\* sync_urlhaus or sync_phishtank commits: all of the feed's domains, or, after a
\* conflict has rolled back the ones before it, the others.
SyncFeed(t) ==
    /\ \E D \in SUBSET {d \in Domains : t \in Feeds[d]} \ {{}} : Upsert(D, t)
    /\ UNCHANGED <<cache, top, loading, taskVars>>

\* sync_top_domains: DELETE, also while another one is adding ...
SyncDeletes ==
    /\ Len(loading) < MaxSyncs
    /\ top' = {}
    /\ \E L \in TopLists : loading' = Append(loading, L)
    /\ UNCHANGED <<cache, threats, taskVars>>

\* ... then SADDs of 5000 domains in a pipeline that is not a transaction.
SyncAdds(i) ==
    /\ \E S \in SUBSET loading[i] \ {{}} :
          /\ top' = top \cup S
          /\ loading' = IF S = loading[i] THEN RemoveAt(loading, i)
                        ELSE [loading EXCEPT ![i] = @ \ S]
    /\ UNCHANGED <<cache, threats, taskVars>>

\* Redis fails in between: the set stays as it is until the next sync.
SyncFails(i) ==
    /\ loading' = RemoveAt(loading, i)
    /\ UNCHANGED <<cache, top, threats, taskVars>>

\* The TTL of 24 hours is over, or the key is evicted.
CacheExpires(d) ==
    /\ cache[d] # None
    /\ cache' = [cache EXCEPT ![d] = None]
    /\ UNCHANGED <<top, threats, loading, taskVars>>

\* allkeys-lru evicts the whitelist, which is one key.
WhitelistEvicted ==
    /\ Evicting /\ top # {}
    /\ top' = {}
    /\ UNCHANGED <<cache, threats, loading, taskVars>>

-----------------------------------------------------------------------------
Step(w) == \/ ReadCache(w) \/ CheckWhitelist(w) \/ LookUp(w)
           \/ StoreCache(w) \/ Enrich(w) \/ Fails(w)

Next ==
    \/ \E w \in Workers : Begin(w) \/ Step(w)
    \/ \E t \in Types : SyncFeed(t)
    \/ SyncDeletes
    \/ \E i \in DOMAIN loading : SyncAdds(i) \/ SyncFails(i)
    \/ \E d \in Domains : CacheExpires(d)
    \/ WhitelistEvicted

Spec == Init /\ [][Next]_vars

\* A task that has begun goes on to its end, and TTLs run out.  No batch, no
\* feed and no sync is assumed.
Fairness ==
    /\ \A w \in Workers : WF_vars(Step(w))
    /\ \A d \in Domains : WF_vars(CacheExpires(d))

FairSpec == Spec /\ Fairness

-----------------------------------------------------------------------------
Entries(S) == [Domains -> S \cup {None}]

TypeOK ==
    /\ cache \in Entries(Verdicts)
    /\ top \subseteq {Registered[d] : d \in Domains}
    /\ threats \in Entries(Types)
    /\ loading \in Seq(SUBSET {Registered[d] : d \in Domains})
    /\ at \in [Workers -> {"idle", "get", "whitelist", "lookup", "set", "enrich"}]
    /\ batch \in [Workers -> SUBSET Domains]
    /\ uncached \in [Workers -> SUBSET Domains]
    /\ class \in [Workers -> Entries(Verdicts)]

\* A domain is cached, or held by a worker, as a threat only with the type it
\* has in threat_intel at this moment: no stale entry of the cache names a
\* threat that is not one, or another type than the analyst finds in the table.
ThreatsAreListed ==
    \A d \in Domains :
        /\ cache[d] \in Types => threats[d] = cache[d]
        /\ \A w \in Workers : class[w][d] \in Types => threats[d] = class[w][d]

\* A source is quarantined for a domain of threat_intel only, never for what
\* the DGA rules alone suspect, nor for a gap in the whitelist.
QuarantineOnlyThreats == \A w \in Workers : \A d \in Quarantined(w) : threats[d] # None

\* When the logs are enriched every domain of the batch has a verdict, so the
\* "unknown" that classifications.get falls back to is never stored.
AllClassified ==
    \A w \in Workers :
        /\ at[w] \in {"set", "enrich"} => \A d \in batch[w] : class[w][d] # None
        /\ uncached[w] \subseteq batch[w]

TT == INSTANCE ThreatTable

\* The feeds that overtake the tasks are those of ThreatTable: the verdicts above
\* rest on nothing that the sessions of FeedSync do not keep as well.
ImplementsThreatTable == TT!Spec

\* A verdict that a feed has overtaken dies out: once a domain is known as a
\* threat and stays off the whitelist, the cache stops calling it anything
\* else, because a hit never renews the TTL.
StaleVerdictsEnd ==
    \A d \in Domains :
        <>[](threats[d] # None /\ Registered[d] \notin top)
            => <>[](cache[d] \in Types \cup {None})

-----------------------------------------------------------------------------
(* What of StaleVerdictsEnd is safety: everything but the fairness rule.   *)

\* A feed has overtaken every other verdict on d.
Overtaken(d) == threats[d] # None /\ Registered[d] \notin top

Stale(v) == v \in {"safe", "suspicious"}

\* Tasks that made up their mind about d before, and have still to store it.
Late(d) == {w \in Workers : at[w] \in {"lookup", "set"} /\ d \in uncached[w] /\ Stale(class[w][d])}

\* A task stores what it found once, and no task that looks now finds anything but
\* the threat: an overtaken verdict enters the cache at most once for each task
\* that was late already, and a hit on it is never written back.
StaleWritesRunOut ==
    [][\A d \in Domains : Overtaken(d) =>
          /\ Late(d)' \subseteq Late(d)
          /\ Stale(cache'[d]) => Stale(cache[d]) \/ Late(d)' # Late(d)]_vars

\* As soon as no task is late and the entry has expired, no feed, task, cache or
\* whitelist step brings the overtaken verdict back for as long as the domain stays
\* off the whitelist.
StaleStaysAway ==
    \A d \in Domains :
        []((Late(d) = {} /\ ~Stale(cache[d]) /\ []Overtaken(d)) => []~Stale(cache[d]))

-----------------------------------------------------------------------------
(* The inductive invariant behind the safety properties: a task starts     *)
(* without misses, and the domains that hit the cache have their verdict   *)
(* as soon as it has been read.                                            *)

StartsAfresh == \A w \in Workers : at[w] \in {"idle", "get"} => uncached[w] = {}

HitsClassified ==
    \A w \in Workers :
        at[w] \in {"whitelist", "lookup"} =>
            \A d \in batch[w] \ uncached[w] : class[w][d] # None

IInv ==
    /\ TypeOK /\ ThreatsAreListed
    /\ StartsAfresh /\ HitsClassified /\ AllClassified

-----------------------------------------------------------------------------
(* What a comment says and the code does not do.                           *)

\* "Substitui o set antigo de uma vez" (feed_tasks.py line 334): a domain that
\* every version of the list contains is never taken for anything but safe.
PopularStaysSafe ==
    \A d \in Domains :
        (\A L \in TopLists : Registered[d] \in L) => cache[d] \in {"safe", None}

\* What is right about it: the gap is the only reason.  While the set has the base of
\* a domain, whatever feeds, the DGA rules and other tasks say of the domain, nothing
\* but safe is cached for it or found by a task.
SafeWithoutGap ==
    \A d \in Domains :
        [](Registered[d] \in top) =>
            [](\A w \in Workers : {cache[d], class[w][d]} \subseteq {"safe", None})
=============================================================================

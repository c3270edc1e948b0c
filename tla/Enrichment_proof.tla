-------------------------- MODULE Enrichment_proof --------------------------
(***************************************************************************)
(* Proofs of the safety properties of Enrichment, for any domains, feeds,  *)
(* lists and number of workers.  The argument is one invariant, IInv: a    *)
(* threat verdict can only come from threat_intel, through a worker or     *)
(* through the cache, and no entry of threat_intel ever changes.           *)
(***************************************************************************)
EXTENDS Enrichment, TLAPS, SequenceTheorems

-----------------------------------------------------------------------------
(* Verdicts.                                                               *)

\* No entry is neither a verdict nor a type.
LEMMA NoneFacts ==
    /\ None \notin Verdicts
    /\ None \notin Types
    /\ Types \subseteq Verdicts
    /\ "safe" \in Verdicts \ Types
    /\ "suspicious" \in Verdicts \ Types
BY EnrichmentAssumption DEF Verdicts

\* The verdict of the table and the rules names a threat only if it is listed.
LEMMA JudgedFacts ==
    ASSUME TypeOK, NEW d \in Domains
    PROVE  /\ Judged(d) \in Verdicts
           /\ Judged(d) \in Types => threats[d] = Judged(d)
<1>1. threats[d] \in Types \cup {None}
  BY DEF TypeOK, Entries
<1> QED
  BY <1>1, NoneFacts DEF Judged

\* Malicious verdicts are the types.
LEMMA MaliciousFacts ==
    ASSUME NEW v \in Verdicts, Malicious(v)
    PROVE  v \in Types
BY DEF Malicious, Verdicts

\* A worker that holds only listed threats quarantines for listed threats.
LEMMA QuarantineFollows ==
    ASSUME IInv
    PROVE  QuarantineOnlyThreats
<1>1. SUFFICES ASSUME NEW w \in Workers, NEW d \in Quarantined(w)
               PROVE  threats[d] # None
  BY DEF QuarantineOnlyThreats
<1>2. d \in batch[w] /\ at[w] = "enrich" /\ Malicious(class[w][d])
  BY DEF Quarantined
<1>3. d \in Domains /\ class[w][d] \in Verdicts \cup {None}
  BY <1>2 DEF IInv, TypeOK, Entries
<1>4. class[w][d] # None
  BY <1>2 DEF IInv, AllClassified
<1>5. class[w][d] \in Types
  BY <1>2, <1>3, <1>4, MaliciousFacts
<1>6. threats[d] = class[w][d]
  BY <1>3, <1>5 DEF IInv, ThreatsAreListed
<1> QED
  BY <1>5, <1>6, NoneFacts

-----------------------------------------------------------------------------
(* The initial states.                                                     *)

LEMMA InitInvariant == Init => IInv
<1> SUFFICES ASSUME Init PROVE IInv
  OBVIOUS
<1>1. NoClass \in Entries(Verdicts) /\ NoClass \in Entries(Types)
  BY DEF NoClass, Entries
<1>2. top \subseteq {Registered[d] : d \in Domains}
  BY EnrichmentAssumption DEF Init
<1>3. TypeOK
  BY <1>1, <1>2 DEF Init, TypeOK
<1>4. ThreatsAreListed
  BY NoneFacts DEF Init, ThreatsAreListed, NoClass
<1>5. StartsAfresh /\ HitsClassified /\ AllClassified
  BY DEF Init, StartsAfresh, HitsClassified, AllClassified
<1> QED
  BY <1>3, <1>4, <1>5 DEF IInv

-----------------------------------------------------------------------------
(* What a step of the task does to a worker's verdicts and place.          *)

LEMMA ClassifyFacts ==
    ASSUME NEW w \in Workers, NEW D, NEW f \in Entries(Verdicts),
           class \in [Workers -> Entries(Verdicts)], Classify(w, D, f)
    PROVE  /\ class' \in [Workers -> Entries(Verdicts)]
           /\ \A d \in Domains : class'[w][d] = IF d \in D THEN f[d] ELSE class[w][d]
           /\ \A v \in Workers \ {w} : class'[v] = class[v]
<1> DEFINE g == [d \in Domains |-> IF d \in D THEN f[d] ELSE class[w][d]]
<1>1. g \in Entries(Verdicts)
  BY DEF Entries
<1>2. class' = [class EXCEPT ![w] = g]
  BY DEF Classify
<1> HIDE DEF g
<1>3. /\ class' \in [Workers -> Entries(Verdicts)]
      /\ class'[w] = g
      /\ \A v \in Workers \ {w} : class'[v] = class[v]
  BY <1>1, <1>2
<1>4. \A d \in Domains : g[d] = IF d \in D THEN f[d] ELSE class[w][d]
  BY DEF g
<1> QED
  BY <1>3, <1>4

\* Only worker w moves, to place, within the batch that it has.
LEMMA GoFacts ==
    ASSUME NEW w \in Workers, NEW place,
           at \in [Workers -> {"idle", "get", "whitelist", "lookup", "set", "enrich"}],
           place \in {"idle", "get", "whitelist", "lookup", "set", "enrich"},
           Go(w, place)
    PROVE  /\ at' \in [Workers -> {"idle", "get", "whitelist", "lookup", "set", "enrich"}]
           /\ at'[w] = place
           /\ \A v \in Workers \ {w} : at'[v] = at[v]
BY DEF Go

-----------------------------------------------------------------------------
(* The steps of the task.                                                  *)

LEMMA BeginKeeps ==
    ASSUME IInv, NEW w \in Workers, Begin(w)
    PROVE  IInv'
<1> USE DEF IInv
<1>1. PICK D \in SUBSET Domains \ {{}} : batch' = [batch EXCEPT ![w] = D]
  BY DEF Begin
<1>2. /\ at' \in [Workers -> {"idle", "get", "whitelist", "lookup", "set", "enrich"}]
      /\ at'[w] = "get"
      /\ \A v \in Workers \ {w} : at'[v] = at[v]
  BY GoFacts DEF Begin, TypeOK
<1>3. batch' \in [Workers -> SUBSET Domains] /\ \A v \in Workers \ {w} : batch'[v] = batch[v]
  BY <1>1 DEF TypeOK
<1>4. TypeOK'
  BY <1>2, <1>3 DEF TypeOK, Begin
<1>5. ThreatsAreListed'
  BY DEF ThreatsAreListed, Begin
<1>6. HitsClassified'
  BY <1>2, <1>3 DEF HitsClassified, Begin
<1>7. AllClassified'
  BY <1>2, <1>3 DEF AllClassified, StartsAfresh, Begin
<1>8. StartsAfresh'
  BY <1>2 DEF StartsAfresh, Begin
<1> QED
  BY <1>4, <1>5, <1>6, <1>7, <1>8

LEMMA ReadCacheKeeps ==
    ASSUME IInv, NEW w \in Workers, ReadCache(w)
    PROVE  IInv'
<1> USE DEF IInv
<1> DEFINE misses == {d \in batch[w] : cache[d] = None}
<1>1. /\ class' \in [Workers -> Entries(Verdicts)]
      /\ \A d \in Domains : class'[w][d] = IF d \in batch[w] THEN cache[d] ELSE class[w][d]
      /\ \A v \in Workers \ {w} : class'[v] = class[v]
  BY ClassifyFacts DEF ReadCache, TypeOK
<1>2. /\ uncached' \in [Workers -> SUBSET Domains]
      /\ uncached'[w] = misses
      /\ \A v \in Workers \ {w} : uncached'[v] = uncached[v]
  BY DEF ReadCache, TypeOK
<1>3. /\ at' \in [Workers -> {"idle", "get", "whitelist", "lookup", "set", "enrich"}]
      /\ at'[w] = IF misses = {} THEN "enrich" ELSE "whitelist"
      /\ \A v \in Workers \ {w} : at'[v] = at[v]
  BY GoFacts DEF ReadCache, TypeOK
<1>4. batch[w] \subseteq Domains
  BY DEF TypeOK
<1>5. TypeOK'
  BY <1>1, <1>2, <1>3 DEF TypeOK, ReadCache
<1>6. ThreatsAreListed'
  BY <1>1 DEF ThreatsAreListed, ReadCache
<1>7. \A d \in batch[w] \ misses : class'[w][d] # None
  BY <1>1, <1>4
<1>8. HitsClassified'
  BY <1>1, <1>2, <1>3, <1>7 DEF HitsClassified, ReadCache
<1>9. AllClassified'
  BY <1>1, <1>2, <1>3, <1>7 DEF AllClassified, ReadCache
<1>10. StartsAfresh'
  BY <1>2, <1>3 DEF StartsAfresh, ReadCache
<1> QED
  BY <1>5, <1>6, <1>8, <1>9, <1>10

LEMMA CheckWhitelistKeeps ==
    ASSUME IInv, NEW w \in Workers, CheckWhitelist(w)
    PROVE  IInv'
<1> USE DEF IInv
<1> DEFINE f == [d \in Domains |-> IF Registered[d] \in top THEN "safe" ELSE None]
<1>1. f \in Entries(Verdicts) /\ \A d \in Domains : f[d] \notin Types
  BY NoneFacts DEF Entries
<1>2. Classify(w, uncached[w], f) /\ Go(w, "lookup") /\ at[w] = "whitelist"
  BY DEF CheckWhitelist
<1> HIDE DEF f
<1>3. /\ class' \in [Workers -> Entries(Verdicts)]
      /\ \A d \in Domains : class'[w][d] = IF d \in uncached[w] THEN f[d] ELSE class[w][d]
      /\ \A v \in Workers \ {w} : class'[v] = class[v]
  BY <1>1, <1>2, ClassifyFacts DEF TypeOK
<1>4. /\ at' \in [Workers -> {"idle", "get", "whitelist", "lookup", "set", "enrich"}]
      /\ at'[w] = "lookup"
      /\ \A v \in Workers \ {w} : at'[v] = at[v]
  BY <1>2, GoFacts DEF TypeOK
<1>5. batch[w] \subseteq Domains
  BY DEF TypeOK
<1>6. TypeOK'
  BY <1>3, <1>4 DEF TypeOK, CheckWhitelist
<1>7. ThreatsAreListed'
  BY <1>1, <1>3 DEF ThreatsAreListed, CheckWhitelist
<1>8. \A d \in batch[w] \ uncached[w] : class'[w][d] # None
  BY <1>2, <1>3, <1>5 DEF HitsClassified
<1>9. HitsClassified'
  BY <1>3, <1>4, <1>8 DEF HitsClassified, CheckWhitelist
<1>10. AllClassified'
  BY <1>3, <1>4 DEF AllClassified, CheckWhitelist
<1>11. StartsAfresh'
  BY <1>4 DEF StartsAfresh, CheckWhitelist
<1> QED
  BY <1>6, <1>7, <1>9, <1>10, <1>11

LEMMA LookUpKeeps ==
    ASSUME IInv, NEW w \in Workers, LookUp(w)
    PROVE  IInv'
<1> USE DEF IInv
<1> DEFINE D == {d \in uncached[w] : class[w][d] = None}
           f == [d \in Domains |-> Judged(d)]
<1>1. f \in Entries(Verdicts) /\ \A d \in Domains : f[d] \in Types => threats[d] = f[d]
  BY JudgedFacts DEF Entries
<1>2. \A d \in Domains : f[d] # None
  BY JudgedFacts, NoneFacts
<1>3. Classify(w, D, f) /\ Go(w, "set") /\ at[w] = "lookup"
  BY DEF LookUp
<1> HIDE DEF f
<1>4. /\ class' \in [Workers -> Entries(Verdicts)]
      /\ \A d \in Domains : class'[w][d] = IF d \in D THEN f[d] ELSE class[w][d]
      /\ \A v \in Workers \ {w} : class'[v] = class[v]
  BY <1>1, <1>3, ClassifyFacts DEF TypeOK
<1>5. /\ at' \in [Workers -> {"idle", "get", "whitelist", "lookup", "set", "enrich"}]
      /\ at'[w] = "set"
      /\ \A v \in Workers \ {w} : at'[v] = at[v]
  BY <1>3, GoFacts DEF TypeOK
<1>6. batch[w] \subseteq Domains /\ uncached[w] \subseteq batch[w]
  BY DEF TypeOK, AllClassified
<1>7. TypeOK'
  BY <1>4, <1>5 DEF TypeOK, LookUp
<1>8. ThreatsAreListed'
  BY <1>1, <1>4 DEF ThreatsAreListed, LookUp
<1>9. \A d \in batch[w] : class'[w][d] # None
  <2>1. \A d \in batch[w] \ uncached[w] : class[w][d] # None
    BY <1>3 DEF HitsClassified
  <2> QED
    BY <1>2, <1>4, <1>6, <2>1
<1>10. HitsClassified'
  BY <1>4, <1>5 DEF HitsClassified, LookUp
<1>11. AllClassified'
  BY <1>4, <1>5, <1>9 DEF AllClassified, LookUp
<1>12. StartsAfresh'
  BY <1>5 DEF StartsAfresh, LookUp
<1> QED
  BY <1>7, <1>8, <1>10, <1>11, <1>12

\* What a worker writes to the cache is as good as what it holds.
LEMMA CacheWrites ==
    ASSUME IInv, NEW w \in Workers, NEW S \in SUBSET uncached[w], threats' = threats,
           cache' = [d \in Domains |-> IF d \in S THEN class[w][d] ELSE cache[d]]
    PROVE  /\ cache' \in Entries(Verdicts)
           /\ \A d \in Domains : cache'[d] \in Types => threats'[d] = cache'[d]
<1>1. \A d \in Domains : class[w][d] \in Verdicts \cup {None}
  BY DEF IInv, TypeOK, Entries
<1>2. cache' \in Entries(Verdicts)
  BY <1>1 DEF IInv, TypeOK, Entries
<1>3. \A d \in Domains : cache'[d] \in Types => threats'[d] = cache'[d]
  BY DEF IInv, ThreatsAreListed
<1> QED
  BY <1>2, <1>3

LEMMA StoreCacheKeeps ==
    ASSUME IInv, NEW w \in Workers, StoreCache(w)
    PROVE  IInv'
<1> USE DEF IInv
<1>1. /\ cache' \in Entries(Verdicts)
      /\ \A d \in Domains : cache'[d] \in Types => threats'[d] = cache'[d]
  BY CacheWrites DEF StoreCache, Stored
<1>2. /\ at' \in [Workers -> {"idle", "get", "whitelist", "lookup", "set", "enrich"}]
      /\ at'[w] = "enrich"
      /\ \A v \in Workers \ {w} : at'[v] = at[v]
  BY GoFacts DEF StoreCache, TypeOK
<1>3. TypeOK'
  BY <1>1, <1>2 DEF TypeOK, StoreCache
<1>4. ThreatsAreListed'
  BY <1>1 DEF ThreatsAreListed, StoreCache
<1>5. HitsClassified'
  BY <1>2 DEF HitsClassified, StoreCache
<1>6. AllClassified'
  BY <1>2 DEF AllClassified, StoreCache
<1>7. StartsAfresh'
  BY <1>2 DEF StartsAfresh, StoreCache
<1> QED
  BY <1>3, <1>4, <1>5, <1>6, <1>7

\* A worker that ends holds nothing, whatever the others do with the cache.
LEMMA EndKeeps ==
    ASSUME IInv, NEW w \in Workers, End(w), threats' = threats,
           UNCHANGED <<top, loading>>, cache' \in Entries(Verdicts),
           \A d \in Domains : cache'[d] \in Types => threats'[d] = cache'[d]
    PROVE  IInv'
<1> USE DEF IInv
<1>1. /\ at' \in [Workers -> {"idle", "get", "whitelist", "lookup", "set", "enrich"}]
      /\ at'[w] = "idle"
      /\ \A v \in Workers \ {w} : at'[v] = at[v]
  BY GoFacts DEF End, TypeOK
<1>2. /\ batch' \in [Workers -> SUBSET Domains]
      /\ uncached' \in [Workers -> SUBSET Domains]
      /\ uncached'[w] = {} /\ batch'[w] = {}
      /\ \A v \in Workers \ {w} : batch'[v] = batch[v] /\ uncached'[v] = uncached[v]
  BY DEF End, TypeOK
<1>3. NoClass \in Entries(Verdicts) /\ \A d \in Domains : NoClass[d] \notin Types
  BY NoneFacts DEF NoClass, Entries
<1>4. /\ class' \in [Workers -> Entries(Verdicts)]
      /\ class'[w] = NoClass
      /\ \A v \in Workers \ {w} : class'[v] = class[v]
  BY <1>3 DEF End, TypeOK
<1>5. TypeOK'
  BY <1>1, <1>2, <1>4 DEF TypeOK
<1>6. ThreatsAreListed'
  BY <1>3, <1>4 DEF ThreatsAreListed
<1>7. HitsClassified' /\ AllClassified' /\ StartsAfresh'
  BY <1>1, <1>2, <1>4 DEF HitsClassified, AllClassified, StartsAfresh
<1> QED
  BY <1>5, <1>6, <1>7

LEMMA EnrichKeeps ==
    ASSUME IInv, NEW w \in Workers, Enrich(w)
    PROVE  IInv'
<1>1. End(w) /\ UNCHANGED <<cache, top, threats, loading>>
  BY DEF Enrich
<1>2. /\ cache' \in Entries(Verdicts)
      /\ \A d \in Domains : cache'[d] \in Types => threats'[d] = cache'[d]
  BY <1>1 DEF IInv, TypeOK, ThreatsAreListed
<1> QED
  BY <1>1, <1>2, EndKeeps

LEMMA FailsKeeps ==
    ASSUME IInv, NEW w \in Workers, Fails(w)
    PROVE  IInv'
<1>1. PICK S \in SUBSET uncached[w] :
          cache' = [d \in Domains |-> IF d \in S THEN class[w][d] ELSE cache[d]]
  BY DEF Fails
<1>2. End(w) /\ UNCHANGED <<top, threats, loading>>
  BY DEF Fails
<1>3. /\ cache' \in Entries(Verdicts)
      /\ \A d \in Domains : cache'[d] \in Types => threats'[d] = cache'[d]
  BY <1>1, <1>2, CacheWrites
<1> QED
  BY <1>2, <1>3, EndKeeps

-----------------------------------------------------------------------------
(* What moves underneath: the tasks stay as they are.                      *)

LEMMA TasksStay ==
    ASSUME IInv, UNCHANGED taskVars
    PROVE  StartsAfresh' /\ HitsClassified' /\ AllClassified'
BY DEF IInv, taskVars, StartsAfresh, HitsClassified, AllClassified

LEMMA SyncFeedKeeps ==
    ASSUME IInv, NEW t \in Types, SyncFeed(t)
    PROVE  IInv'
<1> USE DEF IInv
<1>1. PICK D \in SUBSET {d \in Domains : t \in Feeds[d]} : Upsert(D, t)
  BY DEF SyncFeed
<1>2. UNCHANGED <<cache, top, loading, taskVars>>
  BY DEF SyncFeed
<1>3. /\ threats' \in Entries(Types)
      /\ \A d \in Domains : threats[d] # None => threats'[d] = threats[d]
  BY <1>1 DEF Upsert, TypeOK, Entries
<1>4. TypeOK'
  BY <1>2, <1>3 DEF TypeOK, taskVars
<1>5. ThreatsAreListed'
  BY <1>2, <1>3, NoneFacts DEF ThreatsAreListed, taskVars
<1> QED
  BY <1>2, <1>4, <1>5, TasksStay

\* The syncs of the whitelist.
ListSyncs == SyncDeletes \/ \E i \in DOMAIN loading : SyncAdds(i) \/ SyncFails(i)

\* A sync less leaves the others as they are.
LEMMA OneOut ==
    ASSUME NEW S, NEW s \in Seq(S), NEW i \in DOMAIN s
    PROVE  RemoveAt(s, i) \in Seq(S)
<1>1. i \in 1..Len(s) /\ Len(s) \in Nat
  BY LenProperties
<1>2. \A j \in 1..Len(s) : s[j] \in S
  BY ElementOfSeq
<1>3. SubSeq(s, 1, i - 1) \in Seq(S)
  <2>1. \A j \in 1..(i - 1) : s[j] \in S
    BY <1>1, <1>2
  <2> QED
    BY <1>1, <2>1, SubSeqProperties
<1>4. SubSeq(s, i + 1, Len(s)) \in Seq(S)
  <2>1. \A j \in (i + 1)..Len(s) : s[j] \in S
    BY <1>1, <1>2
  <2> QED
    BY <1>1, <2>1, SubSeqProperties
<1> QED
  BY <1>3, <1>4, ConcatProperties DEF RemoveAt

LEMMA SyncKeeps ==
    ASSUME IInv, ListSyncs \/ WhitelistEvicted
    PROVE  IInv'
<1> USE DEF IInv
<1> DEFINE Whole == {Registered[d] : d \in Domains}
<1>1. UNCHANGED <<cache, threats, taskVars>>
  BY DEF ListSyncs, SyncDeletes, SyncAdds, SyncFails, WhitelistEvicted
<1>2. top' \subseteq Whole /\ loading' \in Seq(SUBSET Whole)
  <2>1. top \subseteq Whole /\ loading \in Seq(SUBSET Whole)
    BY DEF TypeOK
  <2>2. CASE SyncDeletes
    <3>1. PICK L \in TopLists : loading' = Append(loading, L)
      BY <2>2 DEF SyncDeletes
    <3>2. top' = {} /\ L \in SUBSET Whole
      BY <2>2, EnrichmentAssumption DEF SyncDeletes
    <3> HIDE DEF Whole
    <3> QED
      BY <2>1, <3>1, <3>2, AppendProperties
  <2>3. ASSUME NEW i \in DOMAIN loading, SyncAdds(i)
        PROVE  top' \subseteq Whole /\ loading' \in Seq(SUBSET Whole)
    <3>1. PICK S \in SUBSET loading[i] \ {{}} :
             /\ top' = top \cup S
             /\ loading' = IF S = loading[i] THEN RemoveAt(loading, i)
                           ELSE [loading EXCEPT ![i] = @ \ S]
      BY <2>3 DEF SyncAdds
    <3> HIDE DEF Whole
    <3>2. loading[i] \in SUBSET Whole /\ RemoveAt(loading, i) \in Seq(SUBSET Whole)
      BY <2>1, <2>3, OneOut, ElementOfSeq, LenProperties
    <3>3. [loading EXCEPT ![i] = @ \ S] \in Seq(SUBSET Whole)
      BY <2>1, <2>3, <3>2, ExceptSeq, LenProperties
    <3> QED
      BY <2>1, <3>1, <3>2, <3>3
  <2>4. ASSUME NEW i \in DOMAIN loading, SyncFails(i)
        PROVE  top' \subseteq Whole /\ loading' \in Seq(SUBSET Whole)
    <3> HIDE DEF Whole
    <3> QED
      BY <2>1, <2>4, OneOut DEF SyncFails
  <2>5. CASE WhitelistEvicted
    BY <2>1, <2>5 DEF WhitelistEvicted
  <2> QED
    BY <2>2, <2>3, <2>4, <2>5 DEF ListSyncs
<1>3. TypeOK'
  BY <1>1, <1>2 DEF TypeOK, taskVars
<1>4. ThreatsAreListed'
  BY <1>1 DEF ThreatsAreListed, taskVars
<1> QED
  BY <1>1, <1>3, <1>4, TasksStay

LEMMA CacheExpiresKeeps ==
    ASSUME IInv, NEW d \in Domains, CacheExpires(d)
    PROVE  IInv'
<1> USE DEF IInv
<1>1. cache' = [cache EXCEPT ![d] = None] /\ UNCHANGED <<top, threats, loading, taskVars>>
  BY DEF CacheExpires
<1>2. cache' \in Entries(Verdicts)
  BY <1>1 DEF TypeOK, Entries
<1>3. TypeOK'
  BY <1>1, <1>2 DEF TypeOK, taskVars
<1>4. \A e \in Domains : cache'[e] \in Types => cache'[e] = cache[e]
  BY <1>1, NoneFacts DEF TypeOK, Entries
<1>5. ThreatsAreListed'
  BY <1>1, <1>4 DEF ThreatsAreListed, taskVars
<1> QED
  BY <1>1, <1>3, <1>5, TasksStay

-----------------------------------------------------------------------------
(* The theorems.                                                           *)

LEMMA NextInvariant == IInv /\ [Next]_vars => IInv'
<1> SUFFICES ASSUME IInv, [Next]_vars PROVE IInv'
  OBVIOUS
<1>1. CASE UNCHANGED vars
  BY <1>1 DEF vars, taskVars, IInv, TypeOK, ThreatsAreListed, StartsAfresh,
              HitsClassified, AllClassified
<1>2. ASSUME NEW w \in Workers, Begin(w) \/ Step(w)
      PROVE  IInv'
  BY <1>2, BeginKeeps, ReadCacheKeeps, CheckWhitelistKeeps, LookUpKeeps,
     StoreCacheKeeps, EnrichKeeps, FailsKeeps DEF Step
<1>3. ASSUME NEW t \in Types, SyncFeed(t)
      PROVE  IInv'
  BY <1>3, SyncFeedKeeps
<1>4. CASE ListSyncs \/ WhitelistEvicted
  BY <1>4, SyncKeeps
<1>5. ASSUME NEW d \in Domains, CacheExpires(d)
      PROVE  IInv'
  BY <1>5, CacheExpiresKeeps
<1> QED
  BY <1>1, <1>2, <1>3, <1>4, <1>5 DEF Next, ListSyncs

\* The inductive invariant holds in every reachable state of the tasks, the
\* feeds, the whitelist and the cache.
THEOREM Invariant == Spec => []IInv
<1>1. Init => IInv
  BY InitInvariant
<1>2. IInv /\ [Next]_vars => IInv'
  BY NextInvariant
<1> QED
  BY <1>1, <1>2, PTL DEF Spec

\* Every variable keeps its type.
THEOREM TypeCorrect == Spec => []TypeOK
<1>1. IInv => TypeOK
  BY DEF IInv
<1> QED
  BY <1>1, Invariant, PTL

\* The cache and the workers name a threat only by the type it has in
\* threat_intel, however reads, commits and writes interleave.
THEOREM ThreatsListed == Spec => []ThreatsAreListed
<1>1. IInv => ThreatsAreListed
  BY DEF IInv
<1> QED
  BY <1>1, Invariant, PTL

\* Only a domain of threat_intel ever puts a source into quarantine.
THEOREM QuarantineListed == Spec => []QuarantineOnlyThreats
<1>1. IInv => QuarantineOnlyThreats
  BY QuarantineFollows
<1> QED
  BY <1>1, Invariant, PTL

\* No log is enriched with a domain that has no verdict.
THEOREM VerdictsComplete == Spec => []AllClassified
<1>1. IInv => AllClassified
  BY DEF IInv
<1> QED
  BY <1>1, Invariant, PTL

\* What the feeds do to the table here is what ThreatTable allows.
THEOREM Implementation == Spec => ImplementsThreatTable
<1>1. Init => TT!Init
  BY DEF Init, NoClass, TT!Init
<1>2. [Next]_vars => [TT!Next]_threats
  <2> SUFFICES ASSUME Next, threats' # threats PROVE TT!Next
    BY DEF vars
  <2>1. PICK t \in Types : SyncFeed(t)
    BY DEF Next, Step, Begin, ReadCache, CheckWhitelist, LookUp, StoreCache, Enrich, Fails,
           SyncDeletes, SyncAdds, SyncFails, CacheExpires, WhitelistEvicted
  <2>2. PICK D \in SUBSET {d \in Domains : t \in Feeds[d]} : Upsert(D, t)
    BY <2>1 DEF SyncFeed
  <2> DEFINE New == {d \in D : threats[d] = None}
  <2>3. TT!Add(t, New)
    BY <2>2 DEF Upsert, TT!Add
  <2> QED
    BY <2>3 DEF TT!Next
<1> QED
  BY <1>1, <1>2, PTL DEF Spec, TT!Spec, ImplementsThreatTable
-----------------------------------------------------------------------------
(* What a feed has overtaken.                                              *)

\* Where a worker was not late it is not late after the step.
LEMMA OneMoves ==
    ASSUME NEW d \in Domains, NEW w \in Workers,
           \A v \in Workers \ {w} :
               at'[v] = at[v] /\ uncached'[v] = uncached[v] /\ class'[v] = class[v],
           w \in Late(d)' => w \in Late(d)
    PROVE  Late(d)' \subseteq Late(d)
BY DEF Late

LEMMA NobodyMoves ==
    ASSUME NEW d \in Domains, UNCHANGED <<at, uncached, class>>
    PROVE  Late(d)' = Late(d)
BY DEF Late

\* A worker that has written, or given up, is not late.
LEMMA OneWrites ==
    ASSUME IInv, NEW d \in Domains, NEW w \in Workers, NEW S \in SUBSET uncached[w],
           at[w] = "set", at'[w] \in {"enrich", "idle"},
           cache' = [e \in Domains |-> IF e \in S THEN class[w][e] ELSE cache[e]],
           Stale(cache'[d])
    PROVE  Stale(cache[d]) \/ Late(d)' # Late(d)
<1>1. CASE d \in S
  <2>1. Stale(class[w][d]) /\ d \in uncached[w]
    BY <1>1
  <2>2. w \in Late(d) /\ w \notin Late(d)'
    BY <2>1 DEF Late
  <2> QED
    BY <2>2
<1>2. CASE d \notin S
  BY <1>2
<1> QED
  BY <1>1, <1>2

LEMMA OvertakenStep ==
    ASSUME IInv, [Next]_vars, NEW d \in Domains, Overtaken(d)
    PROVE  /\ Late(d)' \subseteq Late(d)
           /\ Stale(cache'[d]) => Stale(cache[d]) \/ Late(d)' # Late(d)
<1>1. TypeOK /\ threats[d] \in Types /\ Registered[d] \notin top
  BY DEF IInv, TypeOK, Entries, Overtaken
<1>2. ~Stale(threats[d]) /\ ~Stale(None)
  BY <1>1, EnrichmentAssumption DEF Stale, Verdicts
<1>3. ASSUME NEW w \in Workers, Begin(w)
      PROVE  Late(d)' \subseteq Late(d) /\ cache' = cache
  <2>1. at'[w] = "get" /\ \A v \in Workers \ {w} : at'[v] = at[v]
    BY <1>1, <1>3, GoFacts DEF Begin, TypeOK
  <2>2. UNCHANGED <<uncached, class, cache>>
    BY <1>3 DEF Begin
  <2>3. w \notin Late(d)'
    BY <2>1 DEF Late
  <2> QED
    BY <2>1, <2>2, <2>3, OneMoves
<1>4. ASSUME NEW w \in Workers, ReadCache(w)
      PROVE  Late(d)' \subseteq Late(d) /\ cache' = cache
  <2>1. at'[w] \in {"whitelist", "enrich"} /\ \A v \in Workers \ {w} : at'[v] = at[v]
    BY <1>1, <1>4, GoFacts DEF ReadCache, TypeOK
  <2>2. \A v \in Workers \ {w} : uncached'[v] = uncached[v] /\ class'[v] = class[v]
    BY <1>1, <1>4 DEF ReadCache, Classify, TypeOK
  <2>3. w \notin Late(d)' /\ cache' = cache
    BY <1>4, <2>1 DEF Late, ReadCache
  <2> QED
    BY <2>1, <2>2, <2>3, OneMoves
<1>5. ASSUME NEW w \in Workers, CheckWhitelist(w)
      PROVE  Late(d)' \subseteq Late(d) /\ cache' = cache
  <2> DEFINE f == [e \in Domains |-> IF Registered[e] \in top THEN "safe" ELSE None]
  <2>1. f \in Entries(Verdicts) /\ f[d] = None
    BY <1>1, NoneFacts DEF Entries
  <2>2. Classify(w, uncached[w], f) /\ Go(w, "lookup") /\ UNCHANGED <<uncached, cache>>
    BY <1>5 DEF CheckWhitelist
  <2> HIDE DEF f
  <2>3. /\ \A e \in Domains : class'[w][e] = IF e \in uncached[w] THEN f[e] ELSE class[w][e]
        /\ \A v \in Workers \ {w} : class'[v] = class[v]
    BY <1>1, <2>1, <2>2, ClassifyFacts DEF TypeOK
  <2>4. \A v \in Workers \ {w} : at'[v] = at[v]
    BY <1>1, <2>2, GoFacts DEF TypeOK
  <2>5. w \notin Late(d)'
    BY <1>2, <2>1, <2>2, <2>3 DEF Late
  <2> QED
    BY <2>2, <2>3, <2>4, <2>5, OneMoves
<1>6. ASSUME NEW w \in Workers, LookUp(w)
      PROVE  Late(d)' \subseteq Late(d) /\ cache' = cache
  <2> DEFINE f == [e \in Domains |-> Judged(e)]
             D == {e \in uncached[w] : class[w][e] = None}
  <2>1. f \in Entries(Verdicts) /\ f[d] = threats[d]
    <3>1. \A e \in Domains : Judged(e) \in Verdicts
      BY <1>1, JudgedFacts
    <3>2. Judged(d) = threats[d]
      BY DEF Judged, Overtaken
    <3> QED
      BY <3>1, <3>2 DEF Entries
  <2>2. Classify(w, D, f) /\ Go(w, "set") /\ UNCHANGED <<uncached, cache>> /\ at[w] = "lookup"
    BY <1>6 DEF LookUp
  <2> HIDE DEF f
  <2>3. /\ \A e \in Domains : class'[w][e] = IF e \in D THEN f[e] ELSE class[w][e]
        /\ \A v \in Workers \ {w} : class'[v] = class[v]
    BY <1>1, <2>1, <2>2, ClassifyFacts DEF TypeOK
  <2>4. \A v \in Workers \ {w} : at'[v] = at[v]
    BY <1>1, <2>2, GoFacts DEF TypeOK
  <2>5. w \in Late(d)' => w \in Late(d)
    BY <1>2, <2>1, <2>2, <2>3 DEF Late
  <2> QED
    BY <2>2, <2>3, <2>4, <2>5, OneMoves
<1>7. ASSUME NEW w \in Workers, StoreCache(w)
      PROVE  /\ Late(d)' \subseteq Late(d)
             /\ Stale(cache'[d]) => Stale(cache[d]) \/ Late(d)' # Late(d)
  <2>1. /\ at[w] = "set" /\ at'[w] = "enrich" /\ \A v \in Workers \ {w} : at'[v] = at[v]
        /\ UNCHANGED <<uncached, class>>
    BY <1>1, <1>7, GoFacts DEF StoreCache, TypeOK
  <2>2. w \notin Late(d)'
    BY <2>1 DEF Late
  <2>3. Late(d)' \subseteq Late(d)
    BY <2>1, <2>2, OneMoves
  <2>4. cache' = [e \in Domains |-> IF e \in uncached[w] THEN class[w][e] ELSE cache[e]]
    BY <1>7 DEF StoreCache, Stored
  <2> QED
    BY <2>1, <2>3, <2>4, OneWrites
<1>8. ASSUME NEW w \in Workers, End(w)
      PROVE  Late(d)' \subseteq Late(d) /\ at'[w] = "idle"
  <2>1. /\ at'[w] = "idle"
        /\ \A v \in Workers \ {w} :
               at'[v] = at[v] /\ uncached'[v] = uncached[v] /\ class'[v] = class[v]
    BY <1>1, <1>8, GoFacts DEF End, TypeOK
  <2>2. w \notin Late(d)'
    BY <2>1 DEF Late
  <2> QED
    BY <2>1, <2>2, OneMoves
<1>9. ASSUME NEW w \in Workers, Fails(w)
      PROVE  /\ Late(d)' \subseteq Late(d)
             /\ Stale(cache'[d]) => Stale(cache[d]) \/ Late(d)' # Late(d)
  <2>1. PICK S \in SUBSET uncached[w] :
            /\ at[w] = "set" \/ S = {}
            /\ cache' = [e \in Domains |-> IF e \in S THEN class[w][e] ELSE cache[e]]
    BY <1>9 DEF Fails
  <2>2. Late(d)' \subseteq Late(d) /\ at'[w] = "idle"
    BY <1>8, <1>9 DEF Fails
  <2>3. CASE at[w] = "set"
    BY <2>1, <2>2, <2>3, OneWrites
  <2>4. CASE S = {}
    <3>1. cache'[d] = cache[d]
      BY <2>1, <2>4
    <3> QED
      BY <2>2, <3>1
  <2> QED
    BY <2>1, <2>3, <2>4
<1>10. ASSUME UNCHANGED taskVars, cache' = cache \/ \E e \in Domains : cache' = [cache EXCEPT ![e] = None]
       PROVE  /\ Late(d)' \subseteq Late(d)
              /\ Stale(cache'[d]) => Stale(cache[d])
  <2>1. Late(d)' = Late(d)
    BY <1>10, NobodyMoves DEF taskVars
  <2>2. cache'[d] \in {cache[d], None}
    BY <1>1, <1>10 DEF TypeOK, Entries
  <2> QED
    BY <1>2, <2>1, <2>2
<1>11. CASE \/ UNCHANGED vars \/ ListSyncs \/ WhitelistEvicted
            \/ (\E t \in Types : SyncFeed(t)) \/ (\E e \in Domains : CacheExpires(e))
  <2>1. UNCHANGED taskVars /\ (cache' = cache \/ \E e \in Domains : cache' = [cache EXCEPT ![e] = None])
    BY <1>11 DEF vars, ListSyncs, SyncDeletes, SyncAdds, SyncFails, WhitelistEvicted, SyncFeed, CacheExpires
  <2> QED
    BY <1>10, <2>1
<1>12. ASSUME NEW w \in Workers, Enrich(w)
       PROVE  Late(d)' \subseteq Late(d) /\ cache' = cache
  BY <1>8, <1>12 DEF Enrich
<1> QED
  BY <1>3, <1>4, <1>5, <1>6, <1>7, <1>9, <1>11, <1>12 DEF Next, Step, ListSyncs

\* An overtaken verdict gets into the cache at most once for each task that was late
\* when the feed committed, whatever order reads, writes and expiries come in.
THEOREM StaleWrites == Spec => StaleWritesRunOut
<1>1. IInv /\ [Next]_vars => [\A d \in Domains : Overtaken(d) =>
          /\ Late(d)' \subseteq Late(d)
          /\ Stale(cache'[d]) => Stale(cache[d]) \/ Late(d)' # Late(d)]_vars
  BY OvertakenStep
<1> QED
  BY <1>1, Invariant, PTL DEF Spec, StaleWritesRunOut

\* Once its last late task is done and its entry has expired, an overtaken verdict
\* never comes back while the domain stays off the whitelist.
THEOREM StaleGone == Spec => StaleStaysAway
<1>1. ASSUME NEW CONSTANT d \in Domains
      PROVE  Spec => []((Late(d) = {} /\ ~Stale(cache[d]) /\ []Overtaken(d)) => []~Stale(cache[d]))
  <2> DEFINE Gone == Late(d) = {} /\ ~Stale(cache[d])
  <2>1. IInv /\ [Next]_vars /\ Overtaken(d) /\ Gone => Gone'
    BY OvertakenStep
  <2>2. Gone => ~Stale(cache[d])
    OBVIOUS
  <2>3. Late(d) = {} /\ ~Stale(cache[d]) => Gone
    OBVIOUS
  <2> HIDE DEF Gone
  <2> QED
    BY <2>1, <2>2, <2>3, Invariant, PTL DEF Spec
<1> QED
  BY <1>1 DEF StaleStaysAway
-----------------------------------------------------------------------------
(* What the whitelist is good for.                                         *)

\* Nothing but safe is known of d, and a task that has asked the whitelist knows it.
KnownSafe(d) ==
    /\ cache[d] \in {"safe", None}
    /\ \A w \in Workers :
          /\ class[w][d] \in {"safe", None}
          /\ at[w] = "lookup" /\ d \in uncached[w] => class[w][d] = "safe"

\* One worker moves, with what it knows.
LEMMA SafeMove ==
    ASSUME NEW d \in Domains, NEW w \in Workers, KnownSafe(d),
           \A v \in Workers \ {w} :
               at'[v] = at[v] /\ uncached'[v] = uncached[v] /\ class'[v] = class[v],
           cache'[d] \in {"safe", None}, class'[w][d] \in {"safe", None},
           at'[w] = "lookup" /\ d \in uncached'[w] => class'[w][d] = "safe"
    PROVE  KnownSafe(d)'
BY DEF KnownSafe

LEMMA SafeStep ==
    ASSUME IInv, [Next]_vars, NEW d \in Domains, Registered[d] \in top, KnownSafe(d)
    PROVE  KnownSafe(d)'
<1>1. TypeOK
  BY DEF IInv
<1> DEFINE Others(w) == \A v \in Workers \ {w} :
               at'[v] = at[v] /\ uncached'[v] = uncached[v] /\ class'[v] = class[v]
<1>2. ASSUME NEW w \in Workers, Begin(w) PROVE KnownSafe(d)'
  <2>1. at'[w] = "get" /\ Others(w) /\ UNCHANGED <<class, cache>>
    BY <1>1, <1>2, GoFacts DEF Begin, TypeOK
  <2> QED
    BY <2>1, SafeMove DEF KnownSafe
<1>3. ASSUME NEW w \in Workers, ReadCache(w) PROVE KnownSafe(d)'
  <2>1. at'[w] \in {"whitelist", "enrich"} /\ \A v \in Workers \ {w} : at'[v] = at[v]
    BY <1>1, <1>3, GoFacts DEF ReadCache, TypeOK
  <2>2. /\ \A v \in Workers \ {w} : uncached'[v] = uncached[v] /\ class'[v] = class[v]
        /\ class'[w][d] \in {cache[d], class[w][d]}
    BY <1>1, <1>3 DEF ReadCache, Classify, TypeOK
  <2>3. cache' = cache
    BY <1>3 DEF ReadCache
  <2> QED
    BY <2>1, <2>2, <2>3, SafeMove DEF KnownSafe
<1>4. ASSUME NEW w \in Workers, CheckWhitelist(w) PROVE KnownSafe(d)'
  <2> DEFINE f == [e \in Domains |-> IF Registered[e] \in top THEN "safe" ELSE None]
  <2>1. f \in Entries(Verdicts) /\ f[d] = "safe"
    BY NoneFacts DEF Entries
  <2>2. Classify(w, uncached[w], f) /\ Go(w, "lookup") /\ UNCHANGED <<uncached, cache>>
    BY <1>4 DEF CheckWhitelist
  <2> HIDE DEF f
  <2>3. /\ class'[w][d] = IF d \in uncached[w] THEN "safe" ELSE class[w][d]
        /\ \A v \in Workers \ {w} : class'[v] = class[v]
    BY <1>1, <2>1, <2>2, ClassifyFacts DEF TypeOK
  <2>4. Others(w)
    BY <1>1, <2>2, <2>3, GoFacts DEF TypeOK
  <2>5. class'[w][d] \in {"safe", None} /\ cache'[d] \in {"safe", None}
    BY <2>2, <2>3 DEF KnownSafe
  <2> QED
    BY <2>2, <2>3, <2>4, <2>5, SafeMove
<1>5. ASSUME NEW w \in Workers, LookUp(w) PROVE KnownSafe(d)'
  <2> DEFINE f == [e \in Domains |-> Judged(e)]
             D == {e \in uncached[w] : class[w][e] = None}
  <2>1. f \in Entries(Verdicts)
    BY <1>1, JudgedFacts DEF Entries
  <2>2. Classify(w, D, f) /\ Go(w, "set") /\ UNCHANGED <<uncached, cache>> /\ at[w] = "lookup"
    BY <1>5 DEF LookUp
  <2>3. d \notin D
    BY <2>2, NoneFacts DEF KnownSafe
  <2> HIDE DEF f, D
  <2>4. class'[w][d] = class[w][d] /\ \A v \in Workers \ {w} : class'[v] = class[v]
    BY <1>1, <2>1, <2>2, <2>3, ClassifyFacts DEF TypeOK
  <2>5. at'[w] = "set" /\ Others(w)
    BY <1>1, <2>2, <2>4, GoFacts DEF TypeOK
  <2> QED
    BY <2>2, <2>4, <2>5, SafeMove DEF KnownSafe
<1>6. ASSUME NEW w \in Workers, NEW S,
             cache' = [e \in Domains |-> IF e \in S THEN class[w][e] ELSE cache[e]]
      PROVE  cache'[d] \in {"safe", None}
  BY <1>6 DEF KnownSafe
<1>7. ASSUME NEW w \in Workers, StoreCache(w) PROVE KnownSafe(d)'
  <2>1. at'[w] = "enrich" /\ Others(w) /\ class' = class
    BY <1>1, <1>7, GoFacts DEF StoreCache, TypeOK
  <2>2. cache'[d] \in {"safe", None}
    BY <1>6, <1>7 DEF StoreCache
  <2> QED
    BY <2>1, <2>2, SafeMove DEF KnownSafe
<1>8. ASSUME NEW w \in Workers, End(w), cache'[d] \in {"safe", None} PROVE KnownSafe(d)'
  <2>1. at'[w] = "idle" /\ Others(w)
    BY <1>1, <1>8, GoFacts DEF End, TypeOK
  <2>2. class'[w][d] = None
    BY <1>1, <1>8 DEF End, TypeOK, NoClass
  <2> QED
    BY <1>8, <2>1, <2>2, SafeMove
<1>9. ASSUME NEW w \in Workers, Enrich(w) \/ Fails(w) PROVE KnownSafe(d)'
  <2>1. End(w)
    BY <1>9 DEF Enrich, Fails
  <2>2. cache'[d] \in {"safe", None}
    <3>1. CASE Enrich(w)
      BY <3>1 DEF Enrich, KnownSafe
    <3>2. CASE Fails(w)
      BY <1>6, <3>2 DEF Fails
    <3> QED
      BY <1>9, <3>1, <3>2
  <2> QED
    BY <1>8, <2>1, <2>2
<1>10. CASE \/ UNCHANGED vars \/ ListSyncs \/ WhitelistEvicted
            \/ (\E t \in Types : SyncFeed(t)) \/ (\E e \in Domains : CacheExpires(e))
  <2>1. UNCHANGED taskVars /\ (cache' = cache \/ \E e \in Domains : cache' = [cache EXCEPT ![e] = None])
    BY <1>10 DEF vars, ListSyncs, SyncDeletes, SyncAdds, SyncFails, WhitelistEvicted, SyncFeed, CacheExpires
  <2>2. cache'[d] \in {cache[d], None}
    BY <1>1, <2>1 DEF TypeOK, Entries
  <2> QED
    BY <2>1, <2>2 DEF KnownSafe, taskVars
<1> QED
  BY <1>2, <1>3, <1>4, <1>5, <1>7, <1>9, <1>10 DEF Next, Step, ListSyncs

\* While the whitelist has its base, a domain is safe, for the cache and for every
\* task: the moments without it are all that the finding about the whitelist rests on.
THEOREM OnlyTheGap == Spec => SafeWithoutGap
<1>1. ASSUME NEW CONSTANT d \in Domains
      PROVE  Spec => ([](Registered[d] \in top) =>
                 [](\A w \in Workers : {cache[d], class[w][d]} \subseteq {"safe", None}))
  <2>1. Init => KnownSafe(d)
    BY DEF Init, NoClass, KnownSafe
  <2>2. IInv /\ [Next]_vars /\ Registered[d] \in top /\ KnownSafe(d) => KnownSafe(d)'
    BY SafeStep
  <2>3. KnownSafe(d) => \A w \in Workers : {cache[d], class[w][d]} \subseteq {"safe", None}
    BY DEF KnownSafe
  <2> QED
    BY <2>1, <2>2, <2>3, Invariant, PTL DEF Spec
<1> QED
  BY <1>1 DEF SafeWithoutGap
=============================================================================

-------------------------- MODULE FeedSync_proof --------------------------
(***************************************************************************)
(* Proofs about FeedSync, for every number of workers, every list of       *)
(* feeds, whatever they offer, and every number of faults and overlapping  *)
(* syncs: no domain of a feed is lost but to a conflict, the reported      *)
(* counts are explained, and the sessions implement ThreatTable.           *)
(***************************************************************************)
EXTENDS FeedSync, TLAPS, FiniteSetTheorems, WellFoundedInduction

-----------------------------------------------------------------------------
(* Feeds and cardinalities.                                                *)

\* Feeds have types.
LEMMA OrderFacts ==
    /\ Len(Order) \in Nat /\ Len(Order) >= 1
    /\ \A i \in 1..Len(Order) : Order[i] \in Types
<1>1. Order \in Seq(Types) /\ Order # <<>>
  BY FeedSyncAssumption
<1> QED
  BY <1>1

\* Every set of domains is finite.
LEMMA DomainSets ==
    ASSUME NEW S \in SUBSET Domains
    PROVE  IsFiniteSet(S) /\ Cardinality(S) \in Nat
<1>1. IsFiniteSet(Domains)
  BY FeedSyncAssumption
<1> QED
  BY <1>1, FS_Subset, FS_CardinalityType

\* A domain more counts one more.
LEMMA OneMore ==
    ASSUME NEW S \in SUBSET Domains, NEW d \in Domains \ S
    PROVE  Cardinality(S \cup {d}) = Cardinality(S) + 1
BY DomainSets, FS_AddElement

\* A domain less counts one less.
LEMMA OneLess ==
    ASSUME NEW S \in SUBSET Domains, NEW d \in S
    PROVE  Cardinality(S \ {d}) = Cardinality(S) - 1
BY DomainSets, FS_RemoveElement

\* Disjoint sets of domains add up.
LEMMA Disjoint ==
    ASSUME NEW S \in SUBSET Domains, NEW T \in SUBSET Domains, S \cap T = {}
    PROVE  Cardinality(S \cup T) = Cardinality(S) + Cardinality(T)
<1>1. IsFiniteSet(S) /\ IsFiniteSet(T)
  BY DomainSets
<1>2. Cardinality(S \cup T) = Cardinality(S) + Cardinality(T) - Cardinality(S \cap T)
  BY <1>1, FS_Union
<1>3. Cardinality(S \cap T) = 0
  BY FS_EmptySet
<1>4. Cardinality(S) \in Nat /\ Cardinality(T) \in Nat
  BY DomainSets
<1> QED
  BY <1>2, <1>3, <1>4

\* A worker in a session is at a feed with a type and offers.
LEMMA TypeFacts ==
    ASSUME TypeOK, NEW w \in Workers
    PROVE  /\ Type(w) \in Types
           /\ Offers[Type(w)] \subseteq Domains
           /\ Type(w) # None
BY OrderFacts, FeedSyncAssumption DEF TypeOK, Type

-----------------------------------------------------------------------------
(* Types.                                                                  *)

LEMMA InitInvariant == Init => IInv
<1> SUFFICES ASSUME Init PROVE IInv
  OBVIOUS
<1>1. TypeOK
  BY OrderFacts, FeedSyncAssumption DEF Init, All, TypeOK
<1>2. KeysUnique /\ Sessions /\ OnlyConflictsDrop /\ CountsExplained
  BY DEF Init, All, KeysUnique, Sessions, OnlyConflictsDrop, CountsExplained
<1> QED
  BY <1>1, <1>2 DEF IInv

\* An opened session has its types.
LEMMA OpenType ==
    ASSUME TypeOK, NEW w \in Workers, NEW D \in SUBSET Domains, Open(w, D)
    PROVE  /\ todo' \in [Workers -> SUBSET Domains] /\ cur' \in [Workers -> Domains \cup {None}]
           /\ held' \in [Workers -> SUBSET Domains] /\ dropped' \in [Workers -> SUBSET Domains]
           /\ inserted' \in [Workers -> Nat] /\ skipped' \in [Workers -> Nat]
           /\ \A v \in Workers : v # w => cur'[v] = cur[v]
BY DEF TypeOK, Open

\* Going on with the next feed keeps the types.
LEMMA NextFeedType ==
    ASSUME TypeOK, NEW w \in Workers, NextFeed(w), threats' \in [Domains -> Types \cup {None}],
           faults' \in 0..MaxFaults, overlaps' \in 0..MaxOverlaps
    PROVE  TypeOK'
<1>1. Open(w, {})
  BY DEF NextFeed
<1>2. /\ at' \in [Workers -> {"idle", "fetch", "pick", "flush"}]
      /\ \A v \in Workers : at'[v] = "flush" => v # w /\ at[v] = "flush"
  BY DEF TypeOK, NextFeed, Go
<1>3. feed' \in [Workers -> 1..Len(Order)]
  <2>1. feed[w] \in 1..Len(Order) /\ feed \in [Workers -> 1..Len(Order)]
    BY DEF TypeOK
  <2>2. CASE feed[w] = Len(Order)
    BY <2>1, <2>2, OrderFacts DEF NextFeed
  <2>3. CASE feed[w] # Len(Order)
    <3>1. feed[w] + 1 \in 1..Len(Order)
      BY <2>1, <2>3, OrderFacts
    <3> QED
      BY <2>1, <2>3, <3>1 DEF NextFeed
  <2> QED
    BY <2>2, <2>3
<1>4. {} \in SUBSET Domains
  OBVIOUS
<1> QED
  BY <1>1, <1>2, <1>3, <1>4, OpenType DEF TypeOK

\* The commit of a session.
LEMMA CommittedType ==
    ASSUME TypeOK, NEW w \in Workers
    PROVE  Committed(w) \in [Domains -> Types \cup {None}]
BY TypeFacts DEF TypeOK, Committed

\* Every step keeps the types.
LEMMA TypeStep == TypeOK /\ [Next]_vars => TypeOK'
<1> SUFFICES ASSUME TypeOK, [Next]_vars PROVE TypeOK'
  OBVIOUS
<1> USE FeedSyncAssumption
<1>1. ASSUME NEW w \in Workers, Start(w) PROVE TypeOK'
  BY <1>1 DEF TypeOK, Start, Go, session
<1>2. ASSUME NEW w \in Workers, Fetch(w) PROVE TypeOK'
  <2>1. CASE Offers[Type(w)] = {}
    BY <1>2, <2>1, NextFeedType DEF Fetch, TypeOK, bounds
  <2>2. CASE Offers[Type(w)] # {}
    <3>1. Open(w, Offers[Type(w)]) /\ Offers[Type(w)] \in SUBSET Domains
      BY <1>2, <2>2, TypeFacts DEF Fetch
    <3>2. /\ at' \in [Workers -> {"idle", "fetch", "pick", "flush"}]
          /\ \A v \in Workers : at'[v] = "flush" => v # w /\ at[v] = "flush"
          /\ UNCHANGED <<threats, feed, bounds>>
      BY <1>2, <2>2 DEF TypeOK, Fetch, Go
    <3> QED
      BY <3>1, <3>2, OpenType DEF TypeOK, bounds
  <2> QED
    BY <2>1, <2>2
<1>3. ASSUME NEW w \in Workers, Skip(w) PROVE TypeOK'
  BY <1>3 DEF TypeOK, Skip, bounds
<1>4. ASSUME NEW w \in Workers, Add(w) PROVE TypeOK'
  BY <1>4 DEF TypeOK, Add, Go, bounds
<1>5. ASSUME NEW w \in Workers, Flush(w) PROVE TypeOK'
  <2>1. cur[w] \in Domains
    BY <1>5 DEF TypeOK, Flush
  <2> QED
    BY <1>5, <2>1 DEF TypeOK, Flush, Go, bounds
<1>6. ASSUME NEW w \in Workers, Conflict(w) PROVE TypeOK'
  BY <1>6 DEF TypeOK, Conflict, Go, bounds
<1>7. ASSUME NEW w \in Workers, Commit(w) PROVE TypeOK'
  BY <1>7, NextFeedType, CommittedType DEF Commit, TypeOK, bounds
<1>8. ASSUME NEW w \in Workers, DeadlockError(w) PROVE TypeOK'
  BY <1>8, NextFeedType DEF DeadlockError, TypeOK, bounds
<1>9. ASSUME NEW w \in Workers, FeedFails(w) PROVE TypeOK'
  BY <1>9, NextFeedType DEF TypeOK, FeedFails, Fault
<1>10. ASSUME NEW w \in Workers, Crash(w) PROVE TypeOK'
  <2>1. Open(w, {}) /\ {} \in SUBSET Domains
    BY <1>10 DEF Crash
  <2>2. /\ at' \in [Workers -> {"idle", "fetch", "pick", "flush"}]
        /\ \A v \in Workers : at'[v] = "flush" => v # w /\ at[v] = "flush"
    <3>1. PICK v \in Workers : at' = [at EXCEPT ![w] = "idle", ![v] = "fetch"]
      BY <1>10 DEF Crash
    <3> QED
      BY <3>1 DEF TypeOK
  <2>3. feed' \in [Workers -> 1..Len(Order)]
    BY <1>10, OrderFacts DEF TypeOK, Crash
  <2>4. threats' = threats /\ faults' \in 0..MaxFaults /\ overlaps' \in 0..MaxOverlaps
    BY <1>10 DEF TypeOK, Crash, Fault
  <2> QED
    BY <2>1, <2>2, <2>3, <2>4, OpenType DEF TypeOK
<1>11. CASE UNCHANGED vars
  BY <1>11 DEF TypeOK, vars, session, bounds
<1> QED
  BY <1>1, <1>2, <1>3, <1>4, <1>5, <1>6, <1>7, <1>8, <1>9, <1>10, <1>11 DEF Next, Step

-----------------------------------------------------------------------------
(* One session.                                                            *)

\* What the invariant says of one worker.
Parts(w) ==
    /\ at[w] \in {"idle", "fetch"} => held[w] = {}
    /\ at[w] \in {"pick", "flush"} =>
          /\ todo[w] \cup Current(w) \cup held[w] \cup dropped[w] \subseteq Offers[Type(w)]
          /\ todo[w] \cap (Current(w) \cup held[w] \cup dropped[w]) = {}
          /\ Current(w) \cap (held[w] \cup dropped[w]) = {}
          /\ held[w] \cap dropped[w] = {}
          /\ (Current(w) \cup held[w]) \cap Trusted = {}

Complete(w) ==
    at[w] \in {"pick", "flush"} =>
        Offers[Type(w)] \subseteq
            {d \in Domains : threats[d] # None} \cup Trusted
                \cup todo[w] \cup Current(w) \cup held[w] \cup dropped[w]

Counted(w) ==
    at[w] \in {"pick", "flush"} =>
        /\ inserted[w] = Cardinality(held[w]) + Cardinality(dropped[w])
        /\ inserted[w] + skipped[w] + Cardinality(todo[w] \cup Current(w))
              = Cardinality(Offers[Type(w)])

Session(w) == Parts(w) /\ Complete(w) /\ Counted(w)

LEMMA BySession == IInv <=> TypeOK /\ KeysUnique /\ \A w \in Workers : Session(w)
BY DEF IInv, Sessions, OnlyConflictsDrop, CountsExplained, Session, Parts, Complete, Counted

\* The session of a worker that does not move, while the table grows.
LEMMA StandsStill ==
    ASSUME NEW v \in Workers, Session(v),
           at'[v] = at[v], feed'[v] = feed[v], todo'[v] = todo[v], cur'[v] = cur[v],
           held'[v] = held[v], dropped'[v] = dropped[v],
           inserted'[v] = inserted[v], skipped'[v] = skipped[v],
           \A d \in Domains : threats[d] # None => threats'[d] # None
    PROVE  Session(v)'
<1>1. Type(v)' = Type(v) /\ Current(v)' = Current(v)
  BY DEF Type, Current
<1>2. {d \in Domains : threats[d] # None} \subseteq {d \in Domains : threats'[d] # None}
  OBVIOUS
<1>3. Parts(v)'
  BY <1>1 DEF Session, Parts
<1>4. Complete(v)'
  BY <1>1, <1>2 DEF Session, Complete
<1>5. Counted(v)'
  BY <1>1 DEF Session, Counted
<1> QED
  BY <1>3, <1>4, <1>5 DEF Session

\* Outside a session there is nothing to keep.
LEMMA OutsideSession ==
    ASSUME NEW w \in Workers, at'[w] \in {"idle", "fetch"}, held'[w] = {}
    PROVE  Session(w)'
BY DEF Session, Parts, Complete, Counted

\* Going on with the next feed ends the session of w and touches no other.
LEMMA NextFeedFacts ==
    ASSUME TypeOK, NEW w \in Workers, NextFeed(w)
    PROVE  /\ at'[w] \in {"idle", "fetch"} /\ held'[w] = {}
           /\ \A v \in Workers : v # w =>
                 /\ at'[v] = at[v] /\ feed'[v] = feed[v] /\ todo'[v] = todo[v]
                 /\ cur'[v] = cur[v] /\ held'[v] = held[v] /\ dropped'[v] = dropped[v]
                 /\ inserted'[v] = inserted[v] /\ skipped'[v] = skipped[v]
BY DEF TypeOK, NextFeed, Open, Go

\* A step that ends the session of w and leaves the table alone.
LEMMA SessionEnds ==
    ASSUME IInv, NEW w \in Workers, NextFeed(w), threats' = threats
    PROVE  KeysUnique' /\ \A v \in Workers : Session(v)'
<1>1. /\ TypeOK /\ KeysUnique /\ \A v \in Workers : Session(v)
  BY BySession
<1>2. KeysUnique'
  BY <1>1, NextFeedFacts DEF KeysUnique
<1>3. ASSUME NEW v \in Workers PROVE Session(v)'
  <2>1. CASE v = w
    BY <1>1, <2>1, NextFeedFacts, OutsideSession
  <2>2. CASE v # w
    BY <1>1, <2>2, NextFeedFacts, StandsStill
  <2> QED
    BY <2>1, <2>2
<1> QED
  BY <1>2, <1>3

-----------------------------------------------------------------------------
(* The steps.                                                              *)

LEMMA StartStep ==
    ASSUME IInv, NEW w \in Workers, Start(w)
    PROVE  KeysUnique' /\ \A v \in Workers : Session(v)'
<1>1. TypeOK /\ KeysUnique /\ \A v \in Workers : Session(v)
  BY BySession
<1>2. UNCHANGED <<threats, feed, todo, cur, held, dropped, inserted, skipped>>
  BY DEF Start, session
<1>3. at'[w] = "fetch" /\ at[w] = "idle" /\ \A v \in Workers : v # w => at'[v] = at[v]
  BY <1>1 DEF Start, Go, TypeOK
<1>4. KeysUnique'
  BY <1>1, <1>2 DEF KeysUnique
<1>5. held'[w] = {}
  BY <1>1, <1>2, <1>3 DEF Session, Parts
<1>6. ASSUME NEW v \in Workers PROVE Session(v)'
  <2>1. CASE v = w
    BY <1>3, <1>5, <2>1, OutsideSession
  <2>2. CASE v # w
    BY <1>1, <1>2, <1>3, <2>2, StandsStill
  <2> QED
    BY <2>1, <2>2
<1> QED
  BY <1>4, <1>6

LEMMA FetchStep ==
    ASSUME IInv, NEW w \in Workers, Fetch(w)
    PROVE  KeysUnique' /\ \A v \in Workers : Session(v)'
<1>1. TypeOK /\ KeysUnique /\ \A v \in Workers : Session(v)
  BY BySession
<1>2. threats' = threats
  BY DEF Fetch
<1>3. CASE Offers[Type(w)] = {}
  BY <1>2, <1>3, SessionEnds DEF Fetch
<1>4. CASE Offers[Type(w)] # {}
  <2>1. /\ at'[w] = "pick" /\ todo'[w] = Offers[Type(w)] /\ feed' = feed
        /\ held'[w] = {} /\ dropped'[w] = {} /\ inserted'[w] = 0 /\ skipped'[w] = 0
        /\ \A v \in Workers : v # w =>
              /\ at'[v] = at[v] /\ todo'[v] = todo[v] /\ cur'[v] = cur[v]
              /\ held'[v] = held[v] /\ dropped'[v] = dropped[v]
              /\ inserted'[v] = inserted[v] /\ skipped'[v] = skipped[v]
    BY <1>1, <1>4 DEF Fetch, Open, Go, TypeOK
  <2>2. KeysUnique'
    BY <1>1, <1>2, <2>1 DEF KeysUnique
  <2>3. Session(w)'
    <3>1. Type(w)' = Type(w) /\ Current(w)' = {}
      BY <2>1 DEF Type, Current
    <3>2. Parts(w)' /\ Complete(w)'
      BY <2>1, <3>1 DEF Parts, Complete
    <3>3. Cardinality({}) = 0 /\ Cardinality(Offers[Type(w)]) \in Nat
      BY <1>1, TypeFacts, DomainSets, FS_EmptySet
    <3>4. todo'[w] \cup Current(w)' = Offers[Type(w)]
      BY <2>1, <3>1
    <3>5. Counted(w)'
      BY <2>1, <3>1, <3>3, <3>4 DEF Counted
    <3> QED
      BY <3>2, <3>5 DEF Session
  <2>4. ASSUME NEW v \in Workers, v # w PROVE Session(v)'
    BY <1>1, <1>2, <2>1, <2>4, StandsStill
  <2> QED
    BY <2>2, <2>3, <2>4
<1> QED
  BY <1>3, <1>4

LEMMA SkipStep ==
    ASSUME IInv, NEW w \in Workers, Skip(w)
    PROVE  KeysUnique' /\ \A v \in Workers : Session(v)'
<1>1. TypeOK /\ KeysUnique /\ \A v \in Workers : Session(v)
  BY BySession
<1>2. PICK d \in todo[w] : Skippable(d) /\ todo' = [todo EXCEPT ![w] = @ \ {d}]
  BY DEF Skip
<1>3. /\ at[w] = "pick" /\ UNCHANGED <<threats, at, feed, cur, held, dropped, inserted>>
      /\ skipped' = [skipped EXCEPT ![w] = @ + 1]
  BY DEF Skip
<1>4. /\ todo[w] \in SUBSET Domains /\ todo'[w] = todo[w] \ {d} /\ d \in Domains
      /\ skipped'[w] = skipped[w] + 1 /\ skipped[w] \in Nat /\ inserted[w] \in Nat
      /\ \A v \in Workers : v # w => todo'[v] = todo[v] /\ skipped'[v] = skipped[v]
  BY <1>1, <1>2, <1>3 DEF TypeOK
<1>5. Current(w) = {} /\ Current(w)' = {} /\ Type(w)' = Type(w)
  BY <1>3 DEF Current, Type
<1>6. Session(w)'
  <2>1. Parts(w)'
    BY <1>1, <1>3, <1>4, <1>5 DEF Session, Parts
  <2>2. Complete(w)'
    BY <1>1, <1>2, <1>3, <1>4, <1>5 DEF Session, Complete, Skippable
  <2>3. Counted(w)'
    <3>1. Cardinality(todo[w] \ {d}) = Cardinality(todo[w]) - 1
      BY <1>2, <1>4, OneLess
    <3>2. todo[w] \cup Current(w) = todo[w] /\ todo'[w] \cup Current(w)' = todo[w] \ {d}
      BY <1>4, <1>5
    <3>3. Cardinality(todo[w]) \in Nat
      BY <1>4, DomainSets
    <3>4. inserted[w] = Cardinality(held[w]) + Cardinality(dropped[w])
      BY <1>1, <1>3 DEF Session, Counted
    <3>5. inserted[w] + skipped[w] + Cardinality(todo[w]) = Cardinality(Offers[Type(w)])
      BY <1>1, <1>3, <3>2 DEF Session, Counted
    <3>6. inserted'[w] + skipped'[w] + Cardinality(todo[w] \ {d}) = Cardinality(Offers[Type(w)])
      BY <1>3, <1>4, <3>1, <3>3, <3>5
    <3> QED
      BY <1>3, <1>5, <3>2, <3>4, <3>6 DEF Counted
  <2> QED
    BY <2>1, <2>2, <2>3 DEF Session
<1>7. ASSUME NEW v \in Workers, v # w PROVE Session(v)'
  BY <1>1, <1>3, <1>4, <1>7, StandsStill
<1>8. KeysUnique'
  BY <1>1, <1>3 DEF KeysUnique
<1> QED
  BY <1>6, <1>7, <1>8

LEMMA AddStep ==
    ASSUME IInv, NEW w \in Workers, Add(w)
    PROVE  KeysUnique' /\ \A v \in Workers : Session(v)'
<1>1. TypeOK /\ KeysUnique /\ \A v \in Workers : Session(v)
  BY BySession
<1>2. PICK d \in todo[w] : /\ ~Skippable(d) /\ todo' = [todo EXCEPT ![w] = @ \ {d}]
                          /\ cur' = [cur EXCEPT ![w] = d]
  BY DEF Add
<1>3. /\ at[w] = "pick" /\ UNCHANGED <<threats, feed, held, dropped, inserted, skipped>>
      /\ at' = [at EXCEPT ![w] = "flush"]
  BY DEF Add, Go
<1>4. /\ todo'[w] = todo[w] \ {d} /\ cur'[w] = d /\ at'[w] = "flush"
      /\ \A v \in Workers : v # w => todo'[v] = todo[v] /\ cur'[v] = cur[v] /\ at'[v] = at[v]
  BY <1>1, <1>2, <1>3 DEF TypeOK
<1>5. Current(w) = {} /\ Current(w)' = {d} /\ Type(w)' = Type(w)
  BY <1>3, <1>4 DEF Current, Type
<1>6. Session(w)'
  <2>1. Parts(w)'
    BY <1>1, <1>2, <1>3, <1>4, <1>5 DEF Session, Parts, Skippable
  <2>2. Complete(w)'
    BY <1>1, <1>2, <1>3, <1>4, <1>5 DEF Session, Complete
  <2>3. Counted(w)'
    <3>1. todo[w] \cup Current(w) = todo'[w] \cup Current(w)'
      BY <1>2, <1>4, <1>5
    <3> QED
      BY <1>1, <1>3, <1>5, <3>1 DEF Session, Counted
  <2> QED
    BY <2>1, <2>2, <2>3 DEF Session
<1>7. ASSUME NEW v \in Workers, v # w PROVE Session(v)'
  BY <1>1, <1>3, <1>4, <1>7, StandsStill
<1>8. KeysUnique'
  BY <1>1, <1>3 DEF KeysUnique
<1> QED
  BY <1>6, <1>7, <1>8

LEMMA FlushStep ==
    ASSUME IInv, NEW w \in Workers, Flush(w)
    PROVE  KeysUnique' /\ \A v \in Workers : Session(v)'
<1>1. TypeOK /\ KeysUnique /\ \A v \in Workers : Session(v)
  BY BySession
<1> DEFINE d == cur[w]
<1>2. /\ at[w] = "flush" /\ ~Blocked(w) /\ threats[d] = None
      /\ UNCHANGED <<threats, feed, todo, dropped, skipped>>
  BY DEF Flush
<1>3. /\ held'[w] = held[w] \cup {d} /\ inserted'[w] = inserted[w] + 1 /\ at'[w] = "pick"
      /\ \A v \in Workers : v # w =>
            held'[v] = held[v] /\ inserted'[v] = inserted[v] /\ cur'[v] = cur[v] /\ at'[v] = at[v]
  BY <1>1 DEF TypeOK, Flush, Go
<1>4. Current(w) = {d} /\ Current(w)' = {} /\ Type(w)' = Type(w)
  BY <1>2, <1>3 DEF Current, Type
<1>5. /\ d \in Domains /\ held[w] \in SUBSET Domains /\ todo[w] \in SUBSET Domains
      /\ dropped[w] \in SUBSET Domains /\ inserted[w] \in Nat /\ skipped[w] \in Nat
  BY <1>1, <1>2 DEF TypeOK
<1>6. Session(w)'
  <2>1. Parts(w)'
    BY <1>1, <1>2, <1>3, <1>4 DEF Session, Parts
  <2>2. Complete(w)'
    BY <1>1, <1>2, <1>3, <1>4 DEF Session, Complete
  <2>3. Counted(w)'
    <3>1. d \notin held[w] /\ d \notin todo[w]
      BY <1>1, <1>2, <1>4 DEF Session, Parts
    <3>2. Cardinality(held[w] \cup {d}) = Cardinality(held[w]) + 1
      BY <1>5, <3>1, OneMore
    <3>3. Cardinality(todo[w] \cup {d}) = Cardinality(todo[w]) + 1
      BY <1>5, <3>1, OneMore
    <3>4. /\ Cardinality(held[w]) \in Nat /\ Cardinality(todo[w]) \in Nat
          /\ Cardinality(dropped[w]) \in Nat
      BY <1>5, DomainSets
    <3>5. inserted[w] = Cardinality(held[w]) + Cardinality(dropped[w])
      BY <1>1, <1>2 DEF Session, Counted
    <3>6. inserted[w] + skipped[w] + Cardinality(todo[w] \cup {d}) = Cardinality(Offers[Type(w)])
      BY <1>1, <1>2, <1>4 DEF Session, Counted
    <3>7. todo'[w] \cup Current(w)' = todo[w]
      BY <1>2, <1>4
    <3> HIDE DEF d
    <3>8. inserted'[w] = Cardinality(held'[w]) + Cardinality(dropped'[w])
      BY <1>2, <1>3, <1>5, <3>2, <3>4, <3>5
    <3>9. inserted'[w] + skipped'[w] + Cardinality(todo[w]) = Cardinality(Offers[Type(w)])
      BY <1>2, <1>3, <1>5, <3>3, <3>4, <3>6
    <3> QED
      BY <1>4, <3>7, <3>8, <3>9 DEF Counted
  <2> QED
    BY <2>1, <2>2, <2>3 DEF Session
<1>7. ASSUME NEW v \in Workers, v # w PROVE Session(v)'
  BY <1>1, <1>2, <1>3, <1>7, StandsStill
<1>8. KeysUnique'
  <2>1. \A v \in Workers : v # w => d \notin held[v]
    BY <1>2 DEF Blocked, Waits
  <2> QED
    BY <1>1, <1>2, <1>3, <2>1 DEF KeysUnique
<1> QED
  BY <1>6, <1>7, <1>8

LEMMA ConflictStep ==
    ASSUME IInv, NEW w \in Workers, Conflict(w)
    PROVE  KeysUnique' /\ \A v \in Workers : Session(v)'
<1>1. TypeOK /\ KeysUnique /\ \A v \in Workers : Session(v)
  BY BySession
<1> DEFINE d == cur[w]
<1>2. /\ at[w] = "flush" /\ threats[d] # None
      /\ UNCHANGED <<threats, feed, todo, inserted>>
  BY DEF Conflict
<1>3. /\ held'[w] = {} /\ dropped'[w] = dropped[w] \cup held[w]
      /\ skipped'[w] = skipped[w] + 1 /\ at'[w] = "pick"
      /\ \A v \in Workers : v # w =>
            /\ held'[v] = held[v] /\ dropped'[v] = dropped[v] /\ skipped'[v] = skipped[v]
            /\ cur'[v] = cur[v] /\ at'[v] = at[v]
  BY <1>1 DEF TypeOK, Conflict, Go
<1>4. Current(w) = {d} /\ Current(w)' = {} /\ Type(w)' = Type(w)
  BY <1>2, <1>3 DEF Current, Type
<1>5. /\ d \in Domains /\ held[w] \in SUBSET Domains /\ todo[w] \in SUBSET Domains
      /\ dropped[w] \in SUBSET Domains /\ inserted[w] \in Nat /\ skipped[w] \in Nat
  BY <1>1, <1>2 DEF TypeOK
<1>6. Session(w)'
  <2>1. Parts(w)'
    BY <1>1, <1>2, <1>3, <1>4 DEF Session, Parts
  <2>2. Complete(w)'
    BY <1>1, <1>2, <1>3, <1>4, <1>5 DEF Session, Complete
  <2>3. Counted(w)'
    <3>1. d \notin todo[w] /\ dropped[w] \cap held[w] = {}
      BY <1>1, <1>2, <1>4 DEF Session, Parts
    <3>2. Cardinality(dropped[w] \cup held[w]) = Cardinality(dropped[w]) + Cardinality(held[w])
      BY <1>5, <3>1, Disjoint
    <3>3. Cardinality(todo[w] \cup {d}) = Cardinality(todo[w]) + 1
      BY <1>5, <3>1, OneMore
    <3>4. /\ Cardinality(held[w]) \in Nat /\ Cardinality(todo[w]) \in Nat
          /\ Cardinality(dropped[w]) \in Nat /\ Cardinality(held'[w]) = 0
      BY <1>3, <1>5, DomainSets, FS_EmptySet
    <3>5. inserted[w] = Cardinality(held[w]) + Cardinality(dropped[w])
      BY <1>1, <1>2 DEF Session, Counted
    <3>6. inserted[w] + skipped[w] + Cardinality(todo[w] \cup {d}) = Cardinality(Offers[Type(w)])
      BY <1>1, <1>2, <1>4 DEF Session, Counted
    <3>7. todo'[w] \cup Current(w)' = todo[w]
      BY <1>2, <1>4
    <3> HIDE DEF d
    <3>8. inserted'[w] = Cardinality(held'[w]) + Cardinality(dropped'[w])
      BY <1>2, <1>3, <3>2, <3>4, <3>5
    <3>9. inserted'[w] + skipped'[w] + Cardinality(todo[w]) = Cardinality(Offers[Type(w)])
      BY <1>2, <1>3, <1>5, <3>3, <3>4, <3>6
    <3> QED
      BY <1>4, <3>7, <3>8, <3>9 DEF Counted
  <2> QED
    BY <2>1, <2>2, <2>3 DEF Session
<1>7. ASSUME NEW v \in Workers, v # w PROVE Session(v)'
  BY <1>1, <1>2, <1>3, <1>7, StandsStill
<1>8. KeysUnique'
  BY <1>1, <1>2, <1>3 DEF KeysUnique
<1> QED
  BY <1>6, <1>7, <1>8

LEMMA CommitStep ==
    ASSUME IInv, NEW w \in Workers, Commit(w)
    PROVE  KeysUnique' /\ \A v \in Workers : Session(v)'
<1>1. TypeOK /\ KeysUnique /\ \A v \in Workers : Session(v)
  BY BySession
<1>2. NextFeed(w) /\ threats' = Committed(w) /\ Type(w) # None
  BY <1>1, TypeFacts DEF Commit
<1>3. /\ \A d \in Domains : threats[d] # None => threats'[d] # None
      /\ \A d \in Domains \ held[w] : threats'[d] = threats[d]
  BY <1>2 DEF Committed
<1>4. KeysUnique'
  <2>1. ASSUME NEW v \in Workers, NEW d \in held'[v] PROVE threats'[d] = None
    <3>1. v # w /\ d \in held[v] /\ d \notin held[w]
      BY <1>1, <1>2, <2>1, NextFeedFacts DEF KeysUnique
    <3>2. d \in Domains
      BY <1>1, <3>1 DEF TypeOK
    <3> QED
      BY <1>1, <1>3, <3>1, <3>2 DEF KeysUnique
  <2> QED
    BY <1>1, <1>2, <2>1, NextFeedFacts DEF KeysUnique
<1>5. ASSUME NEW v \in Workers PROVE Session(v)'
  <2>1. CASE v = w
    BY <1>1, <1>2, <2>1, NextFeedFacts, OutsideSession
  <2>2. CASE v # w
    BY <1>1, <1>2, <1>3, <2>2, NextFeedFacts, StandsStill
  <2> QED
    BY <2>1, <2>2
<1> QED
  BY <1>4, <1>5

LEMMA CrashStep ==
    ASSUME IInv, NEW w \in Workers, Crash(w)
    PROVE  KeysUnique' /\ \A v \in Workers : Session(v)'
<1>1. TypeOK /\ KeysUnique /\ \A v \in Workers : Session(v)
  BY BySession
<1>2. threats' = threats
  BY DEF Crash
<1>3. PICK u \in Workers : /\ u = w \/ at[u] = "idle"
                          /\ at' = [at EXCEPT ![w] = "idle", ![u] = "fetch"]
  BY DEF Crash
<1>4. /\ at'[w] \in {"idle", "fetch"} /\ held'[w] = {} /\ at'[u] = "fetch"
      /\ \A v \in Workers : v # w /\ v # u => at'[v] = at[v]
      /\ \A v \in Workers : v # w =>
            /\ feed'[v] = feed[v] /\ todo'[v] = todo[v]
            /\ cur'[v] = cur[v] /\ held'[v] = held[v] /\ dropped'[v] = dropped[v]
            /\ inserted'[v] = inserted[v] /\ skipped'[v] = skipped[v]
  BY <1>1, <1>3 DEF TypeOK, Crash, Open
<1>5. KeysUnique'
  BY <1>1, <1>2, <1>4 DEF KeysUnique
<1>6. held'[u] = {}
  BY <1>1, <1>3, <1>4 DEF Session, Parts
<1>7. ASSUME NEW v \in Workers PROVE Session(v)'
  <2>1. CASE v \in {w, u}
    BY <1>4, <1>6, <2>1, OutsideSession
  <2>2. CASE v \notin {w, u}
    BY <1>1, <1>2, <1>4, <2>2, StandsStill
  <2> QED
    BY <2>1, <2>2
<1> QED
  BY <1>5, <1>7

-----------------------------------------------------------------------------
(* The theorems.                                                           *)

\* Every step keeps the invariant.
LEMMA Induction == IInv /\ [Next]_vars => IInv'
<1> SUFFICES ASSUME IInv, [Next]_vars PROVE IInv'
  OBVIOUS
<1>1. TypeOK'
  BY TypeStep, BySession
<1> SUFFICES KeysUnique' /\ \A v \in Workers : Session(v)'
  BY <1>1 DEF IInv, Sessions, OnlyConflictsDrop, CountsExplained, Session, Parts, Complete, Counted
<1>2. ASSUME NEW w \in Workers, DeadlockError(w) \/ FeedFails(w)
      PROVE  KeysUnique' /\ \A v \in Workers : Session(v)'
  BY <1>2, SessionEnds DEF DeadlockError, FeedFails
<1>3. CASE UNCHANGED vars
  <2>1. UNCHANGED <<threats, at, feed, todo, cur, held, dropped, inserted, skipped>>
    BY <1>3 DEF vars, session
  <2>2. TypeOK /\ KeysUnique /\ \A v \in Workers : Session(v)
    BY BySession
  <2>3. KeysUnique'
    BY <2>1, <2>2 DEF KeysUnique
  <2>4. ASSUME NEW v \in Workers PROVE Session(v)'
    BY <2>1, <2>2, StandsStill
  <2> QED
    BY <2>3, <2>4
<1> QED
  BY <1>2, <1>3, StartStep, FetchStep, SkipStep, AddStep, FlushStep, ConflictStep,
     CommitStep, CrashStep DEF Next, Step

\* The inductive invariant holds in every reachable state.
THEOREM Invariant == Spec => []IInv
BY InitInvariant, Induction, PTL DEF Spec

\* Every variable keeps its type.
THEOREM TypeCorrect == Spec => []TypeOK
<1>1. IInv => TypeOK
  BY DEF IInv
<1> QED
  BY <1>1, Invariant, PTL

\* However many syncs run beside each other, a session loses no domain of its feed
\* but those that a conflict rolled back.
THEOREM OnlyConflicts == Spec => []OnlyConflictsDrop
<1>1. IInv => OnlyConflictsDrop
  BY DEF IInv
<1> QED
  BY <1>1, Invariant, PTL

\* The reported counts cover the feed, and exceed what is committed by the rows
\* that were rolled back.
THEOREM Counts == Spec => []CountsExplained
<1>1. IInv => CountsExplained
  BY DEF IInv
<1> QED
  BY <1>1, Invariant, PTL

\* The table as its readers see it: each step is an addition of one feed or none.
THEOREM Implementation == Spec => ImplementsThreatTable
<1>1. Init => TT!Init
  BY DEF Init, TT!Init
<1>2. IInv /\ [Next]_vars => [TT!Next]_threats
  <2> SUFFICES ASSUME IInv, Next, threats' # threats
               PROVE  TT!Next
    BY DEF vars
  <2>1. PICK w \in Workers : Commit(w)
    BY DEF Next, Step, Start, Fetch, Skip, Add, Flush, Conflict, DeadlockError, FeedFails, Crash
  <2>2. /\ at[w] = "pick" /\ threats' = Committed(w)
    BY <2>1 DEF Commit
  <2>3. Type(w) \in Types /\ held[w] \in SUBSET Domains
    BY TypeFacts DEF IInv, TypeOK
  <2>4. ASSUME NEW d \in held[w]
        PROVE  /\ Type(w) \in [e \in Domains |-> {t \in Types : e \in Offers[t] \ Trusted}][d]
               /\ threats[d] = None
    <3>1. d \in Offers[Type(w)] /\ d \notin Trusted
      BY <2>2, <2>4 DEF IInv, Sessions
    <3>2. threats[d] = None
      BY DEF IInv, KeysUnique
    <3> QED
      BY <2>3, <3>1, <3>2
  <2>5. TT!Add(Type(w), held[w])
    BY <2>2, <2>4 DEF TT!Add, Committed
  <2> QED
    BY <2>3, <2>5 DEF TT!Next
<1> QED
  BY <1>1, <1>2, Invariant, PTL DEF Spec, TT!Spec, ImplementsThreatTable
-----------------------------------------------------------------------------
(* Every step brings a sync nearer to its end.                             *)

\* Steps of whole feeds.
LEMMA Feeds ==
    ASSUME NEW a \in Nat, NEW r \in Nat
    PROVE  a * r \in Nat /\ (a + 1) * r = a * r + r
OBVIOUS

\* A session has at most two steps for each domain, and one.
LEMMA TodoFacts ==
    ASSUME TypeOK, NEW w \in Workers
    PROVE  /\ Cardinality(todo[w]) \in Nat /\ SessionSteps \in Nat
           /\ 2 * Cardinality(todo[w]) + 2 <= SessionSteps
<1>1. todo[w] \in SUBSET Domains /\ IsFiniteSet(Domains)
  BY FeedSyncAssumption DEF TypeOK
<1>2. PICK n : n = Cardinality(todo[w])
  OBVIOUS
<1>3. PICK m : m = Cardinality(Domains)
  OBVIOUS
<1>4. n \in Nat /\ m \in Nat /\ n <= m
  BY <1>1, <1>2, <1>3, FS_Subset, FS_CardinalityType
<1>5. SessionSteps = 2 * m + 2
  BY <1>3 DEF SessionSteps
<1> QED
  BY <1>2, <1>4, <1>5

\* What is left of the session w is in.
Rest(w) ==
    IF at[w] = "fetch" THEN SessionSteps
    ELSE IF at[w] = "pick" THEN 2 * Cardinality(todo[w]) + 1
    ELSE 2 * Cardinality(todo[w]) + 2

LEMMA LeftFacts ==
    ASSUME TypeOK, NEW w \in Workers
    PROVE  /\ Len(Order) - feed[w] \in Nat
           /\ Rest(w) \in Nat /\ Rest(w) >= 1 /\ Rest(w) <= SessionSteps
           /\ Left(w) \in Nat
           /\ at[w] = "idle" => Left(w) = 0
           /\ at[w] # "idle" => Left(w) = (Len(Order) - feed[w]) * SessionSteps + Rest(w)
<1>1. PICK n : n = Cardinality(todo[w])
  OBVIOUS
<1>2. n \in Nat /\ SessionSteps \in Nat /\ 2 * n + 2 <= SessionSteps
  BY <1>1, TodoFacts
<1>3. at[w] \in {"idle", "fetch", "pick", "flush"} /\ feed[w] \in 1..Len(Order)
  BY DEF TypeOK
<1>4. PICK a : a = Len(Order) - feed[w]
  OBVIOUS
<1>5. a \in Nat
  BY <1>3, <1>4, OrderFacts
<1>6. a * SessionSteps \in Nat
  BY <1>2, <1>5, Feeds
<1>7. Rest(w) \in Nat /\ Rest(w) >= 1 /\ Rest(w) <= SessionSteps
  BY <1>1, <1>2 DEF Rest
<1>8. /\ at[w] = "idle" => Left(w) = 0
      /\ at[w] # "idle" => Left(w) = a * SessionSteps + Rest(w)
  BY <1>3, <1>4 DEF Left, Rest
<1>9. Left(w) \in Nat
  BY <1>6, <1>7, <1>8
<1> QED
  BY <1>4, <1>5, <1>7, <1>8, <1>9

\* What stands still has as much left.
LEMMA SameLeft ==
    ASSUME NEW v \in Workers, at'[v] = at[v], feed'[v] = feed[v], todo'[v] = todo[v]
    PROVE  Left(v)' = Left(v)
BY DEF Left, SessionSteps

\* The next feed, or the end.
LEMMA NextFeedShrinks ==
    ASSUME TypeOK, TypeOK', NEW w \in Workers, at[w] # "idle", NextFeed(w)
    PROVE  Left(w)' < Left(w) /\ \A v \in Workers : v # w => Left(v)' = Left(v)
<1>1. ASSUME NEW v \in Workers, v # w PROVE Left(v)' = Left(v)
  BY <1>1, NextFeedFacts, SameLeft
<1>2. PICK a : a = Len(Order) - feed[w]
  OBVIOUS
<1>3. /\ a \in Nat /\ Rest(w) \in Nat /\ Rest(w) >= 1
      /\ Left(w) = a * SessionSteps + Rest(w) /\ SessionSteps \in Nat
  BY <1>2, LeftFacts, TodoFacts
<1>4. Left(w)' < Left(w)
  <2>1. CASE feed[w] = Len(Order)
    <3>1. at'[w] = "idle"
      BY <2>1 DEF NextFeed, Go, TypeOK
    <3>2. Left(w)' = 0
      BY <3>1 DEF Left
    <3> QED
      BY <1>3, <3>2, Feeds
  <2>2. CASE feed[w] # Len(Order)
    <3>1. at'[w] = "fetch" /\ feed'[w] = feed[w] + 1 /\ feed[w] \in 1..Len(Order)
      BY <2>2 DEF NextFeed, Go, TypeOK
    <3>2. Left(w)' = (Len(Order) - (feed[w] + 1)) * SessionSteps + SessionSteps
      BY <3>1 DEF Left, SessionSteps
    <3>3. PICK b : b = Len(Order) - (feed[w] + 1)
      OBVIOUS
    <3>4. b \in Nat /\ a = b + 1
      BY <1>2, <2>2, <3>1, <3>3, OrderFacts
    <3>5. b * SessionSteps \in Nat /\ a * SessionSteps = b * SessionSteps + SessionSteps
      BY <1>3, <3>4, Feeds
    <3> QED
      BY <1>3, <3>2, <3>3, <3>5
  <2> QED
    BY <2>1, <2>2
<1> QED
  BY <1>1, <1>4

\* A step within a feed.
LEMMA RestShrinks ==
    ASSUME TypeOK, NEW w \in Workers, at[w] # "idle", at'[w] # "idle", TypeOK',
           feed'[w] = feed[w], Rest(w)' < Rest(w)
    PROVE  Left(w)' < Left(w)
<1>1. PICK p : p = (Len(Order) - feed[w]) * SessionSteps
  OBVIOUS
<1>2. Left(w) = p + Rest(w) /\ Rest(w) \in Nat /\ p \in Nat
  BY <1>1, LeftFacts, TodoFacts, Feeds
<1>3. Left(w)' = p + Rest(w)' /\ Rest(w)' \in Nat
  <2>1. at'[w] \in {"fetch", "pick", "flush"}
    BY DEF TypeOK
  <2>2. Left(w)' = p + Rest(w)'
    BY <1>1, <2>1 DEF Left, Rest, SessionSteps
  <2>3. todo'[w] \in SUBSET Domains
    BY DEF TypeOK
  <2>4. PICK n : n = Cardinality(todo'[w])
    OBVIOUS
  <2>5. n \in Nat
    BY <2>3, <2>4, DomainSets
  <2>6. SessionSteps \in Nat
    BY TodoFacts
  <2>7. Rest(w)' \in Nat
    BY <2>4, <2>5, <2>6 DEF Rest, SessionSteps
  <2> QED
    BY <2>2, <2>7
<1> QED
  BY <1>2, <1>3

LEMMA StepShrinks ==
    ASSUME IInv, TypeOK', NEW w \in Workers, Step(w)
    PROVE  Left(w)' < Left(w) /\ \A v \in Workers : v # w => Left(v)' = Left(v)
<1>1. TypeOK
  BY DEF IInv
<1> DEFINE Others == \A v \in Workers : v # w =>
               at'[v] = at[v] /\ feed'[v] = feed[v] /\ todo'[v] = todo[v]
<1>2. ASSUME at[w] # "idle", at'[w] # "idle", feed'[w] = feed[w], Rest(w)' < Rest(w), Others
      PROVE  Left(w)' < Left(w) /\ \A v \in Workers : v # w => Left(v)' = Left(v)
  BY <1>1, <1>2, RestShrinks, SameLeft
<1>3. PICK n : n = Cardinality(todo[w])
  OBVIOUS
<1>4. n \in Nat /\ SessionSteps \in Nat /\ 2 * n + 2 <= SessionSteps /\ todo[w] \in SUBSET Domains
  BY <1>1, <1>3, TodoFacts DEF TypeOK
<1>5. CASE Fetch(w)
  <2>1. CASE Offers[Type(w)] = {}
    BY <1>1, <1>5, <2>1, NextFeedShrinks DEF Fetch
  <2>2. CASE Offers[Type(w)] # {}
    <3>1. /\ at[w] = "fetch" /\ at'[w] = "pick" /\ feed' = feed /\ Others
          /\ todo'[w] = Offers[Type(w)]
      BY <1>1, <1>5, <2>2 DEF Fetch, Open, Go, TypeOK
    <3>2. Offers[Type(w)] \subseteq Domains
      BY <1>1, TypeFacts
    <3>3. PICK k : k = Cardinality(Offers[Type(w)])
      OBVIOUS
    <3>4. PICK m : m = Cardinality(Domains)
      OBVIOUS
    <3>5. k \in Nat /\ m \in Nat /\ k <= m
      BY <3>2, <3>3, <3>4, FS_Subset, FS_CardinalityType, FeedSyncAssumption
    <3>6. Rest(w) = 2 * m + 2 /\ Rest(w)' = 2 * k + 1
      BY <3>1, <3>3, <3>4 DEF Rest, SessionSteps
    <3>7. Rest(w)' < Rest(w)
      BY <3>5, <3>6
    <3> QED
      BY <1>2, <3>1, <3>7
  <2> QED
    BY <2>1, <2>2
<1>6. CASE Skip(w) \/ Add(w)
  <2>1. PICK d \in todo[w] : todo' = [todo EXCEPT ![w] = @ \ {d}]
    BY <1>6 DEF Skip, Add
  <2>2. /\ at[w] = "pick" /\ at'[w] \in {"pick", "flush"} /\ feed' = feed /\ Others
        /\ todo'[w] = todo[w] \ {d}
    BY <1>1, <1>6, <2>1 DEF Skip, Add, Go, TypeOK
  <2>3. PICK k : k = Cardinality(todo'[w])
    OBVIOUS
  <2>4. k = n - 1
    BY <1>3, <1>4, <2>1, <2>2, <2>3, OneLess
  <2>5. k \in Nat
    BY <1>4, <2>2, <2>3, DomainSets
  <2>6. Rest(w) = 2 * n + 1 /\ Rest(w)' <= 2 * k + 2
    BY <1>3, <2>2, <2>3, <2>5 DEF Rest
  <2>7. Rest(w)' \in Nat
    BY <2>2, <2>3, <2>5 DEF Rest
  <2>8. Rest(w)' < Rest(w)
    BY <1>4, <2>4, <2>5, <2>6, <2>7
  <2> QED
    BY <1>2, <2>2, <2>8
<1>7. CASE Flush(w) \/ Conflict(w)
  <2>1. at[w] = "flush" /\ at'[w] = "pick" /\ feed' = feed /\ todo' = todo /\ Others
    BY <1>1, <1>7 DEF Flush, Conflict, Go, TypeOK
  <2>2. Rest(w) = 2 * n + 2 /\ Rest(w)' = 2 * n + 1
    BY <1>3, <2>1 DEF Rest
  <2>3. Rest(w)' < Rest(w)
    BY <1>4, <2>2
  <2> QED
    BY <1>2, <2>1, <2>3
<1>8. CASE Commit(w)
  BY <1>1, <1>8, NextFeedShrinks DEF Commit
<1>9. CASE DeadlockError(w)
  <2>1. at[w] = "flush"
    BY <1>9 DEF DeadlockError, Deadlocked, Waits
  <2> QED
    BY <1>1, <1>9, <2>1, NextFeedShrinks DEF DeadlockError
<1> QED
  BY <1>5, <1>6, <1>7, <1>8, <1>9 DEF Step

\* Failures do not give a sync more to do.
LEMMA LeftGrows ==
    ASSUME IInv, TypeOK', [Next]_vars, NEW w \in Workers, Left(w)' > Left(w)
    PROVE  Start(w) \/ \E v \in Workers : Crash(v)
<1>1. TypeOK /\ Left(w) \in Nat
  BY LeftFacts DEF IInv
<1>2. ASSUME Left(w)' = Left(w) \/ Left(w)' < Left(w) PROVE FALSE
  <2>1. Left(w)' \in Nat
    <3>1. at'[w] \in {"idle", "fetch", "pick", "flush"} /\ feed'[w] \in 1..Len(Order)
      BY DEF TypeOK
    <3>2. PICK n : n = Cardinality(todo'[w])
      OBVIOUS
    <3>3. n \in Nat
      BY <3>2, DomainSets DEF TypeOK
    <3>4. PICK a : a = Len(Order) - feed'[w]
      OBVIOUS
    <3>5. SessionSteps \in Nat /\ a \in Nat
      BY <1>1, <3>1, <3>4, TodoFacts, OrderFacts
    <3>6. PICK p : p = a * SessionSteps
      OBVIOUS
    <3>7. p \in Nat
      BY <3>5, <3>6, Feeds
    <3> QED
      BY <3>1, <3>2, <3>3, <3>4, <3>5, <3>6, <3>7 DEF Left, SessionSteps
  <2> QED
    BY <1>1, <1>2, <2>1
<1>3. CASE UNCHANGED vars
  BY <1>2, <1>3, SameLeft DEF vars, session
<1>4. ASSUME NEW v \in Workers, Step(v) PROVE FALSE
  BY <1>2, <1>4, StepShrinks
<1>5. ASSUME NEW v \in Workers, FeedFails(v) PROVE FALSE
  BY <1>1, <1>2, <1>5, NextFeedShrinks DEF FeedFails
<1>6. ASSUME NEW v \in Workers, Start(v), v # w PROVE FALSE
  <2>1. at'[w] = at[w] /\ feed'[w] = feed[w] /\ todo'[w] = todo[w]
    BY <1>1, <1>6 DEF Start, Go, TypeOK, session
  <2> QED
    BY <1>2, <2>1, SameLeft
<1> QED
  BY <1>3, <1>4, <1>5, <1>6 DEF Next

\* Every sync ends unless it crashes, however the rows of the others get in its way:
\* what it has left to do is a number that every one of its steps makes smaller.
THEOREM SyncsEnd == Spec => SyncsShrink
<1>1. IInv /\ IInv' /\ [Next]_vars => [\A w \in Workers :
          /\ Step(w) => Left(w)' < Left(w)
          /\ Left(w)' > Left(w) => Start(w) \/ \E v \in Workers : Crash(v)]_vars
  BY StepShrinks, LeftGrows DEF IInv
<1> QED
  BY <1>1, Invariant, PTL DEF Spec, SyncsShrink
-----------------------------------------------------------------------------
(* Some sync can always go on.                                             *)

\* Sets of domains have minimal ones among them.
LEMMA Minimal ==
    ASSUME NEW D, D \subseteq SUBSET Domains, D # {}
    PROVE  \E X \in D : \A Y \in D : Y \subseteq X => Y = X
<1>1. IsFiniteSet(Domains)
  BY FeedSyncAssumption
<1>2. FiniteSubsetsOf(Domains) = SUBSET Domains
  BY <1>1, FS_FiniteSubsetsOfFinite
<1>3. IsWellFoundedOn(StrictSubsetOrdering(Domains), SUBSET Domains)
  BY <1>2, FS_StrictSubsetOrderingWellFounded
<1>4. PICK X \in D : \A Y \in D : <<Y, X>> \notin StrictSubsetOrdering(Domains)
  BY <1>3, WFMin
<1>5. ASSUME NEW Y \in D, Y \subseteq X PROVE Y = X
  BY <1>4, <1>5 DEF StrictSubsetOrdering
<1> QED
  BY <1>5

\* Where all wait for one another there is a deadlock, which PostgreSQL finds: of the
\* sets of waiting syncs closed under waiting, one whose domains are fewest is a cycle.
LEMMA CycleFound ==
    ASSUME IInv, NEW S \in SUBSET Workers, S # {},
           \A v \in S : at[v] = "flush" /\ Blocked(v),
           \A v \in S, u \in Workers : Waits(v, u) => u \in S
    PROVE  \E v \in S : Deadlocked(v)
<1> DEFINE Closed(T) == T # {} /\ \A v \in T : \E u \in T : Waits(v, u)
           Wanted(T) == {cur[v] : v \in T}
           Groups == {G \in SUBSET S : Closed(G)}
           D == {Wanted(T) : T \in Groups}
<1>1. TypeOK /\ KeysUnique /\ Sessions
  BY DEF IInv
<1>2. \A v \in S : cur[v] \in Domains
  BY <1>1 DEF TypeOK
<1>3. Closed(S)
  BY DEF Blocked
<1>4. D \subseteq SUBSET Domains /\ D # {}
  <2>1. \A T \in SUBSET S : Wanted(T) \in SUBSET Domains
    BY <1>2
  <2>2. S \in Groups
    BY <1>3
  <2> QED
    BY <2>1, <2>2
<1>5. PICK X \in D : \A Y \in D : Y \subseteq X => Y = X
  <2> HIDE DEF D
  <2> QED
    BY <1>4, Minimal
<1>6. PICK T \in SUBSET S : Closed(T) /\ X = Wanted(T)
  BY <1>5
<1> DEFINE U == {v \in T : \E u \in T : Waits(u, v)}
<1>7. ASSUME NEW v \in T, NEW u \in Workers, NEW t \in Workers, Waits(v, u), Waits(v, t)
      PROVE  u = t
  BY <1>1, <1>7 DEF KeysUnique, Waits
<1>8. Closed(U)
  <2>1. U # {}
    BY <1>6
  <2>2. ASSUME NEW v \in U PROVE \E u \in U : Waits(v, u)
    BY <1>6, <2>2
  <2> QED
    BY <2>1, <2>2
<1>9. Wanted(U) = Wanted(T)
  <2>1. U \in SUBSET S /\ Wanted(U) \subseteq Wanted(T)
    BY <1>6
  <2>2. Wanted(U) \in D
    BY <1>8, <2>1
  <2> QED
    BY <1>5, <1>6, <2>1, <2>2
<1>10. ASSUME NEW v \in U PROVE \E u \in U : Waits(u, v)
  <2>1. PICK t \in T : Waits(t, v)
    BY <1>10
  <2>2. PICK u \in U : cur[u] = cur[t]
    <3>1. cur[t] \in Wanted(U)
      BY <1>9
    <3> QED
      BY <3>1
  <2>3. at[u] = "flush" /\ cur[u] \in held[v]
    BY <1>6, <2>1, <2>2 DEF Waits
  <2>4. u # v
    BY <1>1, <2>3 DEF Sessions, Current
  <2> QED
    BY <2>3, <2>4 DEF Waits
<1>11. PICK v : v \in U
  BY <1>8
<1>12. U \in SUBSET Workers /\ \A u \in U : (\E t \in U : Waits(u, t)) /\ (\E t \in U : Waits(t, u))
  BY <1>6, <1>8, <1>10
<1>13. Deadlocked(v)
  <2> HIDE DEF U
  <2> QED
    BY <1>11, <1>12 DEF Deadlocked
<1> QED
  BY <1>6, <1>11, <1>13

\* Running syncs are never all stuck, however many there are and whatever they hold:
\* one of those that a sync waits for can go on or is the victim of a deadlock.
THEOREM SomeoneGoesOn == Spec => []NobodyStuck
<1>1. IInv => NobodyStuck
  <2> SUFFICES ASSUME IInv, NEW S \in SUBSET Workers, NEW w \in S, at[w] # "idle",
                      \A v \in S, u \in Workers : Waits(v, u) => u \in S,
                      \A v \in S : ~Ready(v)
               PROVE  FALSE
    BY DEF NobodyStuck
  <2>1. PICK T : T = {v \in S : at[v] # "idle"}
    OBVIOUS
  <2>2. ASSUME NEW v \in T PROVE at[v] = "flush" /\ Blocked(v) /\ ~Deadlocked(v)
    <3>1. at[v] \in {"fetch", "pick", "flush"}
      BY <2>1 DEF IInv, TypeOK
    <3> QED
      BY <2>1, <3>1 DEF Ready
  <2>3. ASSUME NEW v \in T, NEW u \in Workers, Waits(v, u) PROVE u \in T
    <3>1. u \in S /\ held[u] # {}
      BY <2>1, <2>3 DEF Waits
    <3> QED
      BY <2>1, <3>1 DEF IInv, Sessions
  <2> QED
    BY <2>1, <2>2, <2>3, CycleFound
<1> QED
  BY <1>1, Invariant, PTL

\* Only conflicts make a second sync of a feed necessary.
THEOREM CleanSyncs == Spec => CleanSyncCompletes
<1>1. IInv => [\A w \in Workers : Commit(w) /\ dropped[w] = {} =>
                   \A d \in Offers[Type(w)] \ Trusted : threats'[d] # None]_vars
  <2> SUFFICES ASSUME IInv, NEW w \in Workers, Commit(w), dropped[w] = {},
                      NEW d \in Offers[Type(w)] \ Trusted
               PROVE  threats'[d] # None
    OBVIOUS
  <2>1. at[w] = "pick" /\ todo[w] = {} /\ threats' = Committed(w)
    BY DEF Commit
  <2>2. d \in Domains /\ Type(w) # None
    BY TypeFacts DEF IInv
  <2>3. threats[d] # None \/ d \in held[w]
    BY <2>1 DEF IInv, OnlyConflictsDrop, Current
  <2> QED
    BY <2>1, <2>2, <2>3 DEF Committed
<1> QED
  BY <1>1, Invariant, PTL DEF CleanSyncCompletes
=============================================================================

--------------------------- MODULE LogReads_proof ---------------------------
(***************************************************************************)
(* Proofs about LogReads, for all rows, limits and resolutions of time,    *)
(* and batches committed in any order: what a client that goes on from the *)
(* last time it saw can miss, what it gets twice, and that its indicators  *)
(* are the newest; what turning the pages can leave out; and how the       *)
(* figures of one response agree.                                          *)
(***************************************************************************)
EXTENDS LogReads, TLAPS, FiniteSetTheorems, SequenceTheorems

-----------------------------------------------------------------------------
(* Times, sightings and pages.                                             *)

\* Cutting a time to its second.
LEMMA StampFacts ==
    ASSUME NEW t \in Nat, NEW u \in Nat
    PROVE  /\ Stamp(t) \in Nat /\ Stamp(t) <= t
           /\ t <= u => Stamp(t) <= Stamp(u)
           /\ t >= Ticks => Stamp(t) > 0
           /\ Stamp(Stamp(t)) = Stamp(t)
<1>1. Ticks \in Nat \ {0}
  BY LogReadsAssumption
<1>2. PICK a \in Nat : a = t \div Ticks /\ a * Ticks <= t /\ t < (a + 1) * Ticks
  BY <1>1
<1>3. PICK b \in Nat : b = u \div Ticks /\ b * Ticks <= u /\ u < (b + 1) * Ticks
  BY <1>1
<1>4. t <= u => a <= b
  <2> SUFFICES ASSUME t <= u, b + 1 <= a PROVE FALSE
    OBVIOUS
  <2>1. (b + 1) * Ticks <= a * Ticks
    BY <1>1
  <2> QED
    BY <1>1, <1>2, <1>3, <2>1
<1>5. a <= b => a * Ticks <= b * Ticks
  BY <1>1
<1>6. (a * Ticks) \div Ticks = a
  BY <1>1
<1>7. t >= Ticks => a > 0
  BY <1>1, <1>2
<1>8. a > 0 => a * Ticks > 0
  BY <1>1
<1> QED
  BY <1>1, <1>2, <1>3, <1>4, <1>5, <1>6, <1>7, <1>8 DEF Stamp

LEMMA RowFacts ==
    ASSUME NEW r \in Rows
    PROVE  /\ r.time \in Nat /\ r.time >= Ticks /\ r.level \in Levels
           /\ Sighting(r).time = r.time /\ Sighting(r).domain = r.domain
           /\ Stamp(r.time) \in Nat /\ Stamp(r.time) > 0
BY LogReadsAssumption, StampFacts DEF Sighting

\* A sighting is that of a threat in the table.
LEMMA ReceivedFacts ==
    ASSUME TypeOK, NEW q \in received
    PROVE  \E r \in table : /\ r \in Rows /\ IsThreat(r) /\ q = Sighting(r)
                            /\ q.time = r.time /\ q.domain = r.domain /\ q.time \in Nat
BY RowFacts DEF TypeOK

LEMMA Pages ==
    ASSUME NEW S \in SUBSET Rows, NEW n \in Nat, NEW P \in Newest(S, n)
    PROVE  /\ P \subseteq S /\ P \subseteq Rows /\ IsFiniteSet(P)
           /\ \A p \in P, q \in S \ P : p.time >= q.time
           /\ P # S => Cardinality(P) = n
<1>1. IsFiniteSet(S) /\ P \subseteq S /\ IsFiniteSet(P)
  BY LogReadsAssumption, FS_Subset DEF Newest
<1>2. ASSUME P # S PROVE Cardinality(P) = n
  <2>1. PICK x \in S : x \notin P
    BY <1>1, <1>2
  <2>2. Cardinality(P) <= Cardinality(S) - 1 /\ Cardinality(S) \in Nat /\ Cardinality(P) \in Nat
    <3>1. P \subseteq S \ {x} /\ IsFiniteSet(S \ {x}) /\ Cardinality(S \ {x}) = Cardinality(S) - 1
      BY <1>1, <2>1, FS_RemoveElement
    <3> QED
      BY <1>1, <3>1, FS_Subset, FS_CardinalityType
  <2> QED
    BY <2>2 DEF Newest
<1> QED
  BY <1>1, <1>2 DEF Newest

LEMMA Counts ==
    ASSUME NEW S \in SUBSET Rows
    PROVE  IsFiniteSet(S) /\ Cardinality(S) \in Nat
BY LogReadsAssumption, FS_Subset, FS_CardinalityType

-----------------------------------------------------------------------------
(* The initial states.                                                     *)

LEMMA InitInvariant == Init => IInv
<1> SUFFICES ASSUME Init PROVE IInv
  OBVIOUS
<1>1. TypeOK
  <2>1. counted \in Seq(SUBSET Rows)
    BY EmptySeq DEF Init
  <2>2. DOMAIN indicators = {}
    BY EmptySeq DEF Init
  <2> QED
    BY <2>1, <2>2 DEF Init, TypeOK, Levels
<1>2. DOMAIN indicators = {}
  BY EmptySeq DEF Init
<1> QED
  BY <1>1, <1>2 DEF Init, IInv, BehindExcused, CursorIsLastSecond, SkipsExplained, IndicatorIsNewest

-----------------------------------------------------------------------------
(* A poll: P is the page, best the rows that make the indicators.          *)

Polls(P, best) ==
    LET domains == {r.domain : r \in P}
        missing == {r \in Fresh : ~Received(r)}
    IN  /\ P \in Newest(Fresh, Limit)
        /\ received' = received \cup {Sighting(r) : r \in P}
        /\ best \in [domains -> P] /\ \A d \in domains : best[d] \in NewestOf(P, d)
        /\ indicators' = [d \in domains \cup DOMAIN indicators |->
                            IF d \in domains THEN Indicator(best[d]) ELSE indicators[d]]
        /\ cursor' \in Onward(P)
        /\ excused' = excused \cup (IF Cardinality(missing) > Limit THEN missing \ P ELSE {})
        /\ polled' = table
        /\ UNCHANGED <<reader, table, pager, drift, counted>>

LEMMA PollParts ==
    ASSUME Poll
    PROVE  \E P, best : Polls(P, best)
BY DEF Poll, Polls

LEMMA PageFacts ==
    ASSUME TypeOK, NEW P, NEW best, Polls(P, best)
    PROVE  /\ Fresh \subseteq Rows /\ P \subseteq Fresh /\ P \subseteq table /\ P \subseteq Rows
           /\ IsFiniteSet(P)
           /\ \A p \in P, q \in Fresh \ P : p.time >= q.time
           /\ P # Fresh => Cardinality(P) = Limit
<1>1. Fresh \in SUBSET Rows /\ Limit \in Nat /\ Fresh \subseteq table
  BY LogReadsAssumption DEF Fresh, TypeOK
<1> QED
  BY <1>1, Pages DEF Polls

\* Nothing is received while there is no cursor, and a fresh row is after the cursor.
LEMMA CursorFacts ==
    ASSUME TypeOK, CursorIsLastSecond
    PROVE  /\ cursor = 0 => received = {}
           /\ \A r \in Fresh : r.time > cursor
           /\ \A r \in table : IsThreat(r) /\ r \notin Fresh => \E q \in received : q.time >= r.time
<1>1. cursor = 0 => received = {}
  <2> SUFFICES ASSUME cursor = 0, NEW q \in received PROVE FALSE
    OBVIOUS
  <2>1. PICK r \in Rows : q.time = r.time
    BY ReceivedFacts
  <2>2. Stamp(q.time) \in Nat /\ Stamp(q.time) > 0 /\ Stamp(q.time) <= 0
    BY <2>1, RowFacts DEF CursorIsLastSecond
  <2> QED
    BY <2>2
<1>2. ASSUME NEW r \in Fresh PROVE r.time > cursor
  <2>1. r \in Rows /\ r.time \in Nat /\ r.time >= Ticks /\ Ticks \in Nat \ {0}
    BY RowFacts, LogReadsAssumption DEF Fresh, TypeOK
  <2> QED
    BY <2>1 DEF Fresh
<1>3. ASSUME NEW r \in table, IsThreat(r), r \notin Fresh PROVE \E q \in received : q.time >= r.time
  <2>1. cursor # 0 /\ ~(r.time > cursor) /\ cursor \in Nat /\ r.time \in Nat
    BY <1>3, RowFacts DEF Fresh, TypeOK
  <2>2. PICK q \in received : cursor = Stamp(q.time)
    BY <2>1 DEF CursorIsLastSecond
  <2>3. q.time \in Nat
    BY <2>2, ReceivedFacts
  <2>4. cursor <= q.time
    BY <2>2, <2>3, StampFacts
  <2> QED
    BY <2>1, <2>3, <2>4
<1> QED
  BY <1>1, <1>2, <1>3

LEMMA PollType ==
    ASSUME TypeOK, NEW P, NEW best, Polls(P, best)
    PROVE  TypeOK'
<1>1. P \subseteq Fresh /\ P \subseteq table /\ P \subseteq Rows /\ Fresh \subseteq table
  BY PageFacts DEF Fresh
<1>2. \A r \in P : r \in table /\ IsThreat(r) /\ Stamp(r.time) \in Nat /\ r.level \in Levels
  BY <1>1, RowFacts DEF Fresh
<1>3. received' \subseteq {Sighting(r) : r \in {q \in table : IsThreat(q)}}
  BY <1>2 DEF Polls, TypeOK
<1>4. cursor' \in Nat
  BY <1>2 DEF Polls, Onward, TypeOK
<1>5. excused' \subseteq table
  BY <1>1 DEF Polls, TypeOK
<1>6. DOMAIN indicators' \subseteq Domains
  BY <1>1 DEF Polls, TypeOK, Domains
<1>7. ASSUME NEW d \in DOMAIN indicators'
      PROVE  indicators'[d] \in [level : Levels, modified : Nat]
  <2>1. CASE d \in {r.domain : r \in P}
    <3>1. best[d] \in P /\ indicators'[d] = Indicator(best[d])
      BY <2>1 DEF Polls
    <3> QED
      BY <1>2, <3>1 DEF Indicator
  <2>2. CASE d \notin {r.domain : r \in P}
    <3>1. d \in DOMAIN indicators /\ indicators'[d] = indicators[d]
      BY <1>7, <2>2 DEF Polls
    <3> QED
      BY <3>1 DEF TypeOK
  <2> QED
    BY <2>1, <2>2
<1> QED
  BY <1>3, <1>4, <1>5, <1>6, <1>7 DEF Polls, TypeOK, pager

\* The cursor moves to the second of the newest row of the page.
LEMMA PollCursor ==
    ASSUME TypeOK, CursorIsLastSecond, NEW P, NEW best, Polls(P, best)
    PROVE  CursorIsLastSecond'
<1>1. P \subseteq Rows /\ P \subseteq Fresh
  BY PageFacts
<1>2. CASE P = {}
  BY <1>2 DEF Polls, Onward, CursorIsLastSecond, Stamp
<1>3. CASE P # {}
  <2>1. PICK n \in P : (\A q \in P : q.time <= n.time) /\ cursor' = Stamp(n.time)
    BY <1>3 DEF Polls, Onward
  <2>2. n.time \in Nat /\ n.time > cursor /\ cursor \in Nat /\ Stamp(n.time) \in Nat
    BY <1>1, <2>1, RowFacts, CursorFacts DEF TypeOK
  <2>3. ASSUME NEW q \in received' PROVE Stamp(q.time) <= cursor'
    <3>1. CASE q \in received
      <4>1. Stamp(q.time) <= cursor /\ q.time \in Nat
        BY <3>1, ReceivedFacts DEF CursorIsLastSecond
      <4>2. PICK c \in received : cursor = Stamp(c.time)
        BY <3>1, CursorFacts DEF CursorIsLastSecond
      <4>3. c.time \in Nat
        BY <4>2, ReceivedFacts
      <4>4. Stamp(cursor) = cursor /\ Stamp(cursor) <= Stamp(n.time) /\ Stamp(q.time) \in Nat
        BY <2>2, <4>1, <4>2, <4>3, StampFacts
      <4> QED
        BY <2>1, <2>2, <4>1, <4>4
    <3>2. CASE q \notin received
      <4>1. PICK r \in P : q = Sighting(r)
        BY <2>3, <3>2 DEF Polls
      <4>2. q.time = r.time /\ r.time \in Nat /\ r.time <= n.time
        BY <1>1, <2>1, <4>1, RowFacts
      <4> QED
        BY <2>1, <2>2, <4>2, StampFacts
    <3> QED
      BY <3>1, <3>2
  <2>4. Sighting(n) \in received' /\ Sighting(n).time = n.time
    BY <1>1, RowFacts DEF Polls
  <2>5. \E q \in received' : cursor' = Stamp(q.time)
    BY <2>1, <2>4
  <2>6. \A q : Stamp(q)' = Stamp(q)
    BY DEF Stamp
  <2> QED
    BY <2>3, <2>5, <2>6 DEF CursorIsLastSecond, Stamp
<1> QED
  BY <1>2, <1>3

\* What a poll leaves out it has from before, or more than a limit was new, or the
\* row came late.
LEMMA PollSkips ==
    ASSUME TypeOK, CursorIsLastSecond, BehindExcused, SkipsExplained,
           NEW P, NEW best, Polls(P, best)
    PROVE  SkipsExplained' /\ BehindExcused'
<1> DEFINE missing == {r \in Fresh : ~Received(r)}
<1>1. ASSUME NEW r \in table, IsThreat(r), ~Received(r)', r \notin excused' PROVE FALSE
  <2>1. Sighting(r) \notin received /\ r \notin excused /\ r \notin P
    BY <1>1 DEF Polls, Received, Sighting
  <2>2. r \notin polled
    BY <1>1, <2>1 DEF SkipsExplained, Received
  <2>3. \A q \in received : ~(q.time >= r.time)
    BY <1>1, <2>1, <2>2 DEF BehindExcused
  <2>4. r \in Fresh
    BY <1>1, <2>3, CursorFacts
  <2>5. \A p \in P : p.time >= r.time
    BY <2>1, <2>4, PageFacts
  <2>6. P \subseteq missing /\ r \in missing
    <3>1. \A p \in P : Sighting(p) \notin received
      BY <2>3, <2>5, PageFacts, RowFacts
    <3> QED
      BY <2>1, <2>4, <3>1, PageFacts DEF Received
  <2>7. Cardinality(P) = Limit /\ IsFiniteSet(P) /\ Limit \in Nat
    BY <2>1, <2>4, PageFacts, LogReadsAssumption
  <2>8. IsFiniteSet(missing) /\ Cardinality(missing) \in Nat
    BY PageFacts, Counts
  <2>9. Cardinality(P \cup {r}) = Limit + 1 /\ IsFiniteSet(P \cup {r})
    BY <2>1, <2>7, FS_AddElement
  <2>10. Cardinality(missing) >= Limit + 1
    BY <2>6, <2>8, <2>9, FS_Subset
  <2>11. Cardinality(missing) > Limit
    <3> HIDE DEF missing
    <3> QED BY <2>7, <2>8, <2>10
  <2>12. r \in excused'
    BY <2>1, <2>6, <2>11 DEF Polls
  <2> QED
    BY <1>1, <2>12
<1>2. SkipsExplained'
  BY <1>1 DEF SkipsExplained, Polls, IsThreat
<1>3. BehindExcused'
  BY DEF BehindExcused, Polls
<1> QED
  BY <1>2, <1>3

\* The indicators of the page are at least as new as all that was received.
LEMMA PollIndicators ==
    ASSUME TypeOK, CursorIsLastSecond, IndicatorIsNewest, NEW P, NEW best, Polls(P, best)
    PROVE  IndicatorIsNewest'
<1> SUFFICES ASSUME NEW d \in DOMAIN indicators'
             PROVE  \E r \in table : /\ r.domain = d /\ Sighting(r) \in received'
                                     /\ indicators'[d] = Indicator(r)
                                     /\ \A q \in received' : q.domain = d => q.time <= r.time
  BY DEF IndicatorIsNewest, Received, Sighting, Indicator, Stamp, Polls
<1>1. P \subseteq Rows /\ P \subseteq Fresh /\ P \subseteq table
  BY PageFacts
<1>2. CASE d \in {r.domain : r \in P}
  <2>1. /\ best[d] \in P /\ best[d].domain = d /\ indicators'[d] = Indicator(best[d])
        /\ \A q \in P : q.domain = d => q.time <= best[d].time
    BY <1>2 DEF Polls, NewestOf
  <2>2. best[d] \in table /\ best[d].time \in Nat /\ Sighting(best[d]) \in received'
    BY <1>1, <2>1, RowFacts DEF Polls
  <2>3. ASSUME NEW q \in received', q.domain = d PROVE q.time <= best[d].time
    <3>1. CASE q \in received
      <4>1. PICK r \in table : /\ r \in Rows /\ IsThreat(r) /\ q.time = r.time /\ q.domain = r.domain
                               /\ q.time \in Nat
        BY <3>1, ReceivedFacts
      <4>2. CASE r \in P
        BY <2>1, <2>3, <4>1, <4>2
      <4>3. CASE r \in Fresh \ P
        BY <2>1, <2>2, <4>1, <4>3, PageFacts
      <4>4. CASE r \notin Fresh
        <5>1. cursor # 0 /\ ~(r.time > cursor)
          BY <4>1, <4>4 DEF Fresh
        <5>2. best[d].time > cursor /\ cursor \in Nat
          BY <1>1, <2>1, CursorFacts DEF TypeOK
        <5> QED
          BY <2>2, <4>1, <5>1, <5>2
      <4> QED
        BY <4>2, <4>3, <4>4
    <3>2. CASE q \notin received
      <4>1. PICK r \in P : q = Sighting(r)
        BY <2>3, <3>2 DEF Polls
      <4> QED
        BY <1>1, <2>1, <2>3, <4>1, RowFacts
    <3> QED
      BY <3>1, <3>2
  <2> QED
    BY <2>1, <2>2, <2>3
<1>3. CASE d \notin {r.domain : r \in P}
  <2>1. d \in DOMAIN indicators /\ indicators'[d] = indicators[d]
    BY <1>3 DEF Polls
  <2>2. PICK r \in table : /\ r.domain = d /\ Sighting(r) \in received /\ indicators[d] = Indicator(r)
                           /\ \A q \in received : q.domain = d => q.time <= r.time
    BY <2>1 DEF IndicatorIsNewest, Received
  <2>3. ASSUME NEW q \in received', q.domain = d PROVE q \in received
    <3> SUFFICES ASSUME NEW p \in P, q = Sighting(p) PROVE FALSE
      BY <2>3 DEF Polls
    <3> QED
      BY <1>1, <1>3, <2>3, RowFacts
  <2> QED
    BY <2>1, <2>2, <2>3 DEF Polls
<1> QED
  BY <1>2, <1>3

-----------------------------------------------------------------------------
(* The other steps.                                                        *)

LEMMA CommitStep ==
    ASSUME IInv, Commit
    PROVE  IInv'
<1>1. PICK batch \in SUBSET (Rows \ table) :
        /\ table' = table \cup batch
        /\ excused' = excused \cup {r \in batch : \E q \in received : q.time >= r.time}
        /\ drift' = IF at = "counted" THEN drift + Cardinality(batch) ELSE drift
        /\ UNCHANGED <<reader, taxii, pager, counted>>
  BY DEF Commit
<1>2. drift' \in Nat
  <2>1. Cardinality(batch) \in Nat
    BY Counts
  <2> QED
    BY <1>1, <2>1 DEF IInv, TypeOK
<1>3. received' \subseteq {Sighting(r) : r \in {q \in table' : IsThreat(q)}}
  BY <1>1 DEF IInv, TypeOK, taxii
<1>4. TypeOK'
  BY <1>1, <1>2, <1>3 DEF IInv, TypeOK, taxii, pager, Domains, IsThreat, Sighting, Levels
<1>5. BehindExcused'
  BY <1>1 DEF IInv, BehindExcused, taxii
<1>6. CursorIsLastSecond'
  BY <1>1 DEF IInv, CursorIsLastSecond, taxii, Stamp
<1>7. SkipsExplained'
  BY <1>1 DEF IInv, SkipsExplained, taxii, Received, Sighting, IsThreat
<1>8. IndicatorIsNewest'
  <2>1. indicators' = indicators /\ received' = received /\ table \subseteq table'
    BY <1>1 DEF taxii
  <2> QED
    BY <2>1 DEF IInv, IndicatorIsNewest, Received, Sighting, Indicator, Stamp
<1> QED
  BY <1>4, <1>5, <1>6, <1>7, <1>8 DEF IInv

\* A step that leaves the feed alone.
LEMMA FeedAlone ==
    ASSUME IInv, TypeOK', UNCHANGED <<table, taxii, excused>>
    PROVE  IInv'
<1>1. BehindExcused' /\ CursorIsLastSecond'
  BY DEF IInv, BehindExcused, CursorIsLastSecond, taxii, Stamp
<1>2. SkipsExplained'
  BY DEF IInv, SkipsExplained, taxii, Received, Sighting, IsThreat
<1>3. IndicatorIsNewest'
  BY DEF IInv, IndicatorIsNewest, taxii, Received, Sighting, Indicator, Stamp
<1> QED
  BY <1>1, <1>2, <1>3 DEF IInv

LEMMA CountType == TypeOK /\ CountRows => TypeOK'
<1> SUFFICES ASSUME TypeOK, CountRows PROVE TypeOK'
  OBVIOUS
<1>1. Asked \in SUBSET Rows /\ Asked \subseteq table
  BY DEF Asked, TypeOK
<1>2. total' \in Nat
  BY <1>1, Counts DEF CountRows
<1> QED
  BY <1>1, <1>2 DEF CountRows, TypeOK, taxii, IsThreat, Sighting

LEMMA PageType == TypeOK /\ ReadPage => TypeOK'
<1> SUFFICES ASSUME TypeOK, ReadPage PROVE TypeOK'
  OBVIOUS
<1>1. PICK before \in Newest(Asked, Offset(page + 1)) :
        \E P \in Newest(Asked \ before, PageSize) : items' = P /\ listed' = listed \cup P
  BY DEF ReadPage
<1>2. items' \subseteq table /\ listed' \subseteq table
  BY <1>1 DEF Newest, Asked, TypeOK
<1> QED
  BY <1>2 DEF ReadPage, TypeOK, taxii, IsThreat, Sighting

LEMMA StatementType == TypeOK /\ NextStatement => TypeOK'
<1> SUFFICES ASSUME TypeOK, NextStatement PROVE TypeOK'
  OBVIOUS
<1>1. PICK statement : counted' = Append(counted, {r \in table : Selects(statement, r)})
  BY DEF NextStatement
<1>2. {r \in table : Selects(statement, r)} \in SUBSET Rows
  BY DEF TypeOK
<1>3. counted' \in Seq(SUBSET Rows)
  BY <1>1, <1>2, AppendProperties DEF TypeOK
<1> QED
  BY <1>3 DEF NextStatement, TypeOK, taxii, pager, IsThreat, Sighting

LEMMA InvariantStep == IInv /\ [Next]_vars => IInv'
<1> SUFFICES ASSUME IInv, [Next]_vars PROVE IInv'
  OBVIOUS
<1>1. CASE Commit
  BY <1>1, CommitStep
<1>2. CASE Poll
  <2>1. PICK P, best : Polls(P, best)
    BY <1>2, PollParts
  <2> QED
    BY <2>1, PollType, PollCursor, PollSkips, PollIndicators DEF IInv
<1>3. CASE CountRows
  BY <1>3, CountType, FeedAlone DEF IInv, CountRows
<1>4. CASE ReadPage
  BY <1>4, PageType, FeedAlone DEF IInv, ReadPage
<1>5. CASE NextStatement
  BY <1>5, StatementType, FeedAlone DEF IInv, NextStatement
<1>6. CASE UNCHANGED vars
  <2>1. TypeOK'
    BY <1>6 DEF IInv, TypeOK, vars, taxii, pager, IsThreat, Sighting
  <2> QED
    BY <1>6, <2>1, FeedAlone DEF vars
<1> QED
  BY <1>1, <1>2, <1>3, <1>4, <1>5, <1>6 DEF Next

-----------------------------------------------------------------------------
(* The listing.                                                            *)

\* The cardinality of a page, and of what is in front of it.
LEMMA PageSizes ==
    ASSUME NEW S \in SUBSET Rows, NEW n \in Nat, NEW P \in Newest(S, n)
    PROVE  /\ Cardinality(P) \in Nat /\ Cardinality(S) \in Nat /\ Cardinality(S \ P) \in Nat
           /\ Cardinality(P) = (IF Cardinality(S) < n THEN Cardinality(S) ELSE n)
           /\ Cardinality(S \ P) = Cardinality(S) - Cardinality(P)
<1>1. P \subseteq S /\ IsFiniteSet(S) /\ IsFiniteSet(P) /\ S \ P \in SUBSET Rows
  BY Pages, Counts
<1>2. S \cap P = P
  BY <1>1
<1>3. Cardinality(S \ P) = Cardinality(S) - Cardinality(P)
  BY <1>1, <1>2, FS_Difference
<1> QED
  BY <1>1, <1>3, Counts, FS_CardinalityType DEF Newest

\* ReadPage: the rows in front of the page, and the page.
Reads(before, P) ==
    /\ before \in Newest(Asked, Offset(page + 1)) /\ P \in Newest(Asked \ before, PageSize)
    /\ items' = P /\ listed' = listed \cup P

LEMMA OffsetFacts ==
    ASSUME NEW n \in Nat
    PROVE  Offset(n + 1) = n * PageSize /\ n * PageSize \in Nat /\ PageSize \in Nat
           /\ (n + 1) * PageSize = n * PageSize + PageSize
<1>1. PageSize \in Nat
  BY LogReadsAssumption
<1>2. (n + 1) - 1 = n
  OBVIOUS
<1> QED
  BY <1>1, <1>2 DEF Offset

\* Where no two rows have one time, the rows neither in front of the page nor on it
\* have all of those in front of them.
LEMMA BehindPage ==
    ASSUME TypeOK, Unique, NEW before, NEW P, Reads(before, P),
           NEW r \in Asked, r \notin before, r \notin P
    PROVE  /\ before \cup P \subseteq Newer(r)
           /\ Cardinality(before \cup P) = (page + 1) * PageSize
<1>1. page \in Nat /\ Asked \in SUBSET Rows /\ Asked \subseteq table
  BY DEF TypeOK, Asked
<1>2. /\ Offset(page + 1) = page * PageSize /\ page * PageSize \in Nat /\ PageSize \in Nat
      /\ (page + 1) * PageSize = page * PageSize + PageSize
  BY <1>1, OffsetFacts
<1>3. /\ before \subseteq Asked /\ IsFiniteSet(before) /\ Cardinality(before) = page * PageSize
      /\ \A b \in before : b.time >= r.time
  BY <1>1, <1>2, Pages DEF Reads
<1>4. /\ P \subseteq Asked \ before /\ IsFiniteSet(P) /\ Cardinality(P) = PageSize
      /\ \A b \in P : b.time >= r.time
  <2>1. Asked \ before \in SUBSET Rows /\ P \in Newest(Asked \ before, PageSize)
    BY <1>1 DEF Reads
  <2>2. P # Asked \ before /\ r \in (Asked \ before) \ P
    OBVIOUS
  <2> QED
    BY <1>2, <2>1, <2>2, Pages
<1>5. ASSUME NEW b \in before \cup P PROVE b \in Newer(r)
  <2>1. b \in Asked /\ b # r /\ b.time >= r.time
    BY <1>3, <1>4
  <2>2. b.time # r.time /\ b.time \in Nat /\ r.time \in Nat
    BY <1>1, <2>1, RowFacts DEF Unique
  <2> QED
    BY <2>1, <2>2 DEF Newer
<1>6. Cardinality(before \cup P) = page * PageSize + PageSize
  <2>1. Cardinality(before \cap P) = 0
    <3>1. before \cap P = {}
      BY <1>4
    <3> QED
      BY <3>1, FS_EmptySet
  <2>2. Cardinality(before \cup P)
          = Cardinality(before) + Cardinality(P) - Cardinality(before \cap P)
    BY <1>3, <1>4, FS_Union
  <2> QED
    BY <1>2, <1>3, <1>4, <2>1, <2>2
<1> QED
  BY <1>2, <1>5, <1>6

\* A row that the pages left out so far is in front of no page to come.
LEMMA NotBefore ==
    ASSUME TypeOK, Listing, Unique, NEW before, NEW P, Reads(before, P), NEW r \in first \ listed
    PROVE  r \in Asked /\ r \notin before
<1>1. page \in Nat /\ Asked \in SUBSET Rows /\ r \in Asked
  BY DEF TypeOK, Asked, Listing
<1>2. Offset(page + 1) = page * PageSize /\ page * PageSize \in Nat
  BY <1>1, OffsetFacts
<1>3. ASSUME r \in before PROVE FALSE
  <2>1. before \in Newest(Asked, Offset(page + 1))
    BY DEF Reads
  <2>2. /\ IsFiniteSet(before) /\ Cardinality(before) \in Nat /\ Cardinality(before) <= page * PageSize
        /\ \A q \in Asked \ before : r.time >= q.time
    <3>1. Offset(page + 1) \in Nat
      BY <1>2
    <3>2. IsFiniteSet(before) /\ \A q \in Asked \ before : r.time >= q.time
      BY <1>1, <1>3, <2>1, <3>1, Pages
    <3>3. /\ Cardinality(before) \in Nat /\ Cardinality(Asked) \in Nat
          /\ Cardinality(before) = (IF Cardinality(Asked) < Offset(page + 1) THEN Cardinality(Asked)
                                    ELSE Offset(page + 1))
      BY <1>1, <2>1, <3>1, PageSizes
    <3> QED
      BY <1>2, <3>2, <3>3
  <2>3. Newer(r) \subseteq before \ {r}
    <3> SUFFICES ASSUME NEW q \in Newer(r) PROVE q \in before \ {r}
      OBVIOUS
    <3>1. q \in Asked /\ q.time > r.time /\ q.time \in Nat /\ r.time \in Nat
      BY <1>1, RowFacts DEF Newer
    <3> QED
      BY <2>2, <3>1
  <2>4. IsFiniteSet(before \ {r}) /\ Cardinality(before \ {r}) = Cardinality(before) - 1
    BY <1>3, <2>2, FS_RemoveElement
  <2>5. Cardinality(Newer(r)) <= Cardinality(before) - 1 /\ Cardinality(Newer(r)) \in Nat
    BY <2>3, <2>4, FS_Subset, FS_CardinalityType
  <2>6. page * PageSize <= Cardinality(Newer(r))
    BY DEF Listing
  <2> QED
    BY <1>2, <2>2, <2>5, <2>6
<1> QED
  BY <1>1, <1>3

LEMMA ReadPageListing ==
    ASSUME TypeOK, Listing, ReadPage
    PROVE  Listing'
<1>1. PICK before, P : Reads(before, P)
  BY DEF ReadPage, Reads
<1>2. /\ at = "counted" /\ page' = page + 1 /\ items' = P /\ listed' = listed \cup P
      /\ at' = IF (page + 1) * PageSize < total THEN "next" ELSE "done"
      /\ UNCHANGED <<table, level, total, first, drift>>
  BY <1>1 DEF ReadPage, Reads
<1>3. page \in Nat /\ total \in Nat /\ drift \in Nat /\ Asked \in SUBSET Rows
  BY DEF TypeOK, Asked
<1>4. /\ Offset(page + 1) = page * PageSize /\ page * PageSize \in Nat /\ PageSize \in Nat
      /\ (page + 1) * PageSize = page * PageSize + PageSize
  BY <1>3, OffsetFacts
<1>5. Asked' = Asked /\ (Unique <=> Unique') /\ \A r : Newer(r)' = Newer(r)
  BY <1>2 DEF Asked, Unique, Newer
<1>6. total <= Cardinality(Asked) /\ Cardinality(Asked) <= total + drift /\ first \subseteq Asked
  BY <1>2 DEF Listing
<1>7. PageIsFull'
  <2>1. Asked \ before \in SUBSET Rows
    BY <1>3
  <2> PICK A, B, R, I, O : /\ A = Cardinality(Asked) /\ B = Cardinality(before)
                           /\ R = Cardinality(Asked \ before) /\ I = Cardinality(P)
                           /\ O = page * PageSize
    OBVIOUS
  <2>2. /\ A \in Nat /\ B \in Nat /\ R \in Nat /\ I \in Nat /\ O \in Nat /\ R = A - B
        /\ B = (IF A < O THEN A ELSE O)
    <3>1. before \in Newest(Asked, O) /\ O \in Nat
      BY <1>1, <1>4 DEF Reads
    <3>2. /\ Cardinality(before) \in Nat /\ Cardinality(Asked) \in Nat
          /\ Cardinality(Asked \ before) \in Nat
          /\ Cardinality(before) = (IF Cardinality(Asked) < O THEN Cardinality(Asked) ELSE O)
          /\ Cardinality(Asked \ before) = Cardinality(Asked) - Cardinality(before)
      BY <1>3, <3>1, PageSizes
    <3>3. I \in Nat
      <4>1. P \in SUBSET Rows
        BY <1>1, <2>1 DEF Reads, Newest
      <4> QED
        BY <4>1, Counts
    <3> QED
      BY <3>1, <3>2, <3>3
  <2>3. I = (IF R < PageSize THEN R ELSE PageSize) /\ I \in Nat
    BY <1>1, <1>4, <2>1, PageSizes DEF Reads
  <2>4. I = PageSize \/ I >= total - O
    BY <1>3, <1>4, <1>6, <2>2, <2>3
  <2>5. Offset(page') = O /\ total' = total /\ Cardinality(items') = I /\ PageSize \in Nat
    BY <1>2, <1>4
  <2>6. Offset(page)' = Offset(page')
    BY DEF Offset
  <2> QED
    BY <2>4, <2>5, <2>6 DEF PageIsFull
<1>8. ASSUME Unique, NEW r \in first' \ listed'
      PROVE  /\ r \in Asked /\ r \notin before /\ r \notin P
             /\ page' * PageSize <= Cardinality(Newer(r)')
  <2>1. r \in first \ listed /\ r \notin P
    BY <1>2, <1>8
  <2>2. r \in Asked /\ r \notin before
    BY <1>1, <1>8, <2>1, NotBefore
  <2>3. before \cup P \subseteq Newer(r) /\ Cardinality(before \cup P) = (page + 1) * PageSize
    BY <1>1, <1>8, <2>1, <2>2, BehindPage
  <2>4. IsFiniteSet(Newer(r))
    BY <1>3, Counts DEF Newer
  <2>5. Cardinality(before \cup P) <= Cardinality(Newer(r))
    BY <2>3, <2>4, FS_Subset
  <2> QED
    BY <1>2, <1>5, <2>1, <2>2, <2>3, <2>5
<1>9. ListingComplete'
  <2> SUFFICES ASSUME at' = "done", Unique PROVE Cardinality(first' \ listed') <= drift'
    BY <1>5 DEF ListingComplete, Unique
  <2>1. CASE first' \ listed' = {}
    BY <1>2, <1>3, <2>1, FS_EmptySet
  <2>2. CASE first' \ listed' # {}
    <3>1. PICK r \in first' \ listed' : r \in Asked /\ r \notin before /\ r \notin P
      BY <1>8, <2>2
    <3>2. Cardinality(before \cup P) = (page + 1) * PageSize
      BY <1>1, <3>1, BehindPage
    <3>3. first' \ listed' \subseteq Asked \ (before \cup P)
      BY <1>8
    <3>4. before \cup P \subseteq Asked
      BY <1>1 DEF Reads, Newest
    <3>5. IsFiniteSet(Asked) /\ Asked \cap (before \cup P) = before \cup P
      BY <1>3, <3>4, Counts
    <3>6. /\ IsFiniteSet(Asked \ (before \cup P))
          /\ Cardinality(Asked \ (before \cup P)) = Cardinality(Asked) - (page + 1) * PageSize
      <4>1. Cardinality(Asked \cap (before \cup P)) = (page + 1) * PageSize
        BY <3>2, <3>5
      <4>2. PICK F : F = before \cup P
        OBVIOUS
      <4>3. /\ IsFiniteSet(Asked \ F)
            /\ Cardinality(Asked \ F) = Cardinality(Asked) - Cardinality(Asked \cap F)
        BY <3>5, FS_Difference
      <4> QED
        BY <4>1, <4>2, <4>3
    <3>7. Cardinality(first' \ listed') <= Cardinality(Asked) - (page + 1) * PageSize
      BY <3>3, <3>6, FS_Subset
    <3>8. ~((page + 1) * PageSize < total) /\ (page + 1) * PageSize \in Nat
      BY <1>2, <1>4
    <3>9. Cardinality(first' \ listed') \in Nat /\ Cardinality(Asked) \in Nat
      BY <1>3, <3>3, Counts
    <3> QED
      BY <1>2, <1>3, <1>6, <3>7, <3>8, <3>9
  <2> QED
    BY <2>1, <2>2
<1>10. first' \subseteq Asked' /\ at' # "counted"
  BY <1>2, <1>5, <1>6
<1> QED
  BY <1>5, <1>7, <1>8, <1>9, <1>10 DEF Listing, ListingSound

LEMMA CountRowsListing ==
    ASSUME TypeOK, Listing, CountRows
    PROVE  Listing'
<1>1. /\ at = "next" /\ at' = "counted" /\ drift' = 0 /\ total' = Cardinality(Asked)
      /\ first' = (IF page = 0 THEN Asked ELSE first)
      /\ UNCHANGED <<table, level, page, listed>>
  BY DEF CountRows
<1>2. Asked' = Asked /\ (Unique <=> Unique') /\ \A r : Newer(r)' = Newer(r)
  BY <1>1 DEF Asked, Unique, Newer
<1>3. Cardinality(Asked) \in Nat /\ \A r : Cardinality(Newer(r)) \in Nat
  BY Counts DEF TypeOK, Asked, Newer
<1>4. page = 0 => page * PageSize = 0
  BY LogReadsAssumption
<1>5. Unique => \A r \in first' \ listed' : page' * PageSize <= Cardinality(Newer(r)')
  <2>1. CASE page = 0
    BY <1>1, <1>2, <1>3, <1>4, <2>1
  <2>2. CASE page # 0
    BY <1>1, <1>2, <2>2 DEF Listing
  <2> QED
    BY <2>1, <2>2
<1>6. first' \subseteq Asked'
  BY <1>1, <1>2 DEF Listing
<1>7. ListingSound'
  BY <1>1 DEF ListingSound, PageIsFull, ListingComplete
<1> QED
  BY <1>1, <1>2, <1>3, <1>5, <1>6, <1>7 DEF Listing

LEMMA CommitListing ==
    ASSUME TypeOK, Listing, Commit
    PROVE  Listing'
<1>1. PICK batch \in SUBSET (Rows \ table) :
        /\ table' = table \cup batch
        /\ drift' = (IF at = "counted" THEN drift + Cardinality(batch) ELSE drift)
        /\ UNCHANGED <<at, level, page, total, items, listed, first>>
  BY DEF Commit, pager
<1>2. /\ Asked \in SUBSET Rows /\ Asked' \in SUBSET Rows /\ batch \in SUBSET Rows
      /\ Asked \subseteq Asked' /\ Asked' \subseteq Asked \cup batch
  BY <1>1 DEF TypeOK, Asked
<1>3. /\ IsFiniteSet(Asked) /\ IsFiniteSet(Asked') /\ IsFiniteSet(batch)
      /\ Cardinality(Asked) \in Nat /\ Cardinality(Asked') \in Nat /\ Cardinality(batch) \in Nat
      /\ Cardinality(Asked) <= Cardinality(Asked')
  BY <1>2, Counts, FS_Subset
<1>4. Cardinality(Asked') <= Cardinality(Asked) + Cardinality(batch)
  <2>1. /\ IsFiniteSet(Asked \cup batch) /\ Cardinality(Asked \cap batch) \in Nat
        /\ Cardinality(Asked \cup batch)
             = Cardinality(Asked) + Cardinality(batch) - Cardinality(Asked \cap batch)
    <3>1. Asked \cap batch \in SUBSET Rows
      BY <1>2
    <3> QED
      BY <1>3, <3>1, Counts, FS_Union
  <2>2. Cardinality(Asked') <= Cardinality(Asked \cup batch)
    BY <1>2, <2>1, FS_Subset
  <2> QED
    BY <1>3, <2>1, <2>2
<1>5. first' \subseteq Asked'
  BY <1>1, <1>2 DEF Listing
<1>6. at' = "counted" => total' <= Cardinality(Asked') /\ Cardinality(Asked') <= total' + drift'
  <2> SUFFICES ASSUME at = "counted"
               PROVE  total <= Cardinality(Asked') /\ Cardinality(Asked') <= total + drift'
    BY <1>1
  <2>1. total <= Cardinality(Asked) /\ Cardinality(Asked) <= total + drift
    BY DEF Listing
  <2>2. total \in Nat /\ drift \in Nat /\ drift' = drift + Cardinality(batch)
    BY <1>1 DEF TypeOK
  <2> QED
    BY <1>3, <1>4, <2>1, <2>2
<1>7. Unique' => Unique
  BY <1>1 DEF Unique
<1>8. ASSUME Unique', NEW r \in first' \ listed'
      PROVE  page' * PageSize <= Cardinality(Newer(r)')
  <2>1. Newer(r) \subseteq Newer(r)' /\ Newer(r)' \in SUBSET Rows
    BY <1>2 DEF Newer
  <2>2. /\ Cardinality(Newer(r)) <= Cardinality(Newer(r)')
        /\ Cardinality(Newer(r)) \in Nat /\ Cardinality(Newer(r)') \in Nat
    <3>1. Newer(r) \in SUBSET Rows
      BY <2>1
    <3> QED
      BY <2>1, <3>1, Counts, FS_Subset
  <2>3. page * PageSize <= Cardinality(Newer(r)) /\ page * PageSize \in Nat
    BY <1>1, <1>7, <1>8, OffsetFacts DEF Listing, TypeOK
  <2> QED
    BY <1>1, <2>2, <2>3
<1>9. PageIsFull'
  <2>1. Offset(page)' = Offset(page)
    BY <1>1 DEF Offset
  <2> QED
    BY <1>1, <2>1 DEF PageIsFull, Listing, ListingSound
<1>10. ListingComplete'
  BY <1>1, <1>7 DEF ListingComplete, Listing, ListingSound, Unique
<1> QED
  BY <1>5, <1>6, <1>8, <1>9, <1>10 DEF Listing, ListingSound

LEMMA ListingStep == TypeOK /\ Listing /\ [Next]_vars => Listing'
<1> SUFFICES ASSUME TypeOK, Listing, [Next]_vars PROVE Listing'
  OBVIOUS
<1>1. CASE UNCHANGED <<table, pager, drift>>
  <2>1. Offset(page)' = Offset(page)
    BY <1>1 DEF Offset, pager
  <2>2. ListingSound'
    BY <1>1, <2>1 DEF Listing, ListingSound, PageIsFull, ListingComplete, pager
  <2> QED
    BY <1>1, <2>2 DEF Listing, Unique, Newer, Asked, pager
<1>2. CASE Poll \/ NextStatement \/ UNCHANGED vars
  <2>1. UNCHANGED <<table, pager, drift>>
    BY <1>2 DEF Poll, NextStatement, vars
  <2> QED
    BY <1>1, <2>1
<1> QED
  BY <1>2, CommitListing, CountRowsListing, ReadPageListing DEF Next

LEMMA InitListing == Init => Listing
<1> SUFFICES ASSUME Init PROVE Listing
  OBVIOUS
<1> QED
  BY DEF Init, Listing, ListingSound, PageIsFull, ListingComplete

-----------------------------------------------------------------------------
(* The statistics.                                                         *)

LEMMA StatementFacts ==
    /\ DOMAIN Statements = {"threat-summary", "stats"}
    /\ Len(Statements["stats"]) = 6 /\ Len(Statements["threat-summary"]) = 5
    /\ Statements["stats"][1] = "total" /\ Statements["stats"][2] = "day"
    /\ Statements["stats"][3] = "level" /\ Statements["stats"][5] = "malicious"
    /\ Statements["stats"][6] = "queried"
    /\ Statements["threat-summary"][1] = "total" /\ Statements["threat-summary"][2] = "malicious"
    /\ Statements["threat-summary"][3] = "suspicious" /\ Statements["threat-summary"][4] = "ips"
    /\ Statements["threat-summary"][5] = "domains"
BY DEF Statements

LEMMA NextStatementFigures ==
    ASSUME TypeOK, Figures, NextStatement
    PROVE  Figures'
<1> DEFINE n == Len(counted) + 1
           st == Statements[reader]
           new == {r \in table : Selects(st[n], r)}
<1>1. /\ reader \in DOMAIN Statements /\ Len(counted) < Len(st)
      /\ counted' = Append(counted, new) /\ reader' = reader /\ table' = table
  BY DEF NextStatement
<1>2. counted \in Seq(SUBSET Rows) /\ new \in SUBSET Rows /\ Len(st) \in Nat
  BY <1>1, StatementFacts DEF TypeOK
<1>3. /\ Len(counted) \in Nat /\ DOMAIN counted = 1..Len(counted)
      /\ DOMAIN counted' = 1..n /\ Len(counted') = n /\ counted'[n] = new
      /\ \A i \in DOMAIN counted : counted'[i] = counted[i]
  <2> HIDE DEF new
  <2> QED BY <1>1, <1>2, LenProperties, AppendProperties
<1>4. Statements' = Statements
  BY DEF Statements
<1>5. ASSUME NEW i \in DOMAIN counted'
      PROVE  counted'[i] \subseteq table /\ \A r \in counted'[i] : Selects(st[i], r)
  <2>1. CASE i = n
    BY <1>3, <2>1
  <2>2. CASE i # n
    <3>1. i \in DOMAIN counted /\ counted'[i] = counted[i]
      BY <1>3, <1>5, <2>2
    <3> QED
      BY <3>1 DEF Figures
  <2> QED
    BY <2>1, <2>2
<1>6. ASSUME NEW i \in DOMAIN counted', NEW j \in DOMAIN counted', NEW r \in counted'[i],
             i < j, Selects(st[j], r)
      PROVE  r \in counted'[j]
  <2>1. i \in DOMAIN counted /\ counted'[i] = counted[i]
    BY <1>3, <1>6
  <2>2. CASE j = n
    BY <1>3, <1>5, <1>6, <2>2
  <2>3. CASE j # n
    <3>1. j \in DOMAIN counted /\ counted'[j] = counted[j]
      BY <1>3, <1>6, <2>3
    <3> QED
      BY <1>6, <2>1, <3>1 DEF Figures
  <2> QED
    BY <2>2, <2>3
<1>7. Len(counted') <= Len(st)
  BY <1>1, <1>2, <1>3
<1>8. \A s, r : Selects(s, r)' <=> Selects(s, r)
  BY DEF Selects, IsThreat
<1> QED
  BY <1>1, <1>4, <1>5, <1>6, <1>7 DEF Figures, Selects, IsThreat

LEMMA FiguresStep == TypeOK /\ Figures /\ [Next]_vars => Figures'
<1> SUFFICES ASSUME TypeOK, Figures, [Next]_vars PROVE Figures'
  OBVIOUS
<1>1. CASE table \subseteq table' /\ UNCHANGED <<reader, counted>>
  BY <1>1 DEF Figures, Statements, Selects, IsThreat
<1>2. CASE Commit \/ Poll \/ CountRows \/ ReadPage \/ UNCHANGED vars
  <2>1. table \subseteq table' /\ UNCHANGED <<reader, counted>>
    BY <1>2 DEF Commit, Poll, CountRows, ReadPage, vars
  <2> QED
    BY <1>1, <2>1
<1> QED
  BY <1>2, NextStatementFigures DEF Next

LEMMA InitFigures == Init => Figures
<1> SUFFICES ASSUME Init PROVE Figures
  OBVIOUS
<1>1. counted = <<>> /\ Len(counted) = 0 /\ DOMAIN counted = {}
  BY EmptySeq DEF Init
<1> QED
  BY <1>1 DEF Figures

\* What is counted later includes what was counted before, of the same rows.
LEMMA FiguresHold == TypeOK /\ Figures => FiguresAgree
<1> SUFFICES ASSUME TypeOK, Figures PROVE FiguresAgree
  OBVIOUS
<1>1. /\ counted \in Seq(SUBSET Rows) /\ DOMAIN counted = 1..Len(counted)
      /\ \A i \in DOMAIN counted : counted[i] \in SUBSET Rows
  BY LenProperties, ElementOfSeq DEF TypeOK
<1>2. \A S \in SUBSET Rows : IsFiniteSet(S) /\ Cardinality(S) \in Nat
  BY Counts
<1>3. \A S, T \in SUBSET Rows : S \subseteq T => Cardinality(S) <= Cardinality(T)
  BY <1>2, FS_Subset
<1>4. ASSUME reader = "threat-summary", Len(counted) = 5
      PROVE  /\ Figure(2) + Figure(3) <= Figure(1) + Cardinality(table \ counted[1])
             /\ Figure(2) + Figure(3) <= Figure(4) /\ Figure(4) <= Figure(5)
  <2>1. 1 \in DOMAIN counted /\ 2 \in DOMAIN counted /\ 3 \in DOMAIN counted
        /\ 4 \in DOMAIN counted /\ 5 \in DOMAIN counted
    BY <1>1, <1>4
  <2> PICK c1, c2, c3, c4, c5 :
        c1 = counted[1] /\ c2 = counted[2] /\ c3 = counted[3] /\ c4 = counted[4] /\ c5 = counted[5]
    OBVIOUS
  <2>2. /\ c1 \in SUBSET Rows /\ c2 \in SUBSET Rows /\ c3 \in SUBSET Rows
        /\ c4 \in SUBSET Rows /\ c5 \in SUBSET Rows /\ table \in SUBSET Rows
    BY <1>1, <2>1 DEF TypeOK
  <2>3. c1 \subseteq table /\ c2 \subseteq table /\ c3 \subseteq table
    BY <2>1 DEF Figures
  <2>4. /\ \A r \in c2 : r.level = "malicious"
        /\ \A r \in c3 : r.level = "suspicious"
        /\ \A r \in c4 : IsThreat(r)
    BY <1>4, <2>1, StatementFacts DEF Figures, Selects
  <2>5. /\ \A r \in c2 : IsThreat(r) => r \in c4
        /\ \A r \in c3 : IsThreat(r) => r \in c4
        /\ \A r \in c4 : IsThreat(r) => r \in c5
    BY <1>4, <2>1, StatementFacts DEF Figures, Selects
  <2>6. c2 \cup c3 \subseteq c4 /\ c4 \subseteq c5 /\ c2 \cap c3 = {}
    BY <2>4, <2>5 DEF IsThreat
  <2>7. Cardinality(c2 \cup c3) = Cardinality(c2) + Cardinality(c3)
    <3>1. Cardinality(c2 \cup c3) = Cardinality(c2) + Cardinality(c3) - Cardinality(c2 \cap c3)
      BY <1>2, <2>2, FS_Union
    <3>2. Cardinality(c2 \cap c3) = 0
      BY <2>6, FS_EmptySet
    <3>3. Cardinality(c2) \in Nat /\ Cardinality(c3) \in Nat
      BY <1>2, <2>2
    <3> QED
      BY <3>1, <3>2, <3>3
  <2>8. Cardinality(c2 \cup c3) <= Cardinality(table)
    BY <1>3, <2>2, <2>3
  <2>9. Cardinality(table) = Cardinality(c1) + Cardinality(table \ c1)
    <3>1. Cardinality(table \ c1) = Cardinality(table) - Cardinality(table \cap c1)
      BY <1>2, <2>2, FS_Difference
    <3>2. table \cap c1 = c1 /\ Cardinality(table) \in Nat /\ Cardinality(c1) \in Nat
      BY <1>2, <2>2, <2>3
    <3>3. Cardinality(table \cap c1) = Cardinality(c1)
      BY <3>2
    <3> QED
      BY <3>1, <3>2, <3>3
  <2>10. Cardinality(c2 \cup c3) <= Cardinality(c4) /\ Cardinality(c4) <= Cardinality(c5)
    BY <1>3, <2>2, <2>6
  <2> QED
    BY <2>7, <2>8, <2>9, <2>10 DEF Figure
<1>5. ASSUME reader = "stats", Len(counted) = 6
      PROVE  /\ Figure(2) <= Figure(3) /\ Figure(1) <= Figure(3) /\ Figure(3) <= Figure(6)
             /\ Cardinality({r \in counted[3] : r.level = "malicious"}) <= Figure(5)
  <2>1. 1 \in DOMAIN counted /\ 2 \in DOMAIN counted /\ 3 \in DOMAIN counted
        /\ 5 \in DOMAIN counted /\ 6 \in DOMAIN counted
    BY <1>1, <1>5
  <2>2. /\ \A r \in counted[1] : r \in counted[3]
        /\ \A r \in counted[2] : r \in counted[3]
        /\ \A r \in counted[3] : r \in counted[6]
        /\ \A r \in counted[3] : r.level = "malicious" => r \in counted[5]
    BY <1>5, <2>1, StatementFacts DEF Figures, Selects
  <2>3. {r \in counted[3] : r.level = "malicious"} \subseteq counted[5]
    BY <2>2
  <2>4. {r \in counted[3] : r.level = "malicious"} \in SUBSET Rows
    BY <1>1, <2>1
  <2>5. Cardinality({r \in counted[3] : r.level = "malicious"}) <= Cardinality(counted[5])
    BY <1>1, <1>3, <2>1, <2>3, <2>4
  <2> QED
    BY <1>1, <1>3, <2>1, <2>2, <2>5 DEF Figure
<1> QED
  BY <1>4, <1>5 DEF FiguresAgree

-----------------------------------------------------------------------------
(* The theorems.                                                           *)

\* The inductive invariant of the readers.
THEOREM Invariant == Spec => []IInv
BY InitInvariant, InvariantStep, PTL DEF Spec

\* The readers of log_repo.py and the client of the feed keep their types.
THEOREM TypeCorrect == Spec => []TypeOK
BY Invariant, PTL DEF IInv

\* Going on from the last time seen loses only rows that came late or in a burst.
THEOREM Skips == Spec => []SkipsExplained
BY Invariant, PTL DEF IInv

\* The indicators of get_collection_objects, stored as they come, are the newest.
THEOREM Indicators == Spec => []IndicatorIsNewest
BY Invariant, PTL DEF IInv

\* Times cut to the second repeat only rows of the last second seen.
THEOREM Repeats == Spec => []RepeatsOnlyLastSecond
<1>1. IInv => RepeatsOnlyLastSecond
  <2> SUFFICES ASSUME IInv, NEW r \in Fresh, Received(r) PROVE Stamp(r.time) = cursor
    BY DEF RepeatsOnlyLastSecond
  <2>1. TypeOK /\ CursorIsLastSecond
    BY DEF IInv
  <2>2. r \in Rows /\ r.time \in Nat /\ r.time > cursor /\ cursor \in Nat /\ Stamp(r.time) \in Nat
    BY <2>1, CursorFacts, RowFacts DEF Fresh, TypeOK
  <2>3. Sighting(r) \in received /\ Sighting(r).time = r.time
    BY <2>2, RowFacts DEF Received
  <2>4. Stamp(r.time) <= cursor
    BY <2>1, <2>3 DEF CursorIsLastSecond
  <2>5. PICK c \in received : cursor = Stamp(c.time)
    BY <2>1, <2>3, CursorFacts DEF CursorIsLastSecond
  <2>6. c.time \in Nat
    BY <2>1, <2>5, ReceivedFacts
  <2>7. Stamp(cursor) = cursor /\ Stamp(cursor) <= Stamp(r.time)
    BY <2>2, <2>5, <2>6, StampFacts
  <2> QED
    BY <2>2, <2>4, <2>7
<1> QED
  BY <1>1, Invariant, PTL

\* Pages are as full as their totals say, and together leave out no more rows than came
\* while the last of them was read.
THEOREM Pager == Spec => []ListingSound
<1>1. Listing => ListingSound
  BY DEF Listing
<1> QED
  BY <1>1, TypeCorrect, InitListing, ListingStep, PTL DEF Spec

\* The figures of a response agree as far as figures of different moments can.
THEOREM FiguresOfMoments == Spec => []FiguresAgree
BY TypeCorrect, InitFigures, FiguresStep, FiguresHold, PTL DEF Spec

\* One poll settles every threat that is in the table, for good
\* (taxii_router.get_objects with the client's added_after).
THEOREM PollSettles == Spec => PollBringsAll
<1>1. IInv /\ IInv' /\ [Next]_vars =>
          [\A r \in table :
             /\ Poll /\ IsThreat(r) => Received(r)' \/ r \in excused'
             /\ Received(r) \/ r \in excused => Received(r)' \/ r \in excused']_vars
  <2> SUFFICES ASSUME IInv, IInv', Next, NEW r \in table
               PROVE  /\ Poll /\ IsThreat(r) => Received(r)' \/ r \in excused'
                      /\ Received(r) \/ r \in excused => Received(r)' \/ r \in excused'
    OBVIOUS
  <2>1. ASSUME Poll, IsThreat(r)
        PROVE  Received(r)' \/ r \in excused'
    <3>1. \A q \in polled' : IsThreat(q) => Received(q)' \/ q \in excused'
      BY DEF IInv, SkipsExplained
    <3>2. polled' = table
      BY <2>1 DEF Poll
    <3> QED
      BY <2>1, <3>1, <3>2
  <2>2. received \subseteq received' /\ excused \subseteq excused'
    BY DEF Next, Commit, Poll, CountRows, ReadPage, NextStatement, taxii
  <2>3. Received(r) => Received(r)'
    BY <2>2 DEF Received
  <2> QED
    BY <2>1, <2>2, <2>3
<1> QED
  BY <1>1, Invariant, PTL DEF Spec, PollBringsAll
=============================================================================

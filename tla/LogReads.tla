------------------------------ MODULE LogReads ------------------------------
(***************************************************************************)
(* Readers of the table dns_logs while the workers fill it: the STIX feed  *)
(* of taxii_router, polled by a client that goes on from where it was; the *)
(* paged listing of query_router; and the two statistics, each of which is *)
(* several statements (infrastructure/repositories/log_repo.py).           *)
(*                                                                         *)
(* Rows are committed in batches, in any order of their timestamps (an     *)
(* agent that drains its local store is late), and never deleted.  Each    *)
(* statement sees what is committed when it starts (READ COMMITTED); rows  *)
(* of one timestamp come in any order.  Readers do not disturb each other, *)
(* so each behaviour has one of them.                                      *)
(*                                                                         *)
(* Abstracted: API keys, headers and the texts of the STIX objects.        *)
(***************************************************************************)
EXTENDS Integers, Sequences, FiniteSets

CONSTANTS
    Rows,       \* [id, source, domain, level, time]: the rows the workers will write
    Ticks,      \* ticks of a timestamp in the second that STIX times are cut to
    Limit,      \* limit: rows of one poll
    PageSize,   \* page_size: rows of one page
    DayAgo      \* rows at or after it are those of the last 24 hours

Levels == {"malicious", "suspicious", "safe", "unknown"}

ASSUME LogReadsAssumption ==
    /\ IsFiniteSet(Rows)
    /\ \A r \in Rows : r.time \in Nat /\ r.time >= Ticks /\ r.level \in Levels
    /\ Ticks \in Nat \ {0} /\ Limit \in Nat \ {0} /\ PageSize \in Nat \ {0} /\ DayAgo \in Nat

VARIABLES
    reader,     \* the reader of this behaviour
    table,      \* rows that are committed
    cursor,     \* added_after of the next poll, 0 for none
    received,   \* observed-data that the client has
    indicators, \* [domain -> the indicator it has]
    polled,     \* rows that were there at the last poll
    excused,    \* rows a poll need not have brought
    at,         \* the listing: "next", "counted" or "done"
    level,      \* threat_level that is asked for, or "any"
    page,       \* pages that have been read
    total,      \* the last total
    items,      \* rows of the last page
    listed,     \* rows of all pages
    first,      \* rows that were there when the listing began
    drift,      \* rows committed between the last count and its page
    counted     \* statistics: the rows each statement has counted

taxii == <<cursor, received, indicators, polled>>
pager == <<at, level, page, total, items, listed, first>>
vars == <<reader, table, taxii, excused, pager, drift, counted>>

Init ==
    /\ reader \in {"taxii", "logs", "threat-summary", "stats"}
    /\ table = {}
    /\ cursor = 0 /\ received = {} /\ indicators = <<>> /\ polled = {} /\ excused = {}
    /\ at = "next" /\ level \in (IF reader = "logs" THEN Levels \cup {"any"} ELSE {"any"})
    /\ page = 0 /\ total = 0 /\ items = {} /\ listed = {} /\ first = {} /\ drift = 0
    /\ counted = <<>>

-----------------------------------------------------------------------------
IsThreat(r) == r.level \in {"malicious", "suspicious"}

\* ORDER BY timestamp DESC LIMIT n, for every order of rows of one time.
Newest(S, n) ==
    {P \in SUBSET S : /\ Cardinality(P) = (IF Cardinality(S) < n THEN Cardinality(S) ELSE n)
                      /\ \A p \in P, q \in S \ P : p.time >= q.time}

\* bulk_insert commits what one task has classified.
Commit ==
    \E batch \in SUBSET (Rows \ table) \ {{}} :
        /\ table' = table \cup batch
        /\ excused' = excused \cup {r \in batch : \E q \in received : q.time >= r.time}
        /\ drift' = IF at = "counted" THEN drift + Cardinality(batch) ELSE drift
        /\ UNCHANGED <<reader, taxii, pager, counted>>

-----------------------------------------------------------------------------
(* The feed.  An observed-data object is named by source, domain and time, *)
(* and the two copies of a row that was written twice are one; an          *)
(* indicator is named by its domain.                                       *)

Sighting(r) == [source |-> r.source, domain |-> r.domain, time |-> r.time]
Received(r) == Sighting(r) \in received

\* Mutant: the time is rounded up.
StampUp(time) == ((time + Ticks - 1) \div Ticks) * Ticks

\* strftime("%Y-%m-%dT%H:%M:%SZ"): the fraction of the second is dropped.
Stamp(time) == (time \div Ticks) * Ticks

\* Mutant: suspicious rows are not asked for.
FreshMalicious == {r \in table : r.level = "malicious" /\ (cursor = 0 \/ r.time > cursor)}

Fresh == {r \in table : IsThreat(r) /\ (cursor = 0 \/ r.time > cursor)}

\* Mutant: the last row of a domain makes its indicator.
OldestOf(P, d) == {r \in P : r.domain = d /\ \A q \in P : q.domain = d => q.time >= r.time}

\* The first row of a domain on the page makes its indicator.
NewestOf(P, d) == {r \in P : r.domain = d /\ \A q \in P : q.domain = d => q.time <= r.time}

Indicator(r) == [level |-> r.level, modified |-> Stamp(r.time)]

\* The newest time that the objects of the page state.
Onward(P) ==
    IF P = {} THEN {cursor} ELSE {Stamp(r.time) : r \in {n \in P : \A q \in P : q.time <= n.time}}

\* GET .../objects/?added_after=cursor, and the client stores the bundle.
Poll ==
    /\ reader = "taxii"
    /\ \E P \in Newest(Fresh, Limit) :
         LET domains == {r.domain : r \in P}
             missing == {r \in Fresh : ~Received(r)}
         IN  /\ received' = received \cup {Sighting(r) : r \in P}
             /\ \E best \in [domains -> P] :
                  /\ \A d \in domains : best[d] \in NewestOf(P, d)
                  /\ indicators' = [d \in domains \cup DOMAIN indicators |->
                                      IF d \in domains THEN Indicator(best[d]) ELSE indicators[d]]
             /\ cursor' \in Onward(P)
             /\ excused' = excused \cup (IF Cardinality(missing) > Limit THEN missing \ P ELSE {})
    /\ polled' = table
    /\ UNCHANGED <<reader, table, pager, drift, counted>>

-----------------------------------------------------------------------------
(* The listing: each request counts the rows, then reads a page of them.   *)

Asked == {r \in table : level = "any" \/ r.level = level}

CountRows ==
    /\ reader = "logs" /\ at = "next"
    /\ at' = "counted"
    /\ drift' = 0
    /\ total' = Cardinality(Asked)
    /\ first' = IF page = 0 THEN Asked ELSE first
    /\ UNCHANGED <<reader, table, taxii, excused, level, page, items, listed, counted>>

\* Mutant: offset = page * page_size.
OffsetFromPage(n) == n * PageSize

\* offset = (page - 1) * page_size
Offset(n) == (n - 1) * PageSize

\* The page; a client goes on while there are rows behind it.
ReadPage ==
    /\ at = "counted"
    /\ page' = page + 1
    /\ \E before \in Newest(Asked, Offset(page + 1)) :
         \E P \in Newest(Asked \ before, PageSize) :
            /\ items' = P
            /\ listed' = listed \cup P
    /\ at' = IF (page + 1) * PageSize < total THEN "next" ELSE "done"
    /\ UNCHANGED <<reader, table, taxii, excused, level, total, first, drift, counted>>

-----------------------------------------------------------------------------
(* The statistics: one statement after the other.                          *)

Statements ==
    [k \in {"threat-summary", "stats"} |->
        IF k = "stats" THEN <<"total", "day", "level", "domain", "malicious", "queried">>
        ELSE <<"total", "malicious", "suspicious", "ips", "domains">>]

\* Mutant: the suspicious rows are counted with the condition of the lists below.
CountsThreats(statement, r) ==
    CASE statement = "day"        -> r.time >= DayAgo
      [] statement = "malicious"  -> r.level = "malicious"
      [] statement \in {"suspicious", "ips", "domains"} -> IsThreat(r)
      [] OTHER                    -> TRUE

Selects(statement, r) ==
    CASE statement = "day"              -> r.time >= DayAgo
      [] statement = "malicious"        -> r.level = "malicious"
      [] statement = "suspicious"       -> r.level = "suspicious"
      [] statement \in {"ips", "domains"} -> IsThreat(r)
      [] OTHER                          -> TRUE

NextStatement ==
    /\ reader \in DOMAIN Statements
    /\ Len(counted) < Len(Statements[reader])
    /\ LET statement == Statements[reader][Len(counted) + 1]
       IN  counted' = Append(counted, {r \in table : Selects(statement, r)})
    /\ UNCHANGED <<reader, table, taxii, excused, pager, drift>>

-----------------------------------------------------------------------------
Next == Commit \/ Poll \/ CountRows \/ ReadPage \/ NextStatement

Spec == Init /\ [][Next]_vars

\* The client of the feed polls again and again.
FairSpec == Spec /\ WF_vars(Poll)

-----------------------------------------------------------------------------
Domains == {r.domain : r \in Rows}

TypeOK ==
    /\ reader \in {"taxii", "logs", "threat-summary", "stats"}
    /\ table \subseteq Rows /\ polled \subseteq table /\ excused \subseteq table
    /\ cursor \in Nat
    /\ received \subseteq {Sighting(r) : r \in {q \in table : IsThreat(q)}}
    /\ DOMAIN indicators \subseteq Domains
    /\ \A d \in DOMAIN indicators : indicators[d] \in [level : Levels, modified : Nat]
    /\ at \in {"next", "counted", "done"} /\ level \in Levels \cup {"any"}
    /\ page \in Nat /\ total \in Nat /\ drift \in Nat
    /\ items \subseteq table /\ listed \subseteq table /\ first \subseteq table
    /\ counted \in Seq(SUBSET Rows)

\* A client that follows the feed gets every threat there was when it polled, unless
\* more than a limit of new ones had come, or it came behind a newer one.
SkipsExplained ==
    \A r \in polled : IsThreat(r) => Received(r) \/ r \in excused

\* The indicator the client has for a domain is that of the newest sighting it has,
\* though each bundle describes the domain anew and overwrites what was there.
IndicatorIsNewest ==
    \A d \in DOMAIN indicators :
        \E r \in table : /\ r.domain = d /\ Received(r) /\ indicators[d] = Indicator(r)
                         /\ \A q \in received : q.domain = d => q.time <= r.time

\* A poll repeats what the client has only within the last second it has seen.
RepeatsOnlyLastSecond ==
    \A r \in Fresh : Received(r) => Stamp(r.time) = cursor

\* A threat in the table reaches the client that goes on polling, unless excused.
ThreatsArrive ==
    \A r \in Rows : (reader = "taxii" /\ IsThreat(r) /\ r \in table) ~> (Received(r) \/ r \in excused)

\* What of that is safety: one poll settles every threat that is there, and neither a
\* commit nor another reader's request undoes it.
PollBringsAll ==
    [][\A r \in table :
          /\ Poll /\ IsThreat(r) => Received(r)' \/ r \in excused'
          /\ Received(r) \/ r \in excused => Received(r)' \/ r \in excused']_vars

\* Where no two rows have one time, a listing of all pages leaves out at most as many
\* of the rows it began with as were committed between its last count and last page.
ListingComplete ==
    /\ at = "done"
    /\ \A r, q \in table : r.time = q.time => r = q
    => Cardinality(first \ listed) <= drift

\* A page has all the rows that the total of its response says it has.
PageIsFull ==
    at # "counted" /\ page > 0 =>
        \/ Cardinality(items) = PageSize
        \/ Cardinality(items) >= total - Offset(page)

\* What turning the pages promises while rows are committed: each page is as full as
\* its total says, and the pages together leave out no more than came meanwhile.
ListingSound == PageIsFull /\ ListingComplete

Figure(i) == Cardinality(counted[i])

\* The figures of one response, which are of different moments: there are no more
\* threats than logs and logs written meanwhile, and no list of all groups falls
\* short of a figure before it.
FiguresAgree ==
    /\ reader = "threat-summary" /\ Len(counted) = 5 =>
         /\ Figure(2) + Figure(3) <= Figure(1) + Cardinality(table \ counted[1])
         /\ Figure(2) + Figure(3) <= Figure(4) /\ Figure(4) <= Figure(5)
    /\ reader = "stats" /\ Len(counted) = 6 =>
         /\ Figure(2) <= Figure(3) /\ Figure(1) <= Figure(3) /\ Figure(3) <= Figure(6)
         /\ Cardinality({r \in counted[3] : r.level = "malicious"}) <= Figure(5)

-----------------------------------------------------------------------------
(* The inductive invariant behind the properties of the feed.              *)

\* A row no poll has seen is behind what the client has only if it is excused.
BehindExcused ==
    \A r \in table \ polled : (\E q \in received : q.time >= r.time) => r \in excused

\* The cursor is the second of the newest sighting the client has.
CursorIsLastSecond ==
    /\ \A q \in received : Stamp(q.time) <= cursor
    /\ cursor # 0 => \E q \in received : cursor = Stamp(q.time)

IInv == TypeOK /\ BehindExcused /\ CursorIsLastSecond /\ SkipsExplained /\ IndicatorIsNewest

-----------------------------------------------------------------------------
(* The invariants behind ListingSound and FiguresAgree.                    *)

Unique == \A r, q \in table : r.time = q.time => r = q
Newer(r) == {q \in Asked : q.time > r.time}

\* The rows asked for only grow, so what no page had stays behind the pages read.
Listing ==
    /\ first \subseteq Asked
    /\ at = "counted" => total <= Cardinality(Asked) /\ Cardinality(Asked) <= total + drift
    /\ Unique => \A r \in first \ listed : page * PageSize <= Cardinality(Newer(r))
    /\ ListingSound

\* A later statement sees at least what an earlier one saw.
Figures ==
    /\ Len(counted) > 0 => reader \in DOMAIN Statements
    /\ Len(counted) > 0 => Len(counted) <= Len(Statements[reader])
    /\ \A i \in DOMAIN counted : /\ counted[i] \subseteq table
                                 /\ \A r \in counted[i] : Selects(Statements[reader][i], r)
    /\ \A i, j \in DOMAIN counted : \A r \in counted[i] :
           i < j /\ Selects(Statements[reader][j], r) => r \in counted[j]
=============================================================================

---------------------------- MODULE ThreatTable ----------------------------
(***************************************************************************)
(* What the table threat_intel promises to those who read it, with no word *)
(* on sessions, locks or tasks: it is empty at first (no sync has run), a  *)
(* commit adds domains of one feed with that feed's type, and an entry     *)
(* keeps its type for ever, whatever other feeds say later.  FeedSync and  *)
(* Enrichment implement this specification.                                *)
(***************************************************************************)
CONSTANTS
    Domains,
    Types,    \* threat types, one per feed
    Feeds,    \* [Domains -> types of the feeds that may list the domain]
    None      \* no entry

VARIABLE threats

Init == threats = [d \in Domains |-> None]

\* The feed of one type adds some of its domains that are not there yet.
Add(t, D) ==
    /\ \A d \in D : t \in Feeds[d] /\ threats[d] = None
    /\ threats' = [d \in Domains |-> IF d \in D THEN t ELSE threats[d]]

Next == \E t \in Types, D \in SUBSET Domains : Add(t, D)

Spec == Init /\ [][Next]_threats
=============================================================================

---------------------------- MODULE EnrichmentMC ----------------------------
(***************************************************************************)
(* A small instance of Enrichment for TLC: a popular domain with a name    *)
(* the DGA rules flag, and one that is neither; either can become a threat.*)
(***************************************************************************)
EXTENDS Enrichment

CONSTANTS popular, other, popularBase, otherBase

Bases == [d \in Domains |-> IF d = popular THEN popularBase ELSE otherBase]

\* The other domain is in both feeds, the popular one in one of them.
BothFeeds == [d \in Domains |-> IF d = popular THEN {"malware"} ELSE Types]

\* The list has the popular base in all its versions.
OneList == {{popularBase}}
=============================================================================

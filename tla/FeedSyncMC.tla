----------------------------- MODULE FeedSyncMC -----------------------------
(***************************************************************************)
(* A small instance of FeedSync for TLC: two feeds with two domains in     *)
(* common, each with one of its own, one of which is trusted.              *)
(***************************************************************************)
EXTENDS FeedSync

CONSTANTS trusted, extra

TwoFeeds == <<"malware", "phishing">>

Overlapping == [t \in {"malware", "phishing"} |->
                   Domains \ (IF t = "malware" THEN {extra} ELSE {trusted})]
=============================================================================

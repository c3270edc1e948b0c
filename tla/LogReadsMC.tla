----------------------------- MODULE LogReadsMC -----------------------------
(***************************************************************************)
(* Five rows for TLC: three within a second, two of them copies of one     *)
(* query, one second without a fraction, one query that is safe.           *)
(***************************************************************************)
EXTENDS LogReads

Row(id, domain, lv, time) ==
    [id |-> id, source |-> "ip", domain |-> domain, level |-> lv, time |-> time]

SomeRows == {Row(1, "d", "malicious", 3), Row(2, "d", "malicious", 3), Row(3, "d", "suspicious", 5),
             Row(4, "e", "malicious", 4), Row(5, "e", "safe", 6)}
=============================================================================

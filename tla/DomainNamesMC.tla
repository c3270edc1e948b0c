--------------------------- MODULE DomainNamesMC ---------------------------
(***************************************************************************)
(* Names of up to six characters for TLC, over one character of each class.*)
(* The threshold of 3.2 bits, which ten different characters reach, is     *)
(* scaled down to 1.2 bits, the limits of length and clusters with it.     *)
(***************************************************************************)
EXTENDS DomainNames

\* Two TLD labels, "a" and "b"; "b1.b" and "1.a.b" are trusted; the TLD of the
\* excluded "1b-.-" is, like that of discord.gg, not in COMMON_SUFFIXES.
SuffixLabels == {<<"a">>, <<"b">>}
TrustedNames == {<< <<"b", "1">>, <<"b">> >>, << <<"1">>, <<"a">>, <<"b">> >>}
ExcludedNames == {<< <<"1", "b", "-">>, <<"-">> >>}

\* 1000 * n * log2(n)
Table == <<0, 2000, 4755, 8000, 11610, 15510>>
=============================================================================

---------------------------- MODULE DomainNames ----------------------------
(***************************************************************************)
(* What the server makes of a domain name before it asks anybody else:     *)
(* backend/core/entropy.py (the registered domain it looks for in the      *)
(* Umbrella whitelist, the label it measures, the entropy gate and the     *)
(* density filters of is_dga_suspicious) and is_whitelisted of             *)
(* backend/workers/feed_tasks.py, which keeps trusted names out of         *)
(* threat_intel.                                                           *)
(*                                                                         *)
(* A name is the sequence of its labels and a label the sequence of its    *)
(* characters: lower(), strip() and the split at the dots have been done.  *)
(* Entropies are exact sums of a table of n * log2(n) in thousandths, so   *)
(* the quotients of the code become products.  The steps spell names, one  *)
(* character or one label further to the left at a time.                   *)
(***************************************************************************)
EXTENDS Integers, Sequences, FiniteSets, FiniteSetsExt

CONSTANTS
    Chars,           \* what labels are made of
    Vowels, Digits,  \* two of their classes; consonants are neither, nor Hyphen
    Hyphen,
    CommonSuffixes,  \* labels that are part of a TLD
    Trusted,         \* TRUSTED_BASE_DOMAINS, names
    Excluded,        \* DGA_EXCLUDED_DOMAINS, names
    NLogN,           \* [n |-> 1000 * n * log2(n)], for the lengths of labels
    Threshold,       \* entropy_threshold, in thousandths of a bit
    MinLength,       \* min_length
    ClusterLimit,    \* 4 in the code
    MaxChars         \* bound: characters of a name

Labels == Seq(Chars) \ {<<>>}
Names == Seq(Labels) \ {<<>>}

ASSUME DomainNamesAssumption ==
    /\ CommonSuffixes \subseteq Labels
    /\ Trusted \subseteq Names /\ Excluded \subseteq Names
    /\ MaxChars \in Nat

VARIABLE name

-----------------------------------------------------------------------------
(* Registered domains and lists of names.                                  *)

Known(label) == label \in CommonSuffixes

\* Mutant: the scan for the owner's label starts at the front.
OwnerFromFront(d) ==
    CHOOSE i \in DOMAIN d : ~Known(d[i]) /\ \A j \in 1..(i - 1) : Known(d[j])

\* Where the scan from the back finds the first label that is not part of a TLD.
Owner(d) ==
    CHOOSE i \in DOMAIN d : ~Known(d[i]) /\ \A j \in (i + 1)..Len(d) : Known(d[j])

AllKnown(d) == \A i \in DOMAIN d : Known(d[i])

\* Mutants: the base without its TLD, and a TLD of one label at most.
OwnerOnly(d) == IF Len(d) <= 2 \/ AllKnown(d) THEN d ELSE <<d[Owner(d)]>>
LastTwo(d) == IF Len(d) <= 2 THEN d ELSE SubSeq(d, Len(d) - 1, Len(d))

\* extract_registered_domain
RegisteredDomain(d) ==
    IF Len(d) <= 2 \/ AllKnown(d) THEN d ELSE SubSeq(d, Owner(d), Len(d))

\* d ends in base, at a dot.
Under(d, base) ==
    /\ Len(base) <= Len(d)
    /\ SubSeq(d, Len(d) - Len(base) + 1, Len(d)) = base

IsWhitelisted(d) == \E trusted \in Trusted : Under(d, trusted)

-----------------------------------------------------------------------------
(* The label that is measured and what is measured on it.                  *)

\* The first of the longest labels that are not part of a TLD.
ExtractSld(d) ==
    LET segments == {i \in DOMAIN d : ~Known(d[i])}
        longest  == {i \in segments : \A j \in segments : Len(d[j]) <= Len(d[i])}
    IN  IF segments = {} THEN d[1] ELSE d[Min(longest)]

Count(w, C) == Cardinality({i \in DOMAIN w : w[i] \in C})

\* H(w) >= Threshold, as log2(n) - (1/n) * Sum(c * log2(c)) over the counts c.
EntropyPasses(w) ==
    NLogN[Len(w)] - MapThenSumSet(LAMBDA c : NLogN[Count(w, {c})], {w[i] : i \in DOMAIN w})
        >= Threshold * Len(w)

Consonants == Chars \ (Vowels \cup Digits \cup {Hyphen})

\* The longest run of consonants is longer than the limit.
LongCluster(w) ==
    \E i \in 1..(Len(w) - ClusterLimit) : \A j \in i..(i + ClusterLimit) : w[j] \in Consonants

\* The three density filters: vowels < 20%, digits > 20%, a long cluster.
DensityAnomaly(w) ==
    \/ 5 * Count(w, Vowels) < Len(w)
    \/ 5 * Count(w, Digits) > Len(w)
    \/ LongCluster(w)

\* Mutant: only the name itself is looked up.
IsExcludedExactly(d) == d \in Excluded

IsExcluded(d) == \E excluded \in Excluded : Under(d, excluded)

\* is_dga_suspicious
IsDgaSuspicious(d) ==
    LET sld == ExtractSld(d)
    IN  /\ ~IsExcluded(d)
        /\ Len(sld) >= MinLength /\ EntropyPasses(sld)
        /\ DensityAnomaly(sld)

-----------------------------------------------------------------------------
(* Names, from the last label to the first.                                *)

Size(d) == MapThenSumSet(LAMBDA i : Len(d[i]), DOMAIN d)

Init == name \in {<<<<c>>>> : c \in Chars}

\* One more character in front of the name.
Spell ==
    \E c \in Chars :
        /\ Size(name) < MaxChars
        /\ name' = [name EXCEPT ![1] = <<c>> \o @]

\* One more label in front of the name: a subdomain.
Subdomain ==
    \E c \in Chars :
        /\ Size(name) < MaxChars
        /\ name' = <<<<c>>>> \o name

Next == Spell \/ Subdomain
Spec == Init /\ [][Next]_name

-----------------------------------------------------------------------------
TypeOK == name \in Names

\* A name below a TLD the code knows: its base is the label in front of the TLD.
Settled(d) ==
    /\ Len(d) >= 2 /\ ~AllKnown(d)
    /\ Len(d) = 2 => Known(d[2])

\* All names below a registered domain have that domain as base, so one entry
\* of the Umbrella whitelist covers them: a subdomain never gets a base of its own.
SubdomainKeepsBase ==
    [][Settled(name) /\ Len(name') > Len(name) => RegisteredDomain(name') = RegisteredDomain(name)]_name

\* The base is the end of the name, is its own base, and reads as "SLD + TLD"
\* (entropy.py line 266) when the TLD is known.
BaseIsBase ==
    LET base == RegisteredDomain(name)
    IN  /\ Under(name, base) /\ RegisteredDomain(base) = base
        /\ Len(base) = 1 => Len(name) = 1 \/ ~Known(name[Len(name)])

\* A label and the TLD labels after it, as all entries of TRUSTED_BASE_DOMAINS are.
LabelAndTld(d) == Len(d) >= 2 /\ \A i \in DOMAIN d : Known(d[i]) <=> i > 1

\* The two whitelists agree: the names that the feed tasks refuse to list because
\* they are under a trusted domain are those whose base is trusted, so the same
\* domains in the Umbrella whitelist would make the same names safe.
ListsAgree ==
    (\A trusted \in Trusted : LabelAndTld(trusted))
        => (IsWhitelisted(name) <=> RegisteredDomain(name) \in Trusted)

\* Only the longest label counts: one of a single character in front of a longer one
\* changes no verdict, nor does it take a name off the exclusions, all of which have
\* two labels in the code.
ShortLabelKeepsVerdict ==
    [][ /\ \A excluded \in Excluded : Len(excluded) = 2
        /\ Len(name') > Len(name)
        /\ \E i \in DOMAIN name : ~Known(name[i]) /\ Len(name[i]) > 1
        /\ Len(name) >= 2
        => IsDgaSuspicious(name') = IsDgaSuspicious(name)]_name
=============================================================================

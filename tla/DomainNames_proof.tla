------------------------- MODULE DomainNames_proof -------------------------
(***************************************************************************)
(* Proofs about DomainNames, for every alphabet, every set of TLD labels   *)
(* and every list of trusted names: the registered domain is the end of    *)
(* the name, its own base, and the same for all names below it; and a      *)
(* short label in front changes no verdict of is_dga_suspicious.           *)
(***************************************************************************)
EXTENDS DomainNames, TLAPS, SequenceTheorems, FiniteSetTheorems, WellFoundedInduction

-----------------------------------------------------------------------------
(* The scan from the back.                                                 *)

\* A nonempty set of positions has a last one.
LEMMA LastPosition ==
    ASSUME NEW n \in Nat, NEW T, T \subseteq 1..n, T # {}
    PROVE  \E i \in T : \A j \in T : j <= i
<1> DEFINE S == 1..n
           D == {i..n : i \in T}
<1>1. IsFiniteSet(S)
  BY FS_Interval
<1>2. FiniteSubsetsOf(S) = SUBSET S
  BY <1>1, FS_FiniteSubsetsOfFinite
<1>3. IsWellFoundedOn(StrictSubsetOrdering(S), SUBSET S)
  BY <1>2, FS_StrictSubsetOrderingWellFounded
<1>4. D \subseteq SUBSET S /\ D # {}
  <2>1. \A i \in T : i..n \subseteq S
    BY SMT
  <2> QED
    BY <2>1
<1>5. PICK X \in D : \A Y \in D : <<Y, X>> \notin StrictSubsetOrdering(S)
  <2> HIDE DEF S, D
  <2> QED BY <1>3, <1>4, WFMin
<1>6. PICK i \in T : X = i..n
  BY <1>5
<1>7. ASSUME NEW j \in T PROVE j <= i
  <2>1. SUFFICES ASSUME j > i PROVE FALSE
    OBVIOUS
  <2>2. j..n \subseteq i..n /\ i \in i..n /\ i \notin j..n
    BY <2>1
  <2>3. <<j..n, i..n>> \in StrictSubsetOrdering(S)
    BY <2>2 DEF StrictSubsetOrdering
  <2>4. j..n \in D
    OBVIOUS
  <2> QED
    BY <1>5, <1>6, <2>3, <2>4
<1> QED
  BY <1>7

\* Names and their positions.
LEMMA NameFacts ==
    ASSUME NEW d \in Names
    PROVE  /\ d \in Seq(Labels) /\ Len(d) \in Nat /\ Len(d) >= 1
           /\ DOMAIN d = 1..Len(d)
           /\ \A i \in 1..Len(d) : d[i] \in Labels
<1>1. d \in Seq(Labels) /\ d # <<>>
  BY DEF Names
<1> QED
  BY <1>1, EmptySeq, LenProperties, ElementOfSeq

\* The scan stops at the last label that is not part of a TLD.
LEMMA OwnerFacts ==
    ASSUME NEW d \in Names, ~AllKnown(d)
    PROVE  /\ Owner(d) \in 1..Len(d)
           /\ ~Known(d[Owner(d)])
           /\ \A j \in (Owner(d) + 1)..Len(d) : Known(d[j])
<1> DEFINE T == {i \in 1..Len(d) : ~Known(d[i])}
<1>1. DOMAIN d = 1..Len(d) /\ Len(d) \in Nat
  BY NameFacts
<1>2. T \subseteq 1..Len(d) /\ T # {}
  BY <1>1 DEF AllKnown
<1>3. PICK i \in T : \A j \in T : j <= i
  <2> HIDE DEF T
  <2> QED BY <1>1, <1>2, LastPosition
<1>4. \A j \in (i + 1)..Len(d) : Known(d[j])
  BY <1>1, <1>3
<1>5. \E k \in DOMAIN d : ~Known(d[k]) /\ \A j \in (k + 1)..Len(d) : Known(d[j])
  BY <1>1, <1>3, <1>4
<1> QED
  BY <1>1, <1>5 DEF Owner

\* There is one such label only.
LEMMA OwnerUnique ==
    ASSUME NEW d \in Names, NEW k \in 1..Len(d),
           ~Known(d[k]), \A j \in (k + 1)..Len(d) : Known(d[j])
    PROVE  ~AllKnown(d) /\ Owner(d) = k
<1>1. DOMAIN d = 1..Len(d) /\ Len(d) \in Nat
  BY NameFacts
<1>2. ~AllKnown(d)
  BY <1>1 DEF AllKnown
<1>3. /\ Owner(d) \in 1..Len(d) /\ ~Known(d[Owner(d)])
      /\ \A j \in (Owner(d) + 1)..Len(d) : Known(d[j])
  BY <1>2, OwnerFacts
<1>4. ~(Owner(d) < k) /\ ~(k < Owner(d))
  BY <1>1, <1>3
<1> QED
  BY <1>1, <1>2, <1>3, <1>4

\* The end of a name from one of its labels on.
LEMMA EndFacts ==
    ASSUME NEW d \in Names, NEW k \in 1..Len(d)
    PROVE  LET e == SubSeq(d, k, Len(d))
           IN  /\ e \in Names /\ Len(e) = Len(d) - k + 1
               /\ \A i \in 1..Len(e) : e[i] = d[k + i - 1]
               /\ Under(d, e)
<1> DEFINE e == SubSeq(d, k, Len(d))
<1>1. Len(d) \in Nat /\ \A i \in 1..Len(d) : d[i] \in Labels
  BY NameFacts
<1>2. \A i \in k..Len(d) : d[i] \in Labels
  BY <1>1
<1>3. /\ e \in Seq(Labels) /\ Len(e) = Len(d) - k + 1
      /\ \A i \in 1..(Len(d) - k + 1) : e[i] = d[k + i - 1]
  BY <1>1, <1>2, SubSeqProperties
<1>4. e # <<>>
  <2>1. Len(e) # 0
    BY <1>1, <1>3
  <2> QED
    BY <2>1, EmptySeq
<1>5. Under(d, e)
  <2>1. Len(d) - Len(e) + 1 = k /\ Len(e) <= Len(d)
    BY <1>1, <1>3
  <2> QED
    BY <2>1 DEF Under
<1> QED
  BY <1>1, <1>3, <1>4, <1>5 DEF Names

\* A name that ends in another one has its labels.
LEMMA UnderFacts ==
    ASSUME NEW d \in Names, NEW b \in Names, Under(d, b)
    PROVE  /\ Len(b) <= Len(d)
           /\ \A i \in 1..Len(b) : b[i] = d[Len(d) - Len(b) + i]
<1> DEFINE k == Len(d) - Len(b) + 1
<1>1. Len(d) \in Nat /\ Len(b) \in Nat /\ Len(b) >= 1 /\ Len(b) <= Len(d)
  BY NameFacts DEF Under
<1>2. b = SubSeq(d, k, Len(d)) /\ k \in 1..Len(d)
  BY <1>1 DEF Under
<1>3. \A i \in 1..Len(b) : b[i] = d[k + i - 1]
  <2> HIDE DEF k
  <2> QED BY <1>2, EndFacts
<1> QED
  BY <1>1, <1>3

\* A name that ends in another one is that name's end.
LEMMA NameIsItsEnd ==
    ASSUME NEW d \in Names
    PROVE  SubSeq(d, 1, Len(d)) = d /\ Under(d, d)
<1>1. d \in Seq(Labels) /\ Len(d) \in Nat /\ Len(d) >= 1
  BY NameFacts
<1>2. SubSeq(d, 1, Len(d)) = d
  BY <1>1, SubSeqFull
<1> QED
  BY <1>1, <1>2 DEF Under

-----------------------------------------------------------------------------
(* The registered domain.                                                  *)

\* A name of more than two labels, not all of a TLD, begins its base at its owner.
LEMMA LongNameBase ==
    ASSUME NEW d \in Names, Len(d) > 2, ~AllKnown(d)
    PROVE  RegisteredDomain(d) = SubSeq(d, Owner(d), Len(d))
<1>1. ~(Len(d) <= 2)
  BY NameFacts
<1> QED
  BY <1>1, Zenon DEF RegisteredDomain

\* The base of a name is its end from its last label that is not part of a TLD.
LEMMA BaseFacts ==
    ASSUME NEW d \in Names
    PROVE  /\ RegisteredDomain(d) \in Names
           /\ Under(d, RegisteredDomain(d))
           /\ RegisteredDomain(RegisteredDomain(d)) = RegisteredDomain(d)
           /\ Len(RegisteredDomain(d)) = 1 => Len(d) = 1 \/ ~Known(d[Len(d)])
<1>1. Len(d) \in Nat /\ Len(d) >= 1
  BY NameFacts
<1>2. CASE Len(d) <= 2 \/ AllKnown(d)
  <2>1. RegisteredDomain(d) = d
    BY <1>2 DEF RegisteredDomain
  <2> QED
    BY <2>1, NameIsItsEnd
<1>3. CASE Len(d) > 2 /\ ~AllKnown(d)
  <2> DEFINE k == Owner(d)
             e == SubSeq(d, k, Len(d))
  <2>1. RegisteredDomain(d) = e
    BY <1>3, LongNameBase
  <2>2. /\ k \in 1..Len(d) /\ ~Known(d[k])
        /\ \A j \in (k + 1)..Len(d) : Known(d[j])
    BY <1>3, OwnerFacts
  <2> HIDE DEF k
  <2>3. /\ e \in Names /\ Len(e) = Len(d) - k + 1 /\ Under(d, e)
        /\ \A i \in 1..Len(e) : e[i] = d[k + i - 1]
    BY <2>2, EndFacts
  <2> HIDE DEF e
  <2>4. Len(e) \in Nat /\ 1 \in 1..Len(e)
    BY <2>3, NameFacts
  <2>5. ~Known(e[1]) /\ \A j \in 2..Len(e) : Known(e[j])
    <3>1. e[1] = d[k]
      BY <1>1, <2>2, <2>3, <2>4
    <3>2. ASSUME NEW j \in 2..Len(e) PROVE Known(e[j])
      <4>1. e[j] = d[k + j - 1]
        BY <2>3, <2>4
      <4>2. k + j - 1 \in (k + 1)..Len(d)
        BY <1>1, <2>2, <2>3
      <4> QED
        BY <2>2, <4>1, <4>2
    <3> QED
      BY <2>2, <3>1, <3>2
  <2>6. ~AllKnown(e) /\ Owner(e) = 1
    <3>1. \A j \in (1 + 1)..Len(e) : Known(e[j])
      BY <2>5
    <3> QED
      BY <2>3, <2>4, <2>5, <3>1, OwnerUnique
  <2>7. RegisteredDomain(e) = e
    BY <2>3, <2>6, NameIsItsEnd DEF RegisteredDomain
  <2>8. Len(e) = 1 => ~Known(d[Len(d)])
    <3>1. Len(e) = Len(d) - k + 1 /\ k \in 1..Len(d)
      BY <2>2, <2>3
    <3>2. \A m, n \in Nat : k \in 1..n /\ m = n - k + 1 /\ m = 1 => k = n
      OBVIOUS
    <3>3. Len(e) = 1 => k = Len(d)
      BY <1>1, <2>4, <3>1, <3>2
    <3> QED
      BY <2>2, <3>3
  <2> QED
    BY <2>1, <2>3, <2>7, <2>8
<1> QED
  BY <1>1, <1>2, <1>3

\* Two names with the same end from the last owner's label on have the same base.
LEMMA BaseOfSubdomain ==
    ASSUME NEW d \in Names, NEW b \in Names, Under(d, b), Len(d) > Len(b), Settled(b)
    PROVE  RegisteredDomain(d) = RegisteredDomain(b)
<1> DEFINE n == Len(d) - Len(b)
           k == Owner(b)
<1>1. Len(d) \in Nat /\ Len(b) \in Nat /\ Len(b) >= 2 /\ ~AllKnown(b) /\ n \in Nat
  BY NameFacts DEF Settled
<1>2. \A i \in 1..Len(b) : b[i] = d[n + i]
  BY UnderFacts
<1>3. k \in 1..Len(b) /\ ~Known(b[k]) /\ \A j \in (k + 1)..Len(b) : Known(b[j])
  BY <1>1, OwnerFacts
<1>4. ~AllKnown(d) /\ Owner(d) = n + k
  <2>1. n + k \in 1..Len(d) /\ ~Known(d[n + k])
    BY <1>1, <1>2, <1>3
  <2>2. ASSUME NEW j \in (n + k + 1)..Len(d) PROVE Known(d[j])
    <3>1. j - n \in (k + 1)..Len(b) /\ j - n \in 1..Len(b) /\ n + (j - n) = j
      BY <1>1, <1>3
    <3> QED
      BY <1>2, <1>3, <3>1
  <2> QED
    BY <2>1, <2>2, OwnerUnique
<1>5. RegisteredDomain(d) = SubSeq(d, n + k, Len(d))
  <2>1. Len(d) > 2
    BY <1>1
  <2> QED
    BY <1>4, <2>1, LongNameBase
<1>6. SubSeq(d, n + k, Len(d)) = SubSeq(b, k, Len(b))
  <2> DEFINE x == SubSeq(d, n + k, Len(d))
             y == SubSeq(b, k, Len(b))
  <2>1. n + k \in 1..Len(d)
    BY <1>1, <1>3
  <2>2. /\ x \in Names /\ Len(x) = Len(d) - (n + k) + 1
        /\ \A i \in 1..Len(x) : x[i] = d[n + k + i - 1]
    BY <2>1, EndFacts
  <2>3. /\ y \in Names /\ Len(y) = Len(b) - k + 1
        /\ \A i \in 1..Len(y) : y[i] = b[k + i - 1]
    BY <1>3, EndFacts
  <2>4. Len(x) = Len(y) /\ Len(y) \in Nat
    BY <1>1, <1>3, <2>2, <2>3
  <2>5. ASSUME NEW i \in 1..Len(x) PROVE x[i] = y[i]
    <3>1. i \in Nat /\ i >= 1 /\ i <= Len(b) - k + 1
      <4> HIDE DEF x, y, k, n
      <4> QED BY <2>3, <2>4
    <3>2. k \in Nat /\ k >= 1 /\ k <= Len(b)
      BY <1>1, <1>3
    <3> HIDE DEF n, k
    <3>3. k + i - 1 \in 1..Len(b) /\ n + (k + i - 1) = n + k + i - 1
      BY <1>1, <3>1, <3>2
    <3>4. x[i] = d[n + k + i - 1] /\ y[i] = b[k + i - 1]
      BY <2>2, <2>3, <2>4
    <3> QED
      BY <1>2, <3>3, <3>4
  <2> HIDE DEF x, y
  <2>6. x \in Seq(Labels) /\ y \in Seq(Labels)
    BY <2>2, <2>3 DEF Names
  <2> QED
    BY <2>4, <2>5, <2>6, SeqEqual DEF x, y
<1>7. SubSeq(b, k, Len(b)) = RegisteredDomain(b)
  <2>1. CASE Len(b) > 2
    BY <1>1, <2>1, LongNameBase
  <2>2. CASE Len(b) = 2
    <3>1. Known(b[2])
      BY <2>2 DEF Settled
    <3>2. k = 1
      BY <1>1, <1>3, <2>2, <3>1
    <3> QED
      BY <2>2, <3>2, NameIsItsEnd DEF RegisteredDomain
  <2>3. \A m \in Nat : m >= 2 => m > 2 \/ m = 2
    OBVIOUS
  <2>4. Len(b) > 2 \/ Len(b) = 2
    BY <1>1, <2>3
  <2> QED
    BY <2>1, <2>2, <2>4
<1> QED
  BY <1>5, <1>6, <1>7

\* A label in front of a name.
LEMMA PrependFacts ==
    ASSUME NEW d \in Names, NEW c \in Chars
    PROVE  LET e == <<<<c>>>> \o d IN e \in Names /\ Under(e, d)
<1> DEFINE f == <<<<c>>>>
           e == f \o d
<1>1. d \in Seq(Labels) /\ Len(d) \in Nat /\ Len(d) >= 1
  BY NameFacts
<1>2. f \in Seq(Labels) /\ Len(f) = 1
  BY DEF Labels
<1>3. e \in Seq(Labels) /\ Len(e) = 1 + Len(d)
  <2> HIDE DEF f
  <2> QED BY <1>1, <1>2, ConcatProperties
<1>4. e \in Names
  <2>1. Len(e) # 0
    BY <1>1, <1>3
  <2> QED
    BY <1>3, <2>1, EmptySeq DEF Names
<1>5. Under(e, d)
  <2>1. Len(e) - Len(d) + 1 = 2 /\ Len(d) <= Len(e)
    BY <1>1, <1>3
  <2>2. SubSeq(e, 2, Len(e)) = SubSeq(d, 1, Len(d))
    <3>1. 2 \in (Len(f) + 1)..(Len(f) + Len(d)) /\ Len(e) \in (Len(f) + 1)..(Len(f) + Len(d))
      BY <1>1, <1>2, <1>3
    <3> HIDE DEF f
    <3>2. SubSeq(e, 2, Len(e)) = SubSeq(d, 2 - Len(f), Len(e) - Len(f))
      BY <1>1, <1>2, <3>1, SubSeqOfConcat2
    <3>3. 2 - Len(f) = 1 /\ Len(e) - Len(f) = Len(d)
      BY <1>1, <1>2, <1>3
    <3> QED
      BY <3>2, <3>3
  <2>3. SubSeq(d, 1, Len(d)) = d
    BY NameIsItsEnd
  <2> QED
    BY <2>1, <2>2, <2>3 DEF Under
<1> QED
  BY <1>4, <1>5

\* A label and its TLD: settled, and its own base.
LEMMA LabelAndTldFacts ==
    ASSUME NEW d \in Names, LabelAndTld(d)
    PROVE  Settled(d) /\ RegisteredDomain(d) = d
<1>1. Len(d) \in Nat /\ Len(d) >= 2 /\ DOMAIN d = 1..Len(d)
  BY NameFacts DEF LabelAndTld
<1>2. 1 \in 1..Len(d) /\ ~Known(d[1]) /\ \A j \in (1 + 1)..Len(d) : Known(d[j])
  BY <1>1 DEF LabelAndTld
<1>3. ~AllKnown(d) /\ Owner(d) = 1
  BY <1>2, OwnerUnique
<1>4. Settled(d)
  <2>1. 2 \in (1 + 1)..Len(d)
    BY <1>1
  <2> QED
    BY <1>1, <1>2, <1>3, <2>1 DEF Settled
<1>5. RegisteredDomain(d) = d
  BY <1>3, NameIsItsEnd DEF RegisteredDomain
<1> QED
  BY <1>4, <1>5

-----------------------------------------------------------------------------
(* The label that is measured.                                             *)

\* A nonempty set of positions has one where a quantity is greatest.
LEMMA GreatestPosition ==
    ASSUME NEW n \in Nat, NEW T, T \subseteq 1..n, T # {}, NEW f \in [1..n -> Int]
    PROVE  \E i \in T : \A j \in T : f[j] <= f[i]
<1> DEFINE S == 1..n
           Above(i) == {j \in S : f[j] >= f[i]}
           D == {Above(i) : i \in T}
<1>1. IsFiniteSet(S)
  BY FS_Interval
<1>2. IsWellFoundedOn(StrictSubsetOrdering(S), SUBSET S)
  <2>1. FiniteSubsetsOf(S) = SUBSET S
    BY <1>1, FS_FiniteSubsetsOfFinite
  <2> QED
    BY <1>1, <2>1, FS_StrictSubsetOrderingWellFounded
<1>3. D \subseteq SUBSET S /\ D # {}
  OBVIOUS
<1>4. PICK X \in D : \A Y \in D : <<Y, X>> \notin StrictSubsetOrdering(S)
  <2> HIDE DEF S, D
  <2> QED BY <1>2, <1>3, WFMin
<1>5. PICK i \in T : X = Above(i)
  BY <1>4
<1>6. ASSUME NEW j \in T, ~(f[j] <= f[i]) PROVE FALSE
  <2>1. f[j] \in Int /\ f[i] \in Int /\ i \in S /\ j \in S /\ \A k \in S : f[k] \in Int
    OBVIOUS
  <2>2. Above(j) \subseteq Above(i) /\ i \in Above(i) /\ i \notin Above(j)
    BY <1>6, <2>1
  <2>3. <<Above(j), Above(i)>> \in StrictSubsetOrdering(S)
    BY <2>2 DEF StrictSubsetOrdering
  <2>4. Above(j) \in D
    OBVIOUS
  <2> HIDE DEF Above
  <2> QED
    BY <1>4, <1>5, <2>3, <2>4
<1> QED
  BY <1>6

\* The first of some positions.
LEMMA MinFacts ==
    ASSUME NEW n \in Nat, NEW T, T \subseteq 1..n, T # {}
    PROVE  /\ Min(T) \in T /\ \A j \in T : Min(T) <= j
           /\ \A k \in T : (\A j \in T : k <= j) => Min(T) = k
<1>1. PICK f : f = [i \in 1..n |-> 0 - i]
  OBVIOUS
<1>2. f \in [1..n -> Int]
  BY <1>1
<1>3. PICK k \in T : \A j \in T : f[j] <= f[k]
  BY <1>2, GreatestPosition
<1>4. \A j \in T : k <= j
  BY <1>1, <1>3
<1>5. Min(T) \in T /\ \A j \in T : Min(T) <= j
  BY <1>4, Zenon DEF Min
<1>6. ASSUME NEW m \in T, \A j \in T : m <= j PROVE Min(T) = m
  <2>1. Min(T) <= m /\ m <= Min(T)
    BY <1>5, <1>6, Zenon
  <2>2. Min(T) \in 1..n /\ m \in 1..n
    BY <1>5, Zenon
  <2>3. \A a, b \in 1..n : a <= b /\ b <= a => a = b
    OBVIOUS
  <2> QED
    BY <2>1, <2>2, <2>3, Zenon
<1> QED
  BY <1>5, <1>6, Zenon

Segments(d) == {i \in DOMAIN d : ~Known(d[i])}
Longest(d) == {i \in Segments(d) : \A j \in Segments(d) : Len(d[j]) <= Len(d[i])}

LEMMA SldFacts ==
    ASSUME NEW d \in Names, Segments(d) # {}
    PROVE  /\ ExtractSld(d) = d[Min(Longest(d))]
           /\ Longest(d) \subseteq 1..Len(d) /\ Longest(d) # {}
<1>1. /\ DOMAIN d = 1..Len(d) /\ Len(d) \in Nat
      /\ \A i \in 1..Len(d) : d[i] \in Labels /\ Len(d[i]) \in Nat
  BY NameFacts, LenProperties DEF Labels
<1>2. PICK f : f = [i \in 1..Len(d) |-> Len(d[i])]
  OBVIOUS
<1>3. f \in [1..Len(d) -> Int]
  BY <1>1, <1>2
<1>4. Segments(d) \subseteq 1..Len(d)
  BY <1>1 DEF Segments
<1>5. PICK i \in Segments(d) : \A j \in Segments(d) : f[j] <= f[i]
  BY <1>1, <1>3, <1>4, GreatestPosition
<1>6. i \in Longest(d)
  BY <1>2, <1>4, <1>5 DEF Longest
<1> QED
  BY <1>4, <1>6 DEF ExtractSld, Longest, Segments

\* A label of one character in front of longer ones is never measured.
LEMMA SldOfSubdomain ==
    ASSUME NEW d \in Names, NEW c \in Chars, \E i \in DOMAIN d : ~Known(d[i]) /\ Len(d[i]) > 1
    PROVE  ExtractSld(<<<<c>>>> \o d) = ExtractSld(d)
<1> DEFINE e == <<<<c>>>> \o d
<1>1. /\ Len(d) \in Nat /\ DOMAIN d = 1..Len(d) /\ d \in Seq(Labels)
      /\ \A i \in 1..Len(d) : Len(d[i]) \in Nat
  BY NameFacts, LenProperties DEF Labels
<1>2. /\ e \in Names /\ DOMAIN e = 1..(Len(d) + 1) /\ Len(e) = Len(d) + 1 /\ e[1] = <<c>>
      /\ \A i \in 1..Len(d) : e[i + 1] = d[i]
  <2>1. e \in Names
    BY PrependFacts
  <2>2. <<<<c>>>> \in Seq(Labels) /\ Len(<<<<c>>>>) = 1 /\ <<<<c>>>>[1] = <<c>>
    BY DEF Labels
  <2>3. Len(e) = 1 + Len(d)
    BY <1>1, <2>2, ConcatProperties
  <2>4. e[1] = <<c>> /\ \A i \in 1..Len(d) : e[i + 1] = d[i]
    BY <1>1, <2>2
  <2>5. DOMAIN e = 1..Len(e)
    BY <2>1, NameFacts
  <2>6. Len(e) = Len(d) + 1
    BY <1>1, <2>3
  <2> HIDE DEF e
  <2> QED
    BY <2>1, <2>4, <2>5, <2>6
<1> HIDE DEF e
<1>3. /\ \A i \in Segments(d) : i \in 1..Len(d) /\ i + 1 \in Segments(e)
      /\ \A i \in Segments(e) : i = 1 \/ (i - 1 \in Segments(d) /\ e[i] = d[i - 1])
  <2>1. ASSUME NEW i \in Segments(d) PROVE i \in 1..Len(d) /\ i + 1 \in Segments(e)
    BY <1>1, <1>2, <2>1 DEF Segments
  <2>2. ASSUME NEW i \in Segments(e), i # 1 PROVE i - 1 \in Segments(d) /\ e[i] = d[i - 1]
    <3>1. i \in 1..(Len(d) + 1)
      BY <1>2 DEF Segments
    <3>2. i - 1 \in 1..Len(d) /\ (i - 1) + 1 = i
      BY <1>1, <2>2, <3>1
    <3>3. e[i] = d[i - 1]
      BY <1>2, <3>2
    <3> QED
      BY <1>1, <3>2, <3>3 DEF Segments
  <2> QED
    BY <2>1, <2>2
<1>4. PICK w \in Segments(d) : Len(d[w]) > 1
  BY DEF Segments
<1>5. Len(e[1]) = 1
  BY <1>2
<1>6. \A i \in Longest(d) : i \in 1..Len(d) /\ i + 1 \in Longest(e)
  <2> SUFFICES ASSUME NEW i \in Longest(d) PROVE i \in 1..Len(d) /\ i + 1 \in Longest(e)
    OBVIOUS
  <2>1. i \in 1..Len(d) /\ i + 1 \in Segments(e) /\ e[i + 1] = d[i]
    BY <1>2, <1>3 DEF Longest
  <2>2. Len(d[w]) <= Len(d[i]) /\ Len(d[w]) \in Nat /\ Len(d[i]) \in Nat
    BY <1>1, <1>3, <1>4, <2>1 DEF Longest
  <2>3. ASSUME NEW j \in Segments(e) PROVE Len(e[j]) <= Len(d[i])
    <3>1. CASE j = 1
      <4>1. Len(e[j]) = 1
        BY <1>5, <3>1
      <4>2. \A a, b \in Nat : a > 1 /\ a <= b => 1 <= b
        OBVIOUS
      <4>3. 1 <= Len(d[i])
        BY <1>4, <2>2, <4>2
      <4> QED
        BY <4>1, <4>3
    <3>2. CASE j # 1
      BY <1>3, <3>2 DEF Longest
    <3> QED
      BY <3>1, <3>2
  <2> QED
    BY <2>1, <2>3 DEF Longest
<1>7. \A i \in Longest(e) : i - 1 \in Longest(d)
  <2> SUFFICES ASSUME NEW i \in Longest(e) PROVE i - 1 \in Longest(d)
    OBVIOUS
  <2>1. w + 1 \in Segments(e) /\ e[w + 1] = d[w] /\ Len(d[w]) \in Nat
    BY <1>1, <1>2, <1>3
  <2>2. Len(d[w]) <= Len(e[i])
    BY <2>1 DEF Longest
  <2>3. i # 1
    <3> SUFFICES ASSUME i = 1 PROVE FALSE
      OBVIOUS
    <3>1. Len(e[i]) = 1
      BY <1>5
    <3>2. \A a \in Nat : a > 1 => ~(a <= 1)
      OBVIOUS
    <3> QED
      BY <1>4, <2>1, <2>2, <3>1, <3>2
  <2>4. i - 1 \in Segments(d) /\ e[i] = d[i - 1]
    BY <1>3, <2>3 DEF Longest
  <2>5. ASSUME NEW j \in Segments(d) PROVE Len(d[j]) <= Len(d[i - 1])
    <3>1. j + 1 \in Segments(e) /\ e[j + 1] = d[j]
      BY <1>2, <1>3
    <3> QED
      BY <2>4, <3>1 DEF Longest
  <2> QED
    BY <2>4, <2>5 DEF Longest
<1>8. /\ ExtractSld(d) = d[Min(Longest(d))]
      /\ Longest(d) \subseteq 1..Len(d) /\ Longest(d) # {}
  BY <1>4, SldFacts
<1>9. /\ ExtractSld(e) = e[Min(Longest(e))]
      /\ Longest(e) \subseteq 1..Len(e) /\ Longest(e) # {}
  BY <1>2, <1>3, <1>4, SldFacts
<1>10. PICK m : m = Min(Longest(d))
  OBVIOUS
<1>11. m \in Longest(d) /\ \A j \in Longest(d) : m <= j
  BY <1>1, <1>8, <1>10, MinFacts
<1>12. m \in 1..Len(d) /\ m + 1 \in Longest(e) /\ \A j \in Longest(e) : m + 1 <= j
  <2>1. m \in 1..Len(d) /\ m + 1 \in Longest(e)
    BY <1>6, <1>11
  <2>2. ASSUME NEW j \in Longest(e) PROVE m + 1 <= j
    <3>1. m <= j - 1 /\ j \in 1..Len(e)
      BY <1>7, <1>9, <1>11
    <3> QED
      BY <1>1, <1>2, <2>1, <3>1
  <2> QED
    BY <2>1, <2>2
<1>13. Min(Longest(e)) = m + 1
  <2>1. Len(e) \in Nat
    BY <1>1, <1>2
  <2> QED
    BY <1>9, <1>12, <2>1, MinFacts
<1>14. e[m + 1] = d[m]
  BY <1>2, <1>12
<1> QED
  BY <1>8, <1>9, <1>10, <1>13, <1>14 DEF e

\* A name of two labels or more ends in the same two with another in front of it.
LEMMA ExclusionOfSubdomain ==
    ASSUME NEW d \in Names, NEW c \in Chars, Len(d) >= 2,
           \A excluded \in Excluded : Len(excluded) = 2
    PROVE  IsExcluded(<<<<c>>>> \o d) <=> IsExcluded(d)
<1> DEFINE f == <<<<c>>>>
           e == f \o d
<1>1. d \in Seq(Labels) /\ Len(d) \in Nat
  BY NameFacts
<1>2. f \in Seq(Labels) /\ Len(f) = 1
  BY DEF Labels
<1> HIDE DEF f
<1>3. Len(e) = 1 + Len(d)
  BY <1>1, <1>2, ConcatProperties
<1>4. SubSeq(e, Len(e) - 1, Len(e)) = SubSeq(d, Len(d) - 1, Len(d))
  <2>1. Len(e) - 1 \in (Len(f) + 1)..(Len(f) + Len(d)) /\ Len(e) \in (Len(f) + 1)..(Len(f) + Len(d))
    BY <1>1, <1>2, <1>3
  <2>2. SubSeq(e, Len(e) - 1, Len(e)) = SubSeq(d, (Len(e) - 1) - Len(f), Len(e) - Len(f))
    BY <1>1, <1>2, <2>1, SubSeqOfConcat2
  <2>3. (Len(e) - 1) - Len(f) = Len(d) - 1 /\ Len(e) - Len(f) = Len(d)
    BY <1>1, <1>2, <1>3
  <2> QED
    BY <2>2, <2>3
<1>5. ASSUME NEW x \in Excluded PROVE Under(e, x) <=> Under(d, x)
  <2>1. Len(x) = 2 /\ 2 <= Len(e) /\ 2 <= Len(d)
    BY <1>1, <1>3
  <2>2. Len(e) - 2 + 1 = Len(e) - 1 /\ Len(d) - 2 + 1 = Len(d) - 1
    BY <1>1, <1>3
  <2> HIDE DEF e
  <2> QED
    BY <1>4, <2>1, <2>2 DEF Under
<1> QED
  BY <1>5 DEF IsExcluded, e, f

-----------------------------------------------------------------------------
(* The walk through the names.                                             *)

\* Names are nonempty sequences of nonempty labels.
LEMMA NamesTyped == Spec => []TypeOK
<1>1. Init => TypeOK
  <2>1. ASSUME NEW c \in Chars PROVE <<<<c>>>> \in Names
    <3>1. <<c>> \in Labels
      BY DEF Labels
    <3> QED
      BY <3>1 DEF Names
  <2> QED
    BY <2>1 DEF Init, TypeOK
<1>2. TypeOK /\ [Next]_name => TypeOK'
  <2> SUFFICES ASSUME name \in Names, [Next]_name PROVE name' \in Names
    BY DEF TypeOK
  <2>1. /\ name \in Seq(Labels) /\ 1 \in 1..Len(name)
        /\ \A i \in 1..Len(name) : name[i] \in Labels
    BY NameFacts
  <2>2. ASSUME NEW c \in Chars, name' = [name EXCEPT ![1] = <<c>> \o @] PROVE name' \in Names
    <3>1. name[1] \in Seq(Chars) /\ <<c>> \in Seq(Chars) /\ Len(<<c>>) = 1
      BY <2>1 DEF Labels
    <3>2. <<c>> \o name[1] \in Seq(Chars) /\ Len(<<c>> \o name[1]) = 1 + Len(name[1])
      BY <3>1, ConcatProperties
    <3>3. Len(name[1]) \in Nat
      BY <3>1, LenProperties
    <3>4. <<c>> \o name[1] \in Labels
      <4>1. Len(<<c>> \o name[1]) # 0
        BY <3>2, <3>3
      <4> QED
        BY <3>2, <4>1, EmptySeq DEF Labels
    <3> DEFINE w == <<c>> \o name[1]
    <3> HIDE DEF w
    <3>5. name' = [name EXCEPT ![1] = w] /\ w \in Labels
      BY <2>2, <3>4 DEF w
    <3>6. name' \in Seq(Labels) /\ Len(name') = Len(name)
      BY <2>1, <3>5, ExceptSeq
    <3>7. Len(name') # 0
      BY <2>1, <3>6
    <3> QED
      BY <3>6, <3>7, EmptySeq DEF Names
  <2>3. ASSUME NEW c \in Chars, name' = <<<<c>>>> \o name PROVE name' \in Names
    BY <2>1, <2>3, PrependFacts
  <2> QED
    BY <2>2, <2>3 DEF Next, Spell, Subdomain
<1> QED
  BY <1>1, <1>2, PTL DEF Spec

\* Every registered domain is the end of its name and its own base, and has a
\* label in front of any TLD the code knows, whatever the name.
THEOREM BaseIsItsOwnBase == Spec => []BaseIsBase
<1>1. TypeOK => BaseIsBase
  BY BaseFacts DEF TypeOK, BaseIsBase
<1> QED
  BY <1>1, NamesTyped, PTL

\* All names below a registered domain with a known TLD have that base, however
\* many labels are put in front.
THEOREM SubdomainsShareBase == Spec => SubdomainKeepsBase
<1>1. TypeOK /\ [Next]_name
        => [Settled(name) /\ Len(name') > Len(name)
              => RegisteredDomain(name') = RegisteredDomain(name)]_name
  <2> SUFFICES ASSUME name \in Names, Next, Settled(name), Len(name') > Len(name)
               PROVE  RegisteredDomain(name') = RegisteredDomain(name)
    BY DEF TypeOK
  <2>1. name \in Seq(Labels) /\ Len(name) \in Nat
    BY NameFacts
  <2>2. ASSUME NEW c \in Chars, name' = [name EXCEPT ![1] = <<c>> \o @] PROVE FALSE
    <3>1. Len(name') = Len(name)
      BY <2>1, <2>2
    <3> QED
      BY <2>1, <3>1
  <2>3. ASSUME NEW c \in Chars, name' = <<<<c>>>> \o name
        PROVE  name' \in Names /\ Under(name', name)
    BY <2>1, <2>3, PrependFacts
  <2>4. name' \in Names /\ Under(name', name)
    BY <2>2, <2>3 DEF Next, Spell, Subdomain
  <2> QED
    BY <2>4, BaseOfSubdomain
<1> QED
  BY <1>1, NamesTyped, PTL DEF Spec, SubdomainKeepsBase

\* Whatever the trusted domains, as long as each is one label and its TLD, being
\* under one of them is having one of them as base.
THEOREM WhitelistsAgree == Spec => []ListsAgree
<1>1. TypeOK => ListsAgree
  <2> SUFFICES ASSUME name \in Names, \A trusted \in Trusted : LabelAndTld(trusted)
               PROVE  IsWhitelisted(name) <=> RegisteredDomain(name) \in Trusted
    BY DEF TypeOK, ListsAgree
  <2>1. ASSUME RegisteredDomain(name) \in Trusted PROVE IsWhitelisted(name)
    BY <2>1, BaseFacts DEF IsWhitelisted
  <2>2. ASSUME NEW t \in Trusted, Under(name, t) PROVE RegisteredDomain(name) = t
    <3>1. t \in Names /\ LabelAndTld(t)
      BY DomainNamesAssumption
    <3>2. Settled(t) /\ RegisteredDomain(t) = t
      BY <3>1, LabelAndTldFacts
    <3>3. CASE Len(name) > Len(t)
      BY <2>2, <3>1, <3>2, <3>3, BaseOfSubdomain
    <3>4. CASE Len(name) = Len(t)
      <4>1. SubSeq(name, 1, Len(name)) = t
        <5>1. Len(name) - Len(t) + 1 = 1
          BY <3>1, <3>4, NameFacts
        <5> QED
          BY <2>2, <5>1 DEF Under
      <4> QED
        BY <3>2, <4>1, NameIsItsEnd
    <3>5. Len(name) > Len(t) \/ Len(name) = Len(t)
      <4>1. \A m, n \in Nat : n <= m => m > n \/ m = n
        OBVIOUS
      <4> QED
        BY <2>2, <3>1, <4>1, NameFacts DEF Under
    <3> QED
      BY <3>3, <3>4, <3>5
  <2> QED
    BY <2>1, <2>2 DEF IsWhitelisted
<1> QED
  BY <1>1, NamesTyped, PTL

\* A label of one character in front of longer ones changes no verdict, whatever the
\* alphabet, the thresholds and the excluded domains of two labels.
THEOREM VerdictKept == Spec => ShortLabelKeepsVerdict
<1>1. TypeOK /\ [Next]_name
        => [ /\ \A excluded \in Excluded : Len(excluded) = 2
             /\ Len(name') > Len(name)
             /\ \E i \in DOMAIN name : ~Known(name[i]) /\ Len(name[i]) > 1
             /\ Len(name) >= 2
             => IsDgaSuspicious(name') = IsDgaSuspicious(name)]_name
  <2> SUFFICES ASSUME name \in Names, Next, Len(name') > Len(name), Len(name) >= 2,
                      \A excluded \in Excluded : Len(excluded) = 2,
                      \E i \in DOMAIN name : ~Known(name[i]) /\ Len(name[i]) > 1
               PROVE  IsDgaSuspicious(name') = IsDgaSuspicious(name)
    BY DEF TypeOK
  <2>1. name \in Seq(Labels) /\ Len(name) \in Nat
    BY NameFacts
  <2>2. ASSUME NEW c \in Chars, name' = [name EXCEPT ![1] = <<c>> \o @] PROVE FALSE
    <3>1. Len(name') = Len(name)
      BY <2>1, <2>2
    <3> QED
      BY <2>1, <3>1
  <2>3. PICK c \in Chars : name' = <<<<c>>>> \o name
    BY <2>2 DEF Next, Spell, Subdomain
  <2>4. ExtractSld(name') = ExtractSld(name)
    BY <2>3, SldOfSubdomain
  <2>5. IsExcluded(name') <=> IsExcluded(name)
    BY <2>3, ExclusionOfSubdomain
  <2> QED
    BY <2>4, <2>5, Zenon DEF IsDgaSuspicious
<1> QED
  BY <1>1, NamesTyped, PTL DEF Spec, ShortLabelKeepsVerdict
=============================================================================

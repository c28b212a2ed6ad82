-------------------------- MODULE StudyPlayerProofs --------------------------
(***************************************************************************)
(* What holds of the session player for any bank, any answers and offers,  *)
(* any number of sessions and any replies: late, failed or lost.           *)
(***************************************************************************)
EXTENDS StudyPlayer, FiniteSetTheorems, SequenceTheorems, WellFoundedInduction, TLAPS

-----------------------------------------------------------------------------
(* Sequences of questions, and the sampling.                               *)

Distinct(qs) == \A i, j \in DOMAIN qs : qs[i] = qs[j] => i = j

LEMMA LeastNumber ==
    ASSUME NEW T, T \subseteq Nat, T # {}
    PROVE  \E n \in T : \A m \in T : n <= m
<1> DEFINE R == OpToRel(<, Nat)
<1>1. IsWellFoundedOn(R, Nat)
  BY NatLessThanWellFounded
<1>2. \A n, m \in Nat : n < m => <<n, m>> \in R
  BY DEF OpToRel
<1> HIDE DEF R
<1>3. PICK n \in T : \A m \in T : ~(<<m, n>> \in R)
  BY <1>1, WFMin
<1>4. \A m \in T : ~(m < n)
  <2> TAKE m \in T
  <2>1. m \in Nat /\ n \in Nat
    OBVIOUS
  <2>2. QED
    BY <2>1, <1>2, <1>3, Zenon
<1>5. QED
  BY <1>4

\* The questions of a list, as `Cardinality(shown) = Len` says it.
LEMMA DistinctCounts ==
    ASSUME NEW qs \in Seq(Questions), Distinct(qs)
    PROVE  Cardinality(ToSet(qs)) = Len(qs)
<1>1. DOMAIN qs = 1..Len(qs) /\ Len(qs) \in Nat
  BY LenProperties
<1>2. IsFiniteSet(1..Len(qs)) /\ Cardinality(1..Len(qs)) = Len(qs)
  <2>1. 1 \in Int /\ Len(qs) \in Int
    BY <1>1
  <2>2. IsFiniteSet(1..Len(qs)) /\ Cardinality(1..Len(qs)) = IF 1 > Len(qs) THEN 0 ELSE Len(qs) - 1 + 1
    BY <2>1, FS_Interval
  <2>3. QED
    BY <1>1, <2>2
<1>3. qs \in Bijection(1..Len(qs), ToSet(qs))
  <2>1. qs \in [1..Len(qs) -> ToSet(qs)]
    BY <1>1 DEF ToSet
  <2>2. qs \in Injection(1..Len(qs), ToSet(qs))
    BY <1>1, <2>1 DEF Distinct, Injection, IsInjective
  <2>3. qs \in Surjection(1..Len(qs), ToSet(qs))
    BY <1>1, <2>1 DEF Surjection, ToSet
  <2>4. QED
    BY <2>2, <2>3 DEF Bijection
<1>4. ExistsBijection(1..Len(qs), ToSet(qs))
  BY <1>3 DEF ExistsBijection
<1>5. QED
  BY <1>2, <1>4, FS_Bijection

LEMMA CountType ==
    ASSUME NEW S, S \subseteq Questions
    PROVE  IsFiniteSet(S) /\ Cardinality(S) \in Nat
  BY SimulationsAssumption, FS_Subset, FS_CardinalityType

LEMMA EnumerationFacts ==
    ASSUME NEW S, S \subseteq Questions, NEW s \in SetToSeqs(S)
    PROVE  /\ s \in [1..Cardinality(S) -> S] /\ s \in Seq(Questions)
           /\ Len(s) = Cardinality(S) /\ Distinct(s) /\ ToSet(s) \subseteq S
<1>1. Cardinality(S) \in Nat
  BY CountType
<1>2. /\ s \in [1..Cardinality(S) -> S]
      /\ \A i, j \in 1..Cardinality(S) : i # j => s[i] # s[j]
  BY DEF SetToSeqs
<1>3. s \in Seq(S) /\ Len(s) = Cardinality(S)
  BY <1>1, <1>2, IsASeq
<1>4. s \in Seq(Questions)
  BY <1>1, <1>2, IsASeq
<1>5. Distinct(s)
  BY <1>2 DEF Distinct
<1>6. ToSet(s) \subseteq S
  BY <1>2 DEF ToSet
<1>7. QED
  BY <1>2, <1>3, <1>4, <1>5, <1>6

\* The start of a list.
LEMMA StartFacts ==
    ASSUME NEW s \in Seq(Questions), NEW m \in 0..Len(s), Distinct(s)
    PROVE  /\ SubSeq(s, 1, m) \in Seq(Questions) /\ Len(SubSeq(s, 1, m)) = m
           /\ \A i \in 1..m : SubSeq(s, 1, m)[i] = s[i]
           /\ Distinct(SubSeq(s, 1, m)) /\ ToSet(SubSeq(s, 1, m)) \subseteq ToSet(s)
<1> DEFINE t == SubSeq(s, 1, m)
<1>1. DOMAIN s = 1..Len(s) /\ Len(s) \in Nat
  BY LenProperties
<1>2. m \in Nat /\ 1 \in Int /\ \A i \in 1..m : s[i] \in Questions
  BY <1>1, ElementOfSeq
<1>3. t \in Seq(Questions) /\ Len(t) = m /\ \A i \in 1..m : t[i] = s[i]
  BY <1>1, <1>2, SubSeqProperties
<1> HIDE DEF t
<1>4. DOMAIN t = 1..m
  BY <1>3, LenProperties
<1>5. Distinct(t) /\ ToSet(t) \subseteq ToSet(s)
  BY <1>1, <1>3, <1>4 DEF Distinct, ToSet
<1>6. QED
  BY <1>3, <1>5 DEF t

\* One position more, one less.
LEMMA AppendedFacts ==
    ASSUME NEW s \in Seq(Questions), NEW q \in Questions
    PROVE  /\ Append(s, q) \in Seq(Questions) /\ Len(Append(s, q)) = Len(s) + 1
           /\ ToSet(Append(s, q)) = ToSet(s) \cup {q}
           /\ Distinct(s) /\ q \notin ToSet(s) => Distinct(Append(s, q))
<1>1. /\ Append(s, q) \in Seq(Questions) /\ Len(Append(s, q)) = Len(s) + 1
      /\ \A i \in 1..Len(s) : Append(s, q)[i] = s[i]
      /\ Append(s, q)[Len(s) + 1] = q
  BY AppendProperties
<1>2. /\ DOMAIN s = 1..Len(s) /\ Len(s) \in Nat
      /\ DOMAIN Append(s, q) = 1..(Len(s) + 1)
  BY <1>1, LenProperties
<1>3. ToSet(Append(s, q)) = ToSet(s) \cup {q}
  <2>1. \A i \in 1..(Len(s) + 1) : i \in 1..Len(s) \/ i = Len(s) + 1
    BY <1>2
  <2>2. Len(s) + 1 \in 1..(Len(s) + 1) /\ 1..Len(s) \subseteq 1..(Len(s) + 1)
    BY <1>2
  <2>3. QED
    BY <1>1, <1>2, <2>1, <2>2 DEF ToSet
<1>4. ASSUME Distinct(s), q \notin ToSet(s) PROVE Distinct(Append(s, q))
  <2>1. \A i \in 1..(Len(s) + 1) : i \in 1..Len(s) \/ i = Len(s) + 1
    BY <1>2
  <2>2. \A i \in 1..Len(s) : Append(s, q)[i] # q
    BY <1>1, <1>2, <1>4 DEF ToSet
  <2>3. QED
    BY <1>1, <1>2, <1>4, <2>1, <2>2 DEF Distinct
<1>5. QED
  BY <1>1, <1>3, <1>4

LEMMA RemovedFacts ==
    ASSUME NEW s \in Seq(Questions), NEW n \in 1..Len(s)
    PROVE  /\ RemoveAt(s, n) \in Seq(Questions) /\ Len(RemoveAt(s, n)) = Len(s) - 1
           /\ ToSet(RemoveAt(s, n)) \subseteq ToSet(s)
           /\ Distinct(s) => /\ Distinct(RemoveAt(s, n))
                             /\ ToSet(RemoveAt(s, n)) = ToSet(s) \ {s[n]}
<1> DEFINE t == RemoveAt(s, n)
           old(i) == IF i < n THEN i ELSE i + 1
<1>1. DOMAIN s = 1..Len(s) /\ Len(s) \in Nat /\ n \in Nat /\ n >= 1 /\ n <= Len(s)
  BY LenProperties
<1> DEFINE a == SubSeq(s, 1, n - 1)
           b == SubSeq(s, n + 1, Len(s))
<1>2. a \in Seq(Questions) /\ Len(a) = n - 1 /\ \A i \in 1..(n - 1) : a[i] = s[i]
  <2>1. 1 \in Int /\ n - 1 \in Int /\ \A i \in 1..(n - 1) : s[i] \in Questions
    BY <1>1, ElementOfSeq
  <2>2. QED
    BY <1>1, <2>1, SubSeqProperties
<1>3. /\ b \in Seq(Questions) /\ Len(b) = Len(s) - n
      /\ \A i \in 1..(Len(s) - n) : b[i] = s[i + n]
  <2>1. n + 1 \in Int /\ Len(s) \in Int /\ \A i \in (n + 1)..Len(s) : s[i] \in Questions
    BY <1>1, ElementOfSeq
  <2>2. /\ b \in Seq(Questions) /\ Len(b) = IF n + 1 <= Len(s) THEN Len(s) - (n + 1) + 1 ELSE 0
        /\ \A i \in 1..(Len(s) - (n + 1) + 1) : b[i] = s[(n + 1) + i - 1]
    BY <2>1, SubSeqProperties
  <2> HIDE DEF b
  <2>3. Len(s) - (n + 1) + 1 = Len(s) - n /\ (~(n + 1 <= Len(s)) => Len(s) - n = 0)
    <3>1. \A l, m \in Nat : m <= l => l - (m + 1) + 1 = l - m
      OBVIOUS
    <3>2. \A l, m \in Nat : m <= l => (~(m + 1 <= l) => l - m = 0)
      OBVIOUS
    <3>3. QED
      BY <1>1, <3>1, <3>2, Zenon
  <2>4. \A i \in 1..(Len(s) - n) : (n + 1) + i - 1 = i + n
    BY <1>1
  <2>5. Len(b) = Len(s) - n
    BY <2>2, <2>3, Zenon
  <2>6. \A i \in 1..(Len(s) - n) : b[i] = s[i + n]
    BY <2>2, <2>3, <2>4, Zenon
  <2>7. QED
    BY <2>2, <2>5, <2>6
<1>4. t = a \o b
  BY DEF RemoveAt
<1> HIDE DEF a, b, t
<1>5. /\ t \in Seq(Questions) /\ Len(t) = Len(s) - 1
      /\ \A i \in 1..(n - 1) : t[i] = a[i]
      /\ \A i \in 1..(Len(s) - 1) : i > n - 1 => t[i] = b[i - (n - 1)]
  <2>1. /\ t \in Seq(Questions) /\ Len(t) = Len(a) + Len(b)
        /\ \A i \in 1..(Len(a) + Len(b)) : t[i] = IF i <= Len(a) THEN a[i] ELSE b[i - Len(a)]
    BY <1>2, <1>3, <1>4, ConcatProperties
  <2>2. Len(a) = n - 1 /\ Len(a) + Len(b) = Len(s) - 1
    BY <1>1, <1>2, <1>3
  <2>3. \A i \in 1..(n - 1) : i \in 1..(Len(s) - 1) /\ i <= n - 1
    BY <1>1
  <2>4. \A i \in 1..(Len(s) - 1) : i > n - 1 => ~(i <= n - 1)
    BY <1>1
  <2>5. \A i \in 1..(Len(s) - 1) : t[i] = IF i <= n - 1 THEN a[i] ELSE b[i - (n - 1)]
    BY <2>1, <2>2
  <2>6. QED
    BY <2>1, <2>2, <2>3, <2>4, <2>5
<1>6. \A i \in 1..(Len(s) - 1) : t[i] = s[old(i)]
  <2> TAKE i \in 1..(Len(s) - 1)
  <2>1. CASE i < n
    <3>1. i \in 1..(n - 1)
      BY <1>1, <2>1
    <3>2. t[i] = s[i]
      BY <3>1, <1>2, <1>5
    <3>3. QED
      BY <2>1, <3>2
  <2>2. CASE ~(i < n)
    <3>1. i - (n - 1) \in 1..(Len(s) - n) /\ i > n - 1 /\ (i - (n - 1)) + n = i + 1
      BY <1>1, <2>2
    <3>2. t[i] = b[i - (n - 1)] /\ b[i - (n - 1)] = s[i + 1]
      BY <3>1, <1>3, <1>5
    <3>3. QED
      BY <2>2, <3>2
  <2>3. QED
    BY <2>1, <2>2
<1>7. /\ \A i \in 1..(Len(s) - 1) : old(i) \in 1..Len(s) /\ old(i) # n
      /\ \A i, j \in 1..(Len(s) - 1) : old(i) = old(j) => i = j
      /\ \A k \in 1..Len(s) : k # n => \E i \in 1..(Len(s) - 1) : old(i) = k
  <2>1. \A k \in 1..Len(s) : k < n => k \in 1..(Len(s) - 1) /\ old(k) = k
    BY <1>1
  <2>2. \A k \in 1..Len(s) : k > n => k - 1 \in 1..(Len(s) - 1) /\ old(k - 1) = k
    BY <1>1
  <2>3. \A k \in 1..Len(s) : k # n => k < n \/ k > n
    BY <1>1
  <2>4. /\ \A i \in 1..(Len(s) - 1) : old(i) \in 1..Len(s) /\ old(i) # n
        /\ \A i, j \in 1..(Len(s) - 1) : old(i) = old(j) => i = j
    BY <1>1
  <2> HIDE DEF old
  <2>5. QED
    BY <2>1, <2>2, <2>3, <2>4
<1> HIDE DEF old
<1>8. DOMAIN t = 1..(Len(s) - 1)
  BY <1>5, LenProperties
<1>9. ToSet(t) \subseteq ToSet(s)
  BY <1>1, <1>6, <1>7, <1>8 DEF ToSet
<1>10. ASSUME Distinct(s) PROVE Distinct(t) /\ ToSet(t) = ToSet(s) \ {s[n]}
  <2>1. Distinct(t)
    BY <1>1, <1>6, <1>7, <1>8, <1>10 DEF Distinct
  <2>2. \A i \in 1..(Len(s) - 1) : t[i] # s[n]
    BY <1>1, <1>6, <1>7, <1>10 DEF Distinct
  <2>3. \A k \in 1..Len(s) : s[k] # s[n] => \E i \in 1..(Len(s) - 1) : t[i] = s[k]
    BY <1>6, <1>7
  <2>4. ToSet(s) \ {s[n]} \subseteq ToSet(t)
    BY <1>1, <1>8, <2>3 DEF ToSet
  <2>5. QED
    BY <1>8, <1>9, <2>1, <2>2, <2>4 DEF ToSet
<1>11. QED
  BY <1>5, <1>9, <1>10 DEF t

-----------------------------------------------------------------------------
(* What the server draws and what it reads back.                           *)

LEMMA LiveType == Live \subseteq Questions
  BY DEF Live

LEMMA OfTypeType == \A t : OfType(t) \subseteq Questions
  BY DEF OfType, Live

LEMMA SmallerFacts ==
    ASSUME NEW a \in Nat, NEW b \in Nat
    PROVE  Smaller(a, b) \in 0..b /\ Smaller(a, b) <= a
  BY DEF Smaller

\* A selection: as many questions as asked for or as there are, none twice.
LEMMA SelectedFacts ==
    ASSUME NEW r, NEW pool, pool \subseteq Questions, NEW limit \in Nat,
           NEW s \in Selected(r, pool, limit)
    PROVE  /\ s \in Seq(Questions) /\ Distinct(s) /\ ToSet(s) \subseteq pool
           /\ Len(s) = Smaller(limit, Cardinality(pool))
<1> DEFINE m == Smaller(limit, Cardinality(pool))
<1>1. PICK all \in SetToSeqs(pool) : s = SubSeq(all, 1, m)
  BY DEF Selected, InterleaveByTopic
<1>2. /\ all \in Seq(Questions) /\ Len(all) = Cardinality(pool) /\ Distinct(all)
      /\ ToSet(all) \subseteq pool
  BY EnumerationFacts
<1>3. m \in 0..Len(all)
  BY <1>2, CountType, SmallerFacts
<1>4. QED
  BY <1>1, <1>2, <1>3, StartFacts

LEMMA InOrderFacts ==
    ASSUME NEW S, S \subseteq Questions, NEW s \in InOrder(S)
    PROVE  s \in Seq(Questions) /\ Distinct(s)
  BY EnumerationFacts DEF InOrder

LEMMA DrawnFacts ==
    ASSUME NEW r \in Requests, NEW t \in {"multiple_choice", "open"}, NEW s \in Drawn(r, t)
    PROVE  ToSet(s) \subseteq Questions
<1>1. r.wanted[t] \in Nat /\ OfType(t) \subseteq Questions
  BY OfTypeType DEF Requests
<1>2. PICK P : P \subseteq OfType(t) /\ s \in Selected(r, P, r.wanted[t])
  BY DEF Drawn, Pools
<1>3. QED
  BY <1>1, <1>2, SelectedFacts

\* No simulation asks a question twice.
LEMMA GeneratedFacts ==
    ASSUME NEW r \in Requests, NEW qs \in Generated(r)
    PROVE  qs \in Seq(Questions) /\ Distinct(qs)
<1> DEFINE mc == Drawn(r, "multiple_choice")
           op == Drawn(r, "open")
           mixed == {ToSet(closed) \cup ToSet(open) : closed \in mc, open \in op}
<1>1. CASE r.exhaustive
  <2>1. qs \in Selected(r, Live, Cardinality(Live)) \/ qs \in InOrder(Live)
    BY <1>1 DEF Generated
  <2>2. QED
    BY <2>1, LiveType, CountType, SelectedFacts, InOrderFacts
<1>2. CASE ~r.exhaustive
  <2>1. qs \in UNION {IF r.randomize THEN SetToSeqs(S) ELSE InOrder(S) : S \in mixed}
    BY <1>2 DEF Generated
  <2>2. PICK S \in mixed : qs \in IF r.randomize THEN SetToSeqs(S) ELSE InOrder(S)
    BY <2>1
  <2>3. PICK closed \in mc, open \in op : S = ToSet(closed) \cup ToSet(open)
    BY <2>2
  <2>4. ToSet(closed) \subseteq Questions
    BY <2>3, DrawnFacts
  <2>5. ToSet(open) \subseteq Questions
    BY <2>3, DrawnFacts
  <2>6. S \subseteq Questions
    BY <2>3, <2>4, <2>5
  <2>7. QED
    BY <2>2, <2>6, EnumerationFacts, InOrderFacts
<1>3. QED
  BY <1>1, <1>2

LEMMA FromQuestionsFacts ==
    ASSUME NEW ids \in SUBSET Questions, NEW qs \in FromQuestions(ids)
    PROVE  qs \in Seq(Questions) /\ Distinct(qs)
<1>1. ids \cap Live \subseteq Questions
  BY LiveType
<1>2. qs \in SetToSeqs(ids \cap Live)
  BY DEF FromQuestions
<1>3. QED
  BY <1>1, <1>2, EnumerationFacts

\* The place of i among the numbers of S.
Rank(S, i) == Cardinality({j \in S : j <= i})

\* Numbers up to N have the ranks 1 to their number, each once and in order.
LEMMA RankFacts ==
    ASSUME NEW N \in Nat, NEW S, S \subseteq 1..N
    PROVE  /\ IsFiniteSet(S) /\ Cardinality(S) \in Nat
           /\ \A i \in S : Rank(S, i) \in 1..Cardinality(S)
           /\ \A i, j \in S : i < j => Rank(S, i) < Rank(S, j)
           /\ \A n \in 1..Cardinality(S) : \E i \in S : Rank(S, i) = n
<1> DEFINE m == Cardinality(S)
<1>1. \A i \in S : i \in Nat
  OBVIOUS
<1>2. IsFiniteSet(S) /\ m \in Nat
  <2>1. IsFiniteSet(1..N)
    BY FS_Interval
  <2>2. QED
    BY <2>1, FS_Subset, FS_CardinalityType
<1>3. \A i \in S : Rank(S, i) \in 1..m
  <2> TAKE i \in S
  <2> DEFINE R == {j \in S : j <= i}
  <2>1. i \in R /\ R \subseteq S
    BY <1>1
  <2> HIDE DEF R
  <2>2. IsFiniteSet(R) /\ Cardinality(R) \in Nat /\ Cardinality(R) <= m
    BY <1>2, <2>1, FS_Subset, FS_CardinalityType
  <2>3. Cardinality(R) # 0
    BY <2>1, <2>2, FS_EmptySet
  <2>4. Cardinality(R) \in 1..m
    BY <1>2, <2>2, <2>3
  <2>5. QED
    BY <2>4 DEF R, Rank
<1>4. \A i, j \in S : i < j => Rank(S, i) < Rank(S, j)
  <2> TAKE i \in S, j \in S
  <2> HAVE i < j
  <2> DEFINE R == {k \in S : k <= i}
             T == {k \in S : k <= j}
  <2>1. R \subseteq T /\ j \in T /\ j \notin R
    <3>1. i \in Nat /\ j \in Nat
      BY <1>1
    <3>2. j <= j /\ ~(j <= i) /\ \A k \in Nat : k <= i => k <= j
      BY <3>1
    <3>3. QED
      BY <1>1, <3>2
  <2>2. IsFiniteSet(T)
    BY <1>2, FS_Subset
  <2> HIDE DEF R, T
  <2>3. IsFiniteSet(R) /\ Cardinality(R) <= Cardinality(T)
    BY <2>1, <2>2, FS_Subset
  <2>4. Cardinality(R) \in Nat /\ Cardinality(T) \in Nat
    BY <2>2, <2>3, FS_CardinalityType
  <2>5. Cardinality(R) = Cardinality(T) => R = T
    BY <2>1, <2>2, FS_Subset
  <2>6. Cardinality(R) < Cardinality(T)
    BY <2>1, <2>3, <2>4, <2>5
  <2>7. QED
    BY <2>6 DEF R, T, Rank
<1>5. \A n \in 1..m : \E i \in S : Rank(S, i) = n
  <2> DEFINE f == [i \in S |-> Rank(S, i)]
  <2>1. f \in [S -> 1..m]
    BY <1>3
  <2>2. \A i, j \in S : i # j => Rank(S, i) # Rank(S, j)
    <3> TAKE i \in S, j \in S
    <3>1. i \in Nat /\ j \in Nat /\ Rank(S, i) \in Nat /\ Rank(S, j) \in Nat
      BY <1>1, <1>2, <1>3
    <3>2. i < j \/ j < i \/ i = j
      BY <3>1
    <3>3. QED
      BY <1>4, <3>1, <3>2
  <2>3. f \in Injection(S, 1..m)
    BY <2>1, <2>2 DEF Injection, IsInjective
  <2> HIDE DEF f
  <2>4. IsFiniteSet(1..m) /\ Cardinality(1..m) = m
    BY <1>2, FS_Interval
  <2>5. f \in Surjection(S, 1..m)
    BY <2>3, <2>4, FS_Injection
  <2>6. QED
    BY <2>5 DEF Surjection, f
<1>6. QED
  BY <1>2, <1>3, <1>4, <1>5

LEMMA FirstCount ==
    ASSUME NEW N \in Nat, NEW S, S \subseteq 1..N, NEW n \in Nat
    PROVE  /\ Cardinality({j \in S : j <= n}) \in Nat
           /\ Cardinality({j \in S : j <= n}) <= Cardinality(S)
<1>1. IsFiniteSet(S)
  BY RankFacts
<1>2. {j \in S : j <= n} \subseteq S
  OBVIOUS
<1>3. QED
  BY <1>1, <1>2, FS_Subset, FS_CardinalityType

\* A number of S up to n has at most the rank that there are such numbers, and
\* one behind n has more.
LEMMA RankAtCut ==
    ASSUME NEW N \in Nat, NEW S, S \subseteq 1..N, NEW n \in Nat, NEW i \in S
    PROVE  /\ i <= n => Rank(S, i) <= Cardinality({j \in S : j <= n})
           /\ i > n => Rank(S, i) > Cardinality({j \in S : j <= n})
<1> DEFINE first == {j \in S : j <= n}
           R == {j \in S : j <= i}
<1>1. i \in Nat /\ \A j \in S : j \in Nat
  OBVIOUS
<1>2. IsFiniteSet(S)
  BY RankFacts
<1>3. first \subseteq S /\ R \subseteq S
  OBVIOUS
<1>4. i <= n => R \subseteq first
  <2> HAVE i <= n
  <2>1. \A j \in Nat : j <= i => j <= n
    BY <1>1
  <2>2. QED
    BY <1>1, <2>1
<1>5. i > n => first \subseteq R /\ i \in R /\ i \notin first
  <2> HAVE i > n
  <2>1. i <= i /\ ~(i <= n) /\ \A j \in Nat : j <= n => j <= i
    BY <1>1
  <2>2. QED
    BY <1>1, <2>1
<1>6. Rank(S, i) = Cardinality(R)
  BY DEF Rank
<1> HIDE DEF first, R
<1>7. IsFiniteSet(first) /\ IsFiniteSet(R)
  BY <1>2, <1>3, FS_Subset
<1>8. Cardinality(first) \in Nat /\ Cardinality(R) \in Nat
  BY <1>7, FS_CardinalityType
<1>9. i <= n => Cardinality(R) <= Cardinality(first)
  BY <1>4, <1>7, FS_Subset
<1>10. i > n => Cardinality(R) > Cardinality(first)
  <2> HAVE i > n
  <2>1. Cardinality(first) <= Cardinality(R) /\ (Cardinality(R) = Cardinality(first) => first = R)
    BY <1>5, <1>7, FS_Subset
  <2>2. QED
    BY <1>5, <1>8, <2>1
<1>11. QED
  BY <1>6, <1>9, <1>10 DEF first

\* A list without repetition has as many questions as places.
LEMMA PlacesCount ==
    ASSUME NEW s, Distinct(s), NEW X, X \subseteq DOMAIN s, IsFiniteSet(X)
    PROVE  Cardinality({s[i] : i \in X}) = Cardinality(X)
<1> DEFINE f == [i \in X |-> s[i]]
           Y == {s[i] : i \in X}
<1>1. f \in [X -> Y]
  OBVIOUS
<1>2. \A i, j \in X : f[i] = f[j] => i = j
  BY DEF Distinct
<1>3. \A y \in Y : \E i \in X : f[i] = y
  OBVIOUS
<1> HIDE DEF f, Y
<1>4. f \in Bijection(X, Y)
  BY <1>1, <1>2, <1>3 DEF Bijection, Injection, IsInjective, Surjection
<1>5. ExistsBijection(X, Y)
  BY <1>4 DEF ExistsBijection
<1>6. QED
  BY <1>5, FS_Bijection DEF Y

Places(s, t) == {i \in DOMAIN s : Topic[s[i]] = t}

\* How many questions of a topic an enumeration of the pool has, whole or up to n.
LEMMA TopicCounts ==
    ASSUME NEW pool, pool \subseteq Questions, NEW all \in SetToSeqs(pool), NEW t, NEW n \in Nat
    PROVE  /\ Places(all, t) \subseteq 1..Cardinality(pool)
           /\ Count(pool, t) = Cardinality(Places(all, t))
           /\ n <= Cardinality(pool) =>
                Count({all[i] : i \in 1..n}, t) = Cardinality({i \in Places(all, t) : i <= n})
<1> DEFINE N == Cardinality(pool)
           T == Places(all, t)
           F == {i \in T : i <= n}
<1>1. N \in Nat /\ IsFiniteSet(pool)
  BY CountType
<1>2. all \in [1..N -> pool] /\ Distinct(all)
  BY EnumerationFacts
<1>3. \A q \in pool : \E i \in 1..N : all[i] = q
  <2>1. all \in Injection(1..N, pool)
    BY <1>2 DEF Distinct, Injection, IsInjective
  <2>2. IsFiniteSet(1..N) /\ Cardinality(1..N) = N
    BY <1>1, FS_Interval
  <2>3. all \in Surjection(1..N, pool)
    BY <1>1, <2>1, <2>2, FS_Injection
  <2>4. QED
    BY <2>3 DEF Surjection
<1>4. T \subseteq 1..N /\ DOMAIN all = 1..N
  BY <1>2 DEF Places
<1>5. IsFiniteSet(T) /\ IsFiniteSet(F)
  <2>1. IsFiniteSet(T)
    BY <1>1, <1>4, RankFacts
  <2>2. QED
    BY <2>1, FS_Subset
<1>6. Cardinality({all[i] : i \in T}) = Cardinality(T)
  BY <1>2, <1>4, <1>5, PlacesCount
<1>7. Cardinality({all[i] : i \in F}) = Cardinality(F)
  BY <1>2, <1>4, <1>5, PlacesCount
<1>8. {q \in pool : Topic[q] = t} = {all[i] : i \in T}
  BY <1>2, <1>3, <1>4 DEF Places
<1>9. n <= N => {q \in {all[i] : i \in 1..n} : Topic[q] = t} = {all[i] : i \in F}
  <2> HAVE n <= N
  <2>1. \A i : i \in 1..n <=> i \in 1..N /\ i <= n
    BY <1>1
  <2>2. F = {i \in 1..n : Topic[all[i]] = t}
    BY <1>4, <2>1 DEF Places
  <2> HIDE DEF F
  <2>3. QED
    BY <2>2
<1>10. QED
  BY <1>4, <1>6, <1>7, <1>8, <1>9 DEF Count

\* The round of a question is its rank among those of its topic.
LEMMA RoundIsRank ==
    ASSUME NEW N \in Nat, NEW s, DOMAIN s = 1..N, NEW t, NEW i \in Places(s, t)
    PROVE  RoundOf(s, i) = Rank(Places(s, t), i)
<1>1. i \in 1..N /\ Topic[s[i]] = t
  BY DEF Places
<1>2. \A j : j \in 1..i <=> j \in 1..N /\ j <= i
  BY <1>1
<1>3. {j \in 1..i : Topic[s[j]] = Topic[s[i]]} = {j \in Places(s, t) : j <= i}
  BY <1>1, <1>2 DEF Places
<1>4. QED
  BY <1>3 DEF RoundOf, Rank

\* "Round-robin keeps a short simulation spread over as many topics as
\* possible" (interleave_by_topic): for any pool, limit and shuffles, the
\* questions drawn are as many as asked for or there are, all different, and
\* whenever one topic is two ahead of another, the other has run out.
THEOREM SamplingSpreads ==
    ASSUME NEW pool, pool \subseteq Questions, NEW limit \in Nat,
           NEW s \in InterleaveByTopic(pool, limit)
    PROVE  /\ Len(s) = Smaller(limit, Cardinality(pool))
           /\ ToSet(s) \subseteq pool /\ Cardinality(ToSet(s)) = Len(s)
           /\ SpreadOver(s, pool)
<1> DEFINE N == Cardinality(pool)
           m == Smaller(limit, N)
<1>1. PICK all \in SetToSeqs(pool) : InRounds(all, pool) /\ s = SubSeq(all, 1, m)
  BY DEF InterleaveByTopic
<1>2. N \in Nat
  BY CountType
<1>3. /\ all \in [1..N -> pool] /\ all \in Seq(Questions) /\ Len(all) = N /\ Distinct(all)
      /\ ToSet(all) \subseteq pool
  BY EnumerationFacts
<1>4. m \in 0..N
  BY <1>2, SmallerFacts
<1> HIDE DEF m
<1>5. /\ s \in Seq(Questions) /\ Len(s) = m /\ Distinct(s) /\ ToSet(s) \subseteq ToSet(all)
      /\ \A i \in 1..m : s[i] = all[i]
  BY <1>1, <1>3, <1>4, StartFacts
<1>6. \A i, j \in 1..N : i < j => RoundOf(all, i) < RoundOf(all, j) \/ RoundOf(all, i) = RoundOf(all, j)
  BY <1>1, <1>3 DEF InRounds
<1>7. ASSUME NEW n \in 1..m, NEW t \in {Topic[q] : q \in pool}, NEW u \in {Topic[q] : q \in pool},
             Count({all[i] : i \in 1..n}, t) > Count({all[i] : i \in 1..n}, u) + 1,
             Count({all[i] : i \in 1..n}, u) # Count(pool, u)
      PROVE  FALSE
  <2> DEFINE S == Places(all, t)
             T == Places(all, u)
             a == Cardinality({i \in S : i <= n})
             b == Cardinality({i \in T : i <= n})
  <2>1. n \in Nat /\ n <= N
    BY <1>2, <1>4
  <2>2. /\ S \subseteq 1..N /\ Count({all[i] : i \in 1..n}, t) = a
    BY <2>1, TopicCounts
  <2>3. /\ T \subseteq 1..N /\ Count({all[i] : i \in 1..n}, u) = b /\ Count(pool, u) = Cardinality(T)
    BY <2>1, TopicCounts
  <2> HIDE DEF S, T
  <2>4. /\ Cardinality(S) \in Nat /\ \A k \in 1..Cardinality(S) : \E i \in S : Rank(S, i) = k
    BY <1>2, <2>2, RankFacts
  <2>5. /\ Cardinality(T) \in Nat /\ \A k \in 1..Cardinality(T) : \E i \in T : Rank(T, i) = k
    BY <1>2, <2>3, RankFacts
  <2>6. a \in Nat /\ a <= Cardinality(S)
    BY <1>2, <2>1, <2>2, FirstCount
  <2>7. b \in Nat /\ b <= Cardinality(T)
    BY <1>2, <2>1, <2>3, FirstCount
  <2>8. \A i \in S : i > n => Rank(S, i) > a
    BY <1>2, <2>1, <2>2, RankAtCut
  <2>9. \A j \in T : j <= n => Rank(T, j) <= b
    BY <1>2, <2>1, <2>3, RankAtCut
  <2> HIDE DEF a, b
  <2>10. a > b + 1 /\ b # Cardinality(T)
    BY <1>7, <2>2, <2>3
  <2>11. a \in 1..Cardinality(S) /\ b + 1 \in 1..Cardinality(T)
    BY <2>4, <2>5, <2>6, <2>7, <2>10
  <2>12. PICK i \in S : Rank(S, i) = a
    BY <2>4, <2>11
  <2>13. PICK j \in T : Rank(T, j) = b + 1
    BY <2>5, <2>11
  <2>14. i \in 1..N /\ j \in 1..N /\ i \in Nat /\ j \in Nat
    BY <2>2, <2>3, <2>12, <2>13
  <2>15. i <= n
    BY <2>1, <2>6, <2>8, <2>12, <2>14
  <2>16. j > n
    BY <2>1, <2>7, <2>9, <2>13, <2>14
  <2>17. i < j
    BY <2>1, <2>14, <2>15, <2>16
  <2>18. RoundOf(all, i) = a
    BY <1>2, <1>3, <2>12, RoundIsRank DEF S
  <2>19. RoundOf(all, j) = b + 1
    BY <1>2, <1>3, <2>13, RoundIsRank DEF T
  <2>20. a < b + 1 \/ a = b + 1
    BY <1>6, <2>14, <2>17, <2>18, <2>19
  <2>21. QED
    BY <2>6, <2>7, <2>10, <2>20
<1>8. SpreadOver(s, pool)
  <2> SUFFICES ASSUME NEW n \in DOMAIN s PROVE Even({s[i] : i \in 1..n}, pool)
    BY DEF SpreadOver
  <2>1. n \in 1..m
    BY <1>5, LenProperties
  <2>2. \A i \in 1..n : i \in 1..m
    BY <1>2, <1>4, <2>1
  <2>3. {s[i] : i \in 1..n} = {all[i] : i \in 1..n}
    BY <1>5, <2>2
  <2>4. QED
    BY <1>7, <2>1, <2>3 DEF Even
<1>9. Cardinality(ToSet(s)) = Len(s)
  BY <1>5, DistinctCounts
<1>10. QED
  BY <1>3, <1>5, <1>8, <1>9 DEF m

\* What is left of a list has its order and repeats nothing: the n-th question
\* kept exists, because the places of those kept are as many as their ranks.
LEMMA KeptFacts ==
    ASSUME NEW qs \in Seq(Questions), Distinct(qs), NEW S
    PROVE  Kept(qs, S) \in Seq(Questions) /\ Distinct(Kept(qs, S))
<1> DEFINE kept == {i \in DOMAIN qs : qs[i] \in S}
           m == Cardinality(kept)
           nth(n) == CHOOSE i \in kept : Rank(kept, i) = n
<1>1. DOMAIN qs = 1..Len(qs) /\ Len(qs) \in Nat
  BY LenProperties
<1>2. kept \subseteq 1..Len(qs)
  BY <1>1
<1>3. Kept(qs, S) = [n \in 1..m |-> qs[nth(n)]]
  BY DEF Kept, Rank
<1> HIDE DEF kept
<1>4. m \in Nat /\ \A n \in 1..m : \E i \in kept : Rank(kept, i) = n
  BY <1>1, <1>2, RankFacts
<1>5. \A n \in 1..m : nth(n) \in kept /\ Rank(kept, nth(n)) = n
  BY <1>4
<1> HIDE DEF nth
<1>6. \A n \in 1..m : nth(n) \in DOMAIN qs /\ qs[nth(n)] \in Questions
  BY <1>1, <1>2, <1>5, ElementOfSeq
<1>7. Kept(qs, S) \in [1..m -> Questions]
  BY <1>3, <1>6
<1>8. Kept(qs, S) \in Seq(Questions)
  BY <1>4, <1>7, IsASeq
<1>9. \A i, j \in 1..m : qs[nth(i)] = qs[nth(j)] => i = j
  <2> TAKE i, j \in 1..m
  <2> HAVE qs[nth(i)] = qs[nth(j)]
  <2>1. nth(i) = nth(j)
    BY <1>6 DEF Distinct
  <2>2. QED
    BY <1>5, <2>1
<1>10. Distinct(Kept(qs, S))
  BY <1>3, <1>9 DEF Distinct
<1>11. QED
  BY <1>8, <1>10

-----------------------------------------------------------------------------
(* What the values are: everything a handler uses after its await is still *)
(* there when the reply comes.                                             *)

SimsFit(table) ==
    /\ table \in Seq(Simulation) /\ Len(table) <= MaxSims
    /\ \A id \in DOMAIN table : Distinct(table[id].questions)

\* A simulation has questions, and a row among the n that are stored.
SessionFits(s, n) ==
    /\ s \in Session
    /\ s.index = 0 \/ s.index < Len(s.questions)
    /\ s.sim \in 0..n
    /\ s.kind = "simulation" => s.questions # <<>> /\ s.sim # 0

CacheFits(c) ==
    c \in [Questions -> [at : {"none", "wait", "has"}, key : Keys, waiters : Seq(Options)]]

\* The address is the one the session has, and names a stored simulation.
UrlFits(u, s, n) ==
    /\ u = NoUrl \/ u \in [sim : 1..n, q : Nat \ {0}]
    /\ s.kind # "home" => u = UrlOf(s)

Request == [op : {"save", "regenerate", "discard", "rescore", "orphan", "next", "start", "retry",
                  "open"},
            question : Questions \cup {NoQuestion}, option : Keys, selected : Keys,
            number : Nat, at : Nat, mode : {"", "resume", "results", "at"},
            ids : SUBSET Questions]

\* Every request in flight carries what its handler is going to use.
OpFits(op, n) ==
    /\ op \in Request
    /\ op.op \in {"save", "regenerate", "discard", "rescore", "orphan"} => op.question \in Questions
    /\ op.op \in {"save", "rescore"} => op.option # NoOption
    /\ op.op \in {"rescore", "orphan"} => op.selected # NoOption
    /\ op.op = "start" => op.number \in DOMAIN Offers
    /\ op.op = "open" => op.number \in 1..n

PendingFits(p, n) == \A op \in BagToSet(p) : OpFits(op, n)

PlayFits(s, c, u, p, n) ==
    SessionFits(s, n) /\ CacheFits(c) /\ UrlFits(u, s, n) /\ PendingFits(p, n)

TypeInv ==
    /\ bank \in [Questions -> {"live", "discarded"}]
    /\ key \in [Questions -> Keys]
    /\ SimsFit(sims)
    /\ PlayFits(session, cache, url, pending, Len(sims))
    /\ sent \in [Questions -> Nat] /\ flagged \subseteq Questions
    /\ begun \in 0..MaxSessions /\ events \in 0..MaxEvents /\ haste \in BOOLEAN

LEMMA FitsGrow ==
    ASSUME NEW n \in Nat, NEW m \in Nat, n <= m, NEW s, NEW c, NEW u, NEW p,
           PlayFits(s, c, u, p, n)
    PROVE  PlayFits(s, c, u, p, m)
<1>1. SessionFits(s, m)
  BY DEF PlayFits, SessionFits
<1>2. UrlFits(u, s, m)
  BY DEF PlayFits, UrlFits
<1>3. PendingFits(p, m)
  BY DEF PlayFits, PendingFits, OpFits
<1>4. QED
  BY <1>1, <1>2, <1>3 DEF PlayFits

\* The old invariants of the model are part of it.
LEMMA TypeInvGivesTypeOK == TypeInv => TypeOK
<1> SUFFICES ASSUME TypeInv
             PROVE  TypeOK
  OBVIOUS
<1>1. Len(sims) \in Nat /\ Len(sims) <= MaxSims /\ MaxSims \in Nat
  BY SimulationsAssumption, LenProperties DEF TypeInv, SimsFit
<1>2. url \in [sim : 0..MaxSims, q : Nat]
  <2>1. url = NoUrl \/ url \in [sim : 1..Len(sims), q : Nat \ {0}]
    BY DEF TypeInv, PlayFits, UrlFits
  <2>2. NoUrl \in [sim : 0..MaxSims, q : Nat]
    BY <1>1 DEF NoUrl
  <2>3. QED
    BY <1>1, <2>1, <2>2
<1>3. QED
  BY <1>1, <1>2 DEF TypeInv, SimsFit, PlayFits, SessionFits, CacheFits, TypeOK

LEMMA TypeInvGivesUrl == TypeInv => UrlTellsSession
<1> SUFFICES ASSUME TypeInv, session.kind # "home"
             PROVE  url = UrlOf(session) /\ (url # NoUrl => Current(session) # {})
  BY DEF UrlTellsSession
<1>1. url = UrlOf(session) /\ SessionFits(session, Len(sims))
  BY DEF TypeInv, PlayFits, UrlFits
<1>2. url # NoUrl => session.kind = "simulation"
  BY <1>1 DEF UrlOf
<1>3. session.kind = "simulation" => session.index < Len(session.questions)
  <2>1. session.questions \in Seq(Questions) /\ session.index \in Nat
    BY <1>1 DEF SessionFits, Session
  <2>2. session.questions # <<>> => Len(session.questions) \in Nat \ {0}
    BY <2>1, EmptySeq
  <2>3. QED
    BY <1>1, <2>1, <2>2 DEF SessionFits
<1>4. QED
  BY <1>1, <1>2, <1>3 DEF Current

-----------------------------------------------------------------------------
(* Requests in flight.                                                     *)

LEMMA SumFits ==
    ASSUME NEW a, NEW b, NEW n, PendingFits(a, n), PendingFits(b, n)
    PROVE  PendingFits(a (+) b, n)
  BY DEF PendingFits, (+), BagToSet

LEMMA OneFits ==
    ASSUME NEW op, NEW n, OpFits(op, n)
    PROVE  PendingFits(SetToBag({op}), n)
  BY DEF PendingFits, SetToBag, BagToSet

LEMMA NoneFits == \A n : PendingFits(EmptyBag, n)
  BY DEF PendingFits, EmptyBag, SetToBag, BagToSet

LEMMA RestFits ==
    ASSUME NEW n, PendingFits(pending, n), NEW op
    PROVE  PendingFits(Rest(op), n)
<1>1. BagToSet(Rest(op)) \subseteq BagToSet(pending)
  BY DEF Rest, (-), BagToSet
<1>2. QED
  BY <1>1 DEF PendingFits

\* A request that carries nothing but what is set afterwards.
LEMMA OpType ==
    ASSUME NEW kind \in {"save", "regenerate", "discard", "rescore", "orphan", "next", "start",
                         "retry", "open"}
    PROVE  Op(kind) \in Request /\ Op(kind).op = kind
  BY DEF Op, Request, Keys

LEMMA OrphansFit ==
    ASSUME NEW n, CacheFits(cache), NEW S \in SUBSET Questions
    PROVE  PendingFits(Orphans(S), n)
<1> SUFFICES ASSUME NEW op \in BagToSet(Orphans(S))
             PROVE  OpFits(op, n)
  BY DEF PendingFits
<1>1. op \in UNION {{Orphan(q, o) : o \in ToSet(cache[q].waiters)} : q \in S}
  BY DEF Orphans, BagToSet
<1>2. PICK q \in S : \E o \in ToSet(cache[q].waiters) : op = Orphan(q, o)
  BY <1>1
<1>3. PICK o \in ToSet(cache[q].waiters) : op = Orphan(q, o)
  BY <1>2
<1>4. q \in Questions /\ cache[q].key \in Keys /\ cache[q].waiters \in Seq(Options)
  BY DEF CacheFits
<1>5. o \in Options /\ o # NoOption
  <2>1. PICK i \in DOMAIN cache[q].waiters : o = cache[q].waiters[i]
    BY <1>3 DEF ToSet
  <2>2. i \in 1..Len(cache[q].waiters)
    BY <1>4, <2>1, LenProperties
  <2>3. o \in Options
    BY <1>4, <2>1, <2>2, ElementOfSeq
  <2>4. QED
    BY <2>3, SimulationsAssumption
<1>6. op = [Op("orphan") EXCEPT !.question = q, !.option = cache[q].key, !.selected = o]
  BY <1>3 DEF Orphan
<1>7. QED
  BY <1>4, <1>5, <1>6 DEF OpFits, Op, Request, Keys

-----------------------------------------------------------------------------
(* Sessions.                                                               *)

LEMMA NoAnswerType == NoAnswer \in Answer \cup {NoAnswer}
  OBVIOUS

LEMMA HomeFits ==
    ASSUME NEW n \in Nat
    PROVE  SessionFits(Home, n) /\ Home.kind = "home"
<1>1. <<>> \in Seq(Questions)
  BY EmptySeq
<1>2. [q \in Questions |-> NoAnswer] \in [Questions -> Answer \cup {NoAnswer}]
  OBVIOUS
<1>3. MaxSessions \in Nat /\ MaxSims \in Nat /\ ReviewLength \in Nat
  BY SimulationsAssumption, PlayerAssumption
<1>4. Home \in Session
  BY <1>1, <1>2, <1>3 DEF Home, Session
<1>5. QED
  BY <1>4 DEF SessionFits, Home

LEMMA NewSessionFits ==
    ASSUME begun \in 0..MaxSessions, MayEnter, NEW n \in 0..MaxSims,
           NEW kind \in {"simulation", "review"}, NEW id \in 0..n, NEW qs \in Seq(Questions),
           kind = "simulation" => qs # <<>> /\ id # 0
    PROVE  SessionFits(NewSession(kind, id, qs), n)
<1>1. MaxSessions \in Nat /\ MaxSims \in Nat
  BY SimulationsAssumption, PlayerAssumption
<1>2. begun + 1 \in 0..MaxSessions /\ id \in 0..MaxSims
  BY <1>1 DEF MayEnter
<1>3. Home \in Session /\ Home.index = 0
  BY <1>1, HomeFits DEF SessionFits, Home
<1> DEFINE s == NewSession(kind, id, qs)
<1>4. s = [Home EXCEPT !.kind = kind, !.serial = begun + 1, !.sim = id, !.questions = qs]
  BY DEF NewSession
<1>5. s \in Session /\ s.index = 0 /\ s.sim = id /\ s.kind = kind /\ s.questions = qs
  BY <1>2, <1>3, <1>4 DEF Session
<1>6. QED
  BY <1>5 DEF SessionFits

\* Storing or resetting an answer.
LEMMA AnswerFits ==
    ASSUME NEW n, NEW s, SessionFits(s, n), NEW q \in Questions, NEW a \in Answer \cup {NoAnswer}
    PROVE  /\ SessionFits([s EXCEPT !.answers[q] = a], n)
           /\ UrlOf([s EXCEPT !.answers[q] = a]) = UrlOf(s)
           /\ [s EXCEPT !.answers[q] = a].kind = s.kind
  BY DEF SessionFits, Session, UrlOf

LEMMA FetchedFits ==
    ASSUME NEW c, CacheFits(c), NEW S, key \in [Questions -> Keys]
    PROVE  CacheFits(Fetched(c, S))
<1>1. <<>> \in Seq(Options)
  BY EmptySeq
<1>2. \A q \in Questions : [at |-> "wait", key |-> key[q], waiters |-> <<>>]
                              \in [at : {"none", "wait", "has"}, key : Keys, waiters : Seq(Options)]
  BY <1>1
<1>3. QED
  BY <1>2 DEF CacheFits, Fetched

LEMMA EntryFits ==
    ASSUME NEW c, CacheFits(c), NEW q \in Questions, NEW k \in Keys
    PROVE  CacheFits([c EXCEPT ![q] = Entry(k)])
<1>1. <<>> \in Seq(Options)
  BY EmptySeq
<1>2. QED
  BY <1>1 DEF CacheFits, Entry

LEMMA EmptyCacheFits == CacheFits(EmptyCache)
<1>1. <<>> \in Seq(Options)
  BY EmptySeq
<1>2. QED
  BY <1>1 DEF CacheFits, EmptyCache, NoEntry, Keys

LEMMA UrlOfFits ==
    ASSUME NEW n \in Nat, NEW s, SessionFits(s, n)
    PROVE  UrlOf(s) = NoUrl \/ UrlOf(s) \in [sim : 1..n, q : Nat \ {0}]
<1>1. CASE s.kind = "simulation" /\ ~s.finished
  <2>1. s.sim \in 1..n /\ s.index + 1 \in Nat \ {0}
    BY <1>1 DEF SessionFits, Session
  <2>2. QED
    BY <1>1, <2>1 DEF UrlOf
<1>2. CASE ~(s.kind = "simulation" /\ ~s.finished)
  BY <1>2 DEF UrlOf
<1>3. QED
  BY <1>1, <1>2

LEMMA RenderFits ==
    ASSUME NEW n \in Nat, NEW s, SessionFits(s, n), NEW c, CacheFits(c),
           key \in [Questions -> Keys], UrlFits(url, session, n), Render(s, c)
    PROVE  /\ session' = s /\ SessionFits(session', n) /\ CacheFits(cache')
           /\ UrlFits(url', session', n)
<1>1. session' = s /\ cache' = Fetched(c, Shown(s))
  BY DEF Render
<1>2. CacheFits(cache')
  BY <1>1, FetchedFits
<1>3. url' = NoUrl \/ url' \in [sim : 1..n, q : Nat \ {0}]
  BY UrlOfFits DEF Render, UrlFits
<1>4. s.kind # "home" => url' = UrlOf(s)
  BY DEF Render
<1>5. UrlFits(url', session', n)
  BY <1>1, <1>3, <1>4 DEF UrlFits
<1>6. QED
  BY <1>1, <1>2, <1>5

-----------------------------------------------------------------------------
(* Entering and leaving a session, the next question of a review.          *)

LEMMA EnterFits ==
    ASSUME NEW n \in 0..MaxSims, PlayFits(session, cache, url, pending, n),
           key \in [Questions -> Keys], begun \in 0..MaxSessions,
           NEW s, SessionFits(s, n), NEW ops, PendingFits(ops, n), Enter(s, ops)
    PROVE  /\ PlayFits(session', cache', url', pending', n)
           /\ sent' \in [Questions -> Nat] /\ flagged' \subseteq Questions
           /\ begun' \in 0..MaxSessions
<1>1. n \in Nat /\ MaxSessions \in Nat
  BY SimulationsAssumption, PlayerAssumption
<1>2. Render(s, EmptyCache) /\ pending' = ops (+) Orphans(Questions)
  BY DEF Enter
<1>3. SessionFits(session', n) /\ CacheFits(cache') /\ UrlFits(url', session', n)
  BY <1>1, <1>2, RenderFits, EmptyCacheFits DEF PlayFits
<1>4. PendingFits(pending', n)
  BY <1>2, OrphansFit, SumFits DEF PlayFits
<1>5. begun' \in 0..MaxSessions
  BY <1>1 DEF Enter, MayEnter
<1>6. sent' \in [Questions -> Nat] /\ flagged' \subseteq Questions
  BY DEF Enter
<1>7. QED
  BY <1>3, <1>4, <1>5, <1>6 DEF PlayFits

LEMMA ExitFits ==
    ASSUME NEW n \in Nat, PlayFits(session, cache, url, pending, n),
           NEW ops, PendingFits(ops, n), Exit(ops)
    PROVE  /\ PlayFits(session', cache', url', pending', n)
           /\ sent' \in [Questions -> Nat] /\ flagged' \subseteq Questions
<1>1. PendingFits(pending', n)
  BY OrphansFit, SumFits DEF PlayFits, Exit
<1>2. SessionFits(session', n) /\ session'.kind = "home"
  BY HomeFits DEF Exit
<1>3. UrlFits(url', session', n)
  BY <1>2 DEF Exit, UrlFits
<1>4. QED
  BY <1>1, <1>2, <1>3, EmptyCacheFits DEF PlayFits, Exit

LEMMA NextOpFits ==
    ASSUME NEW n, NEW m, NEW s, SessionFits(s, m)
    PROVE  OpFits(NextOp(s), n) /\ NextOp(s).op = "next"
<1>1. s.serial \in Nat /\ s.seen \subseteq Questions
  BY PlayerAssumption DEF SessionFits, Session
<1>2. NextOp(s) \in Request /\ NextOp(s).op = "next"
  BY <1>1 DEF NextOp, Op, Request, Keys
<1>3. QED
  BY <1>2 DEF OpFits

LEMMA LoadingType ==
    ASSUME NEW n, NEW s, SessionFits(s, n), NEW b \in BOOLEAN
    PROVE  /\ SessionFits([s EXCEPT !.loading = b], n)
           /\ SessionFits([s EXCEPT !.finished = b], n)
  BY DEF SessionFits, Session

\* A session at another position, with another limit.
LEMMA LoadNextFits ==
    ASSUME NEW n \in Nat, PlayFits(session, cache, url, pending, n),
           key \in [Questions -> Keys],
           NEW s, SessionFits(s, n), UrlFits(url, s, n),
           NEW ops, PendingFits(ops, n), LoadNext(s, ops)
    PROVE  PlayFits(session', cache', url', pending', n)
<1>1. CASE s.loading
  BY <1>1 DEF LoadNext, PlayFits
<1>2. CASE ~s.loading /\ Len(s.questions) >= s.limit
  <2>1. Render([s EXCEPT !.finished = TRUE], cache) /\ pending' = ops
    BY <1>2 DEF LoadNext, Finish
  <2>2. SessionFits([s EXCEPT !.finished = TRUE], n)
    BY LoadingType
  <2>3. SessionFits(session', n) /\ CacheFits(cache') /\ UrlFits(url', session', n)
    BY <2>1, <2>2, RenderFits DEF PlayFits
  <2>4. QED
    BY <2>1, <2>3 DEF PlayFits
<1>3. CASE ~s.loading /\ ~(Len(s.questions) >= s.limit)
  <2>1. /\ Render([s EXCEPT !.loading = TRUE], cache)
        /\ pending' = ops (+) SetToBag({NextOp(s)})
    BY <1>3 DEF LoadNext
  <2>2. SessionFits([s EXCEPT !.loading = TRUE], n)
    BY LoadingType
  <2>3. SessionFits(session', n) /\ CacheFits(cache') /\ UrlFits(url', session', n)
    BY <2>1, <2>2, RenderFits DEF PlayFits
  <2>4. PendingFits(pending', n)
    BY <2>1, NextOpFits, OneFits, SumFits
  <2>5. QED
    BY <2>3, <2>4 DEF PlayFits
<1>4. QED
  BY <1>1, <1>2, <1>3

-----------------------------------------------------------------------------
(* Answers and attempts.                                                   *)

WorldFits(w, n) ==
    /\ w \in [session : Session, sims : Seq(Simulation), sent : [Questions -> Nat]]
    /\ SessionFits(w.session, n)
    /\ SimsFit(w.sims) /\ Len(w.sims) = n

LEMMA RowFits ==
    ASSUME NEW r \in Simulation, NEW q \in Questions, NEW a \in Attempt
    PROVE  LET row == [r EXCEPT !.latest[q] = a, !.count = @ + 1]
           IN  row \in Simulation /\ row.questions = r.questions
<1> DEFINE latest == [r.latest EXCEPT ![q] = a]
           row == [r EXCEPT !.latest[q] = a, !.count = @ + 1]
<1>1. /\ r.config \in Requests /\ r.questions \in Seq(Questions)
      /\ r.latest \in [Questions -> Attempt \cup {NoAttempt}]
      /\ r.count \in Nat /\ r.gone \in BOOLEAN
  BY DEF Simulation
<1>2. latest \in [Questions -> Attempt \cup {NoAttempt}]
  BY <1>1
<1>3. row = [r EXCEPT !.latest = latest, !.count = r.count + 1] /\ r.count + 1 \in Nat
  BY <1>1 DEF Simulation
<1> HIDE DEF row, latest
<1>4. row \in Simulation /\ row.questions = r.questions
  BY <1>1, <1>2, <1>3 DEF Simulation
<1>5. QED
  BY <1>4 DEF row

LEMMA WithAttemptFits ==
    ASSUME NEW t, SimsFit(t), NEW id \in 0..Len(t), NEW q \in Questions, NEW a \in Attempt
    PROVE  SimsFit(WithAttempt(t, id, q, a)) /\ Len(WithAttempt(t, id, q, a)) = Len(t)
<1>1. t \in Seq(Simulation) /\ DOMAIN t = 1..Len(t) /\ Len(t) \in Nat
  BY LenProperties DEF SimsFit
<1>2. CASE id = 0 \/ t[id].gone
  BY <1>2 DEF WithAttempt
<1>3. CASE ~(id = 0 \/ t[id].gone)
  <2> DEFINE row == [t[id] EXCEPT !.latest[q] = a, !.count = @ + 1]
             u == WithAttempt(t, id, q, a)
  <2>1. id \in 1..Len(t) /\ t[id] \in Simulation
    BY <1>1, <1>3, ElementOfSeq
  <2>2. row \in Simulation /\ row.questions = t[id].questions
    BY <2>1, RowFits
  <2>3. u = [t EXCEPT ![id] = row]
    BY <1>1, <1>3, <2>1 DEF WithAttempt
  <2> HIDE DEF row, u
  <2>4. /\ u \in Seq(Simulation) /\ Len(u) = Len(t)
        /\ \A j \in 1..Len(t) : u[j] = IF j = id THEN row ELSE t[j]
    BY <1>1, <2>1, <2>2, <2>3, ExceptSeq
  <2>5. \A j \in 1..Len(t) : u[j].questions = t[j].questions
    BY <2>2, <2>4
  <2>6. DOMAIN u = 1..Len(t)
    BY <2>4, LenProperties
  <2>7. SimsFit(u)
    BY <1>1, <2>4, <2>5, <2>6 DEF SimsFit
  <2>8. QED
    BY <2>4, <2>7 DEF u
<1>4. QED
  BY <1>2, <1>3

LEMMA SentFits ==
    ASSUME NEW n \in Nat, NEW w, WorldFits(w, n), NEW q \in Questions, NEW option \in Keys,
           NEW score \in {"right", "wrong"}, NEW lost \in BOOLEAN
    PROVE  /\ WorldFits(Sent(w, q, option, score, lost), n)
           /\ Sent(w, q, option, score, lost).session = w.session
           /\ Sent(w, q, option, score, lost).sent = [w.sent EXCEPT ![q] = @ + 1]
<1> DEFINE a == [selected |-> option, score |-> score]
           t == IF lost THEN w.sims ELSE WithAttempt(w.sims, w.session.sim, q, a)
           x == Sent(w, q, option, score, lost)
<1>1. a \in Attempt
  BY DEF Attempt, Keys
<1>2. w.session.sim \in 0..Len(w.sims)
  BY DEF WorldFits, SessionFits
<1>3. SimsFit(t) /\ Len(t) = n
  BY <1>1, <1>2, WithAttemptFits DEF WorldFits
<1>4. x = [w EXCEPT !.sent = [w.sent EXCEPT ![q] = @ + 1], !.sims = t]
  BY DEF Sent, WorldFits
<1>5. [w.sent EXCEPT ![q] = @ + 1] \in [Questions -> Nat]
  BY DEF WorldFits
<1>6. x = [session |-> w.session, sims |-> t, sent |-> [w.sent EXCEPT ![q] = @ + 1]]
  BY <1>4 DEF WorldFits
<1> HIDE DEF a, t, x
<1>7. WorldFits(x, n) /\ x.session = w.session /\ x.sent = [w.sent EXCEPT ![q] = @ + 1]
  BY <1>3, <1>5, <1>6 DEF WorldFits, SimsFit
<1>8. QED
  BY <1>7 DEF x

LEMMA ScoreType ==
    ASSUME NEW option \in Keys, NEW k \in Keys
    PROVE  /\ ScoreOf(option, k) \in {"right", "wrong", "none"}
           /\ k # NoOption => ScoreOf(option, k) \in {"right", "wrong"}
           /\ k = NoOption => ScoreOf(option, k) = "none"
  BY DEF ScoreOf

\* The same world with another session.
LEMMA WithSession ==
    ASSUME NEW n, NEW w, WorldFits(w, n), NEW s, SessionFits(s, n)
    PROVE  /\ WorldFits([w EXCEPT !.session = s], n)
           /\ [w EXCEPT !.session = s].session = s
           /\ [w EXCEPT !.session = s].sent = w.sent
           /\ [w EXCEPT !.session = s].sims = w.sims
  BY DEF WorldFits, SessionFits

\* What marking an answer does: nothing without a session, otherwise the
\* answer is scored and, if there is a key, one attempt is sent.
LEMMA MarkedFits ==
    ASSUME NEW n \in Nat, NEW w, WorldFits(w, n), NEW q \in Questions, NEW option \in Options,
           NEW k \in Keys, NEW lost \in BOOLEAN
    PROVE  LET x == Marked(w, q, option, k, lost)
               a == [selected |-> option, score |-> ScoreOf(option, k), assessed |-> FALSE]
           IN  /\ WorldFits(x, n)
               /\ w.session.kind = "home" => x = w
               /\ w.session.kind # "home" =>
                      /\ x.session = [w.session EXCEPT !.answers[q] = a]
                      /\ x.sent = IF k = NoOption THEN w.sent ELSE [w.sent EXCEPT ![q] = @ + 1]
<1> DEFINE score == ScoreOf(option, k)
           a == [selected |-> option, score |-> score, assessed |-> FALSE]
           s == [w.session EXCEPT !.answers[q] = a]
           marked == [w EXCEPT !.session.answers[q] = a]
           x == Marked(w, q, option, k, lost)
<1>1. option \in Keys
  BY DEF Keys
<1>2. a \in Answer
  BY <1>1, ScoreType DEF Answer
<1>3. marked = [w EXCEPT !.session = s]
  BY DEF WorldFits
<1>4. x = IF w.session.kind = "home" THEN w
          ELSE IF k = NoOption THEN marked ELSE Sent(marked, q, option, score, lost)
  BY DEF Marked
<1> HIDE DEF x, marked, s
<1>5. SessionFits(s, n)
  BY <1>2, AnswerFits DEF WorldFits, s
<1>6. WorldFits(marked, n) /\ marked.session = s /\ marked.sent = w.sent
  BY <1>3, <1>5, WithSession
<1>7. k # NoOption => /\ WorldFits(Sent(marked, q, option, score, lost), n)
                      /\ Sent(marked, q, option, score, lost).session = s
                      /\ Sent(marked, q, option, score, lost).sent = [w.sent EXCEPT ![q] = @ + 1]
  <2> SUFFICES ASSUME k # NoOption
               PROVE  /\ WorldFits(Sent(marked, q, option, score, lost), n)
                      /\ Sent(marked, q, option, score, lost).session = s
                      /\ Sent(marked, q, option, score, lost).sent = [w.sent EXCEPT ![q] = @ + 1]
    OBVIOUS
  <2>1. score \in {"right", "wrong"}
    BY <1>1, ScoreType
  <2> HIDE DEF score
  <2>2. QED
    BY <1>1, <1>6, <2>1, SentFits
<1> HIDE DEF score
<1>8. WorldFits(x, n)
  BY <1>4, <1>6, <1>7
<1>9. w.session.kind = "home" => x = w
  BY <1>4
<1>10. w.session.kind # "home" =>
          /\ x.session = s
          /\ x.sent = IF k = NoOption THEN w.sent ELSE [w.sent EXCEPT ![q] = @ + 1]
  BY <1>4, <1>6, <1>7
<1>11. QED
  BY <1>8, <1>9, <1>10 DEF x, s, score

LEMMA WorldFitsNow ==
    ASSUME TypeInv
    PROVE  WorldFits(World, Len(sims)) /\ Len(sims) \in Nat /\ Len(sims) \in 0..MaxSims
           /\ World.session = session /\ World.sims = sims /\ World.sent = sent
<1>1. sims \in Seq(Simulation) /\ Len(sims) <= MaxSims /\ MaxSims \in Nat
  BY SimulationsAssumption DEF TypeInv, SimsFit
<1>2. Len(sims) \in Nat
  BY <1>1, LenProperties
<1>3. QED
  BY <1>1, <1>2 DEF TypeInv, PlayFits, SessionFits, World, WorldFits

\* The recursive function of `AllMarked` exists: a number for which it did not
\* would have a least one, and one step more can always be taken.
LEMMA MarkedExists ==
    ASSUME NEW q, NEW options, NEW k, NEW lost, NEW l \in Nat
    PROVE  \E f : f = [n \in 0..l |-> IF n = 0 THEN World
                                      ELSE Marked(f[n - 1], q, options[n], k, lost)]
<1> DEFINE Fails == {m \in Nat : ~\E f : f = [n \in 0..m |-> IF n = 0 THEN World
                                      ELSE Marked(f[n - 1], q, options[n], k, lost)]}
<1> SUFFICES ASSUME Fails # {}
             PROVE  FALSE
  OBVIOUS
<1>1. PICK m \in Fails : \A j \in Fails : m <= j
  BY LeastNumber
<1>2. m # 0
  <2> SUFFICES ASSUME m = 0
               PROVE  FALSE
    OBVIOUS
  <2> DEFINE f == [n \in 0..0 |-> World]
  <2>1. f = [n \in 0..0 |-> IF n = 0 THEN World ELSE Marked(f[n - 1], q, options[n], k, lost)]
    OBVIOUS
  <2>2. QED
    BY <2>1
<1>3. m - 1 \in Nat /\ m - 1 \notin Fails
  BY <1>1, <1>2
<1>4. PICK f : f = [n \in 0..(m - 1) |-> IF n = 0 THEN World
                                         ELSE Marked(f[n - 1], q, options[n], k, lost)]
  BY <1>3
<1> DEFINE g == [n \in 0..m |-> IF n = m THEN Marked(f[m - 1], q, options[m], k, lost) ELSE f[n]]
<1>5. \A n \in 0..m : g[n] = IF n = 0 THEN World ELSE Marked(g[n - 1], q, options[n], k, lost)
  <2> TAKE n \in 0..m
  <2>1. CASE n = m
    <3>1. m - 1 \in 0..m /\ m - 1 # m
      BY <1>3
    <3>2. g[m - 1] = f[m - 1]
      BY <3>1
    <3>3. QED
      BY <1>2, <2>1, <3>2
  <2>2. CASE n # m
    <3>1. n \in 0..(m - 1)
      BY <1>3, <2>2
    <3>2. f[n] = IF n = 0 THEN World ELSE Marked(f[n - 1], q, options[n], k, lost)
      BY <1>4, <3>1
    <3>3. n # 0 => n - 1 \in 0..m /\ n - 1 # m
      BY <1>3, <3>1
    <3>4. n # 0 => g[n - 1] = f[n - 1]
      BY <3>3
    <3>5. g[n] = f[n]
      BY <2>2
    <3> HIDE DEF g
    <3>6. QED
      BY <3>2, <3>4, <3>5
  <2>3. QED
    BY <2>1, <2>2
<1>6. g = [n \in 0..m |-> g[n]]
  OBVIOUS
<1> HIDE DEF g
<1>7. g = [n \in 0..m |-> IF n = 0 THEN World ELSE Marked(g[n - 1], q, options[n], k, lost)]
  BY <1>5, <1>6
<1>8. QED
  BY <1>1, <1>7

LEMMA AllMarkedSteps ==
    ASSUME NEW q, NEW options, NEW k, NEW lost, Len(options) \in Nat
    PROVE  \E f : /\ f[0] = World
                  /\ \A n \in 1..Len(options) : f[n] = Marked(f[n - 1], q, options[n], k, lost)
                  /\ AllMarked(q, options, k, lost) = f[Len(options)]
<1> DEFINE f == CHOOSE g : g = [n \in 0..Len(options) |->
                    IF n = 0 THEN World ELSE Marked(g[n - 1], q, options[n], k, lost)]
<1>1. f = [n \in 0..Len(options) |->
               IF n = 0 THEN World ELSE Marked(f[n - 1], q, options[n], k, lost)]
  BY MarkedExists
<1>2. AllMarked(q, options, k, lost) = f[Len(options)]
  BY DEF AllMarked
<1> HIDE DEF f
<1>3. f[0] = World
  BY <1>1
<1>4. \A n \in 1..Len(options) : f[n] = Marked(f[n - 1], q, options[n], k, lost)
  BY <1>1
<1>5. QED
  BY <1>2, <1>3, <1>4

LEMMA AllMarkedFits ==
    ASSUME TypeInv, NEW q \in Questions, NEW options \in Seq(Options), NEW k \in Keys,
           NEW lost \in BOOLEAN
    PROVE  WorldFits(AllMarked(q, options, k, lost), Len(sims))
<1>1. Len(options) \in Nat /\ WorldFits(World, Len(sims)) /\ Len(sims) \in Nat
  BY LenProperties, WorldFitsNow
<1>2. PICK f : /\ f[0] = World
               /\ \A n \in 1..Len(options) : f[n] = Marked(f[n - 1], q, options[n], k, lost)
               /\ AllMarked(q, options, k, lost) = f[Len(options)]
  BY <1>1, AllMarkedSteps
<1> DEFINE Fails == {n \in 0..Len(options) : ~WorldFits(f[n], Len(sims))}
<1>3. ASSUME Fails # {} PROVE FALSE
  <2>1. PICK m \in Fails : \A j \in Fails : m <= j
    <3>1. Fails \subseteq Nat
      OBVIOUS
    <3> HIDE DEF Fails
    <3>2. QED
      BY <1>3, <3>1, LeastNumber
  <2>2. m \in 1..Len(options)
    BY <1>1, <1>2
  <2>3. m - 1 \in 0..Len(options) /\ ~(m <= m - 1)
    BY <1>1, <2>2
  <2>4. m - 1 \notin Fails
    BY <2>1, <2>3
  <2>5. WorldFits(f[m - 1], Len(sims))
    BY <2>3, <2>4
  <2>6. options[m] \in Options
    BY <2>2, ElementOfSeq
  <2>7. WorldFits(f[m], Len(sims))
    <3>1. WorldFits(Marked(f[m - 1], q, options[m], k, lost), Len(sims))
      BY <1>1, <2>5, <2>6, MarkedFits
    <3>2. QED
      BY <1>2, <2>2, <3>1
  <2>8. QED
    BY <2>7
<1>4. Len(options) \in 0..Len(options)
  BY <1>1
<1>5. QED
  BY <1>2, <1>3, <1>4

\* x is the world in which the answer to q, if there is one, has its score from
\* key k, and its attempt if it had none.
SavesAs(x, q, k) ==
    LET a == session.answers[q]
        s == [session EXCEPT !.picking = FALSE, !.answers[q].score = ScoreOf(a.selected, k)]
    IN  /\ a.selected = NoOption =>
               x.session = [session EXCEPT !.picking = FALSE] /\ x.sent = sent
        /\ a.selected # NoOption =>
               /\ x.session = s
               /\ s = [session EXCEPT !.picking = FALSE,
                           !.answers[q] = [a EXCEPT !.score = ScoreOf(a.selected, k)]]
               /\ x.sent = IF a.score = "none" THEN [sent EXCEPT ![q] = @ + 1] ELSE sent

\* The world of an answer that gets its score from the user's own key.
LEMMA SavedFits ==
    ASSUME TypeInv, NEW q \in Questions, NEW k \in Options, NEW lost \in BOOLEAN
    PROVE  WorldFits(Saved(World, q, k, lost), Len(sims)) /\ SavesAs(Saved(World, q, k, lost), q, k)
<1> DEFINE x == Saved(World, q, k, lost)
           a == session.answers[q]
           score == ScoreOf(a.selected, k)
           s == [session EXCEPT !.picking = FALSE, !.answers[q].score = score]
           idle == [session EXCEPT !.picking = FALSE]
           n == Len(sims)
<1>1. /\ WorldFits(World, n) /\ n \in Nat
      /\ World.session = session /\ World.sims = sims /\ World.sent = sent
  BY WorldFitsNow
<1>2. SessionFits(session, n) /\ session \in Session /\ a \in Answer \cup {NoAnswer}
  BY DEF TypeInv, PlayFits, SessionFits, Session
<1>3. a.selected \in Keys /\ k \in Keys /\ k # NoOption
  BY <1>2, SimulationsAssumption DEF Answer, NoAnswer, Keys
<1>4. score \in {"right", "wrong"}
  BY <1>3, ScoreType
<1>5. a.selected # NoOption => a \in Answer
  BY <1>2 DEF NoAnswer
<1>6. SessionFits(idle, n)
  BY <1>2 DEF SessionFits, Session
<1> DEFINE marked == [World EXCEPT !.session.picking = FALSE, !.session.answers[q].score = score]
<1>7. /\ x = IF a.selected = NoOption THEN [World EXCEPT !.session.picking = FALSE]
             ELSE IF a.score = "none" THEN Sent(marked, q, a.selected, score, lost) ELSE marked
      /\ [World EXCEPT !.session.picking = FALSE] = [World EXCEPT !.session = idle]
      /\ marked = [World EXCEPT !.session = s]
  <2>1. x = IF a.selected = NoOption THEN [World EXCEPT !.session.picking = FALSE]
            ELSE IF a.score = "none" THEN Sent(marked, q, a.selected, score, lost) ELSE marked
    BY <1>1 DEF Saved
  <2>2. [World EXCEPT !.session.picking = FALSE] = [World EXCEPT !.session = idle]
    BY DEF World
  <2>3. marked = [World EXCEPT !.session = s]
    BY DEF World
  <2>4. QED
    BY <2>1, <2>2, <2>3
<1> HIDE DEF score
<1>8. a.selected # NoOption =>
         /\ s = [session EXCEPT !.picking = FALSE, !.answers[q] = [a EXCEPT !.score = score]]
         /\ [a EXCEPT !.score = score] \in Answer
         /\ SessionFits(s, n)
  <2> SUFFICES ASSUME a.selected # NoOption
               PROVE  /\ s = [session EXCEPT !.picking = FALSE,
                                             !.answers[q] = [a EXCEPT !.score = score]]
                      /\ [a EXCEPT !.score = score] \in Answer
                      /\ SessionFits(s, n)
    OBVIOUS
  <2>1. [a EXCEPT !.score = score] \in Answer
    BY <1>4, <1>5 DEF Answer
  <2>2. s = [session EXCEPT !.picking = FALSE, !.answers[q] = [a EXCEPT !.score = score]]
    BY <1>2 DEF Session
  <2> DEFINE b == [a EXCEPT !.score = score]
  <2>3. s = [idle EXCEPT !.answers[q] = b]
    BY <1>2, <2>2 DEF Session
  <2> HIDE DEF idle, b, s
  <2>4. SessionFits(s, n)
    BY <1>6, <2>1, <2>3, AnswerFits DEF b
  <2>5. QED
    BY <2>1, <2>2, <2>4 DEF b
<1> HIDE DEF x, marked, s, idle
<1>9. /\ WorldFits([World EXCEPT !.session = idle], n)
      /\ [World EXCEPT !.session = idle].session = idle
      /\ [World EXCEPT !.session = idle].sent = sent
  BY <1>1, <1>6, WithSession
<1>10. a.selected = NoOption => WorldFits(x, n) /\ x.session = idle /\ x.sent = sent
  BY <1>7, <1>9
<1>11. a.selected # NoOption => WorldFits(marked, n) /\ marked.session = s /\ marked.sent = sent
  BY <1>1, <1>7, <1>8, WithSession
<1>12. a.selected # NoOption =>
          /\ WorldFits(x, n) /\ x.session = s
          /\ x.sent = IF a.score = "none" THEN [sent EXCEPT ![q] = @ + 1] ELSE sent
  <2> SUFFICES ASSUME a.selected # NoOption
               PROVE  /\ WorldFits(x, n) /\ x.session = s
                      /\ x.sent = IF a.score = "none" THEN [sent EXCEPT ![q] = @ + 1] ELSE sent
    OBVIOUS
  <2> DEFINE y == Sent(marked, q, a.selected, score, lost)
  <2>1. x = IF a.score = "none" THEN y ELSE marked
    BY <1>7
  <2>2. WorldFits(marked, n) /\ marked.session = s /\ marked.sent = sent
    BY <1>11
  <2> HIDE DEF n, a
  <2>3. /\ WorldFits(y, n) /\ y.session = marked.session
        /\ y.sent = [marked.sent EXCEPT ![q] = @ + 1]
    BY <1>1, <1>3, <1>4, <2>2, SentFits
  <2> HIDE DEF y
  <2>4. QED
    BY <2>1, <2>2, <2>3
<1>13. QED
  BY <1>8, <1>10, <1>12 DEF x, s, idle, score, SavesAs

LEMMA BecomesFits ==
    ASSUME TypeInv, NEW w, WorldFits(w, Len(sims)), NEW c, CacheFits(c), Becomes(w, c)
    PROVE  /\ SimsFit(sims') /\ Len(sims') = Len(sims) /\ sent' \in [Questions -> Nat]
           /\ session' = w.session /\ sent' = w.sent
           /\ SessionFits(session', Len(sims)) /\ CacheFits(cache')
           /\ UrlFits(url', session', Len(sims))
<1>1. Render(w.session, c) /\ sims' = w.sims /\ sent' = w.sent
  BY DEF Becomes
<1>2. Len(sims) \in Nat
  BY WorldFitsNow
<1>3. /\ session' = w.session /\ SessionFits(session', Len(sims)) /\ CacheFits(cache')
      /\ UrlFits(url', session', Len(sims))
  BY <1>1, <1>2, RenderFits DEF WorldFits, TypeInv, PlayFits
<1>4. QED
  BY <1>1, <1>3 DEF WorldFits

-----------------------------------------------------------------------------
(* The steps of the user.                                                  *)

LEMMA Fits ==
    ASSUME TypeInv
    PROVE  /\ Len(sims) \in Nat /\ Len(sims) \in 0..MaxSims
           /\ SessionFits(session, Len(sims)) /\ session \in Session
           /\ session.questions \in Seq(Questions) /\ Len(session.questions) \in Nat
           /\ session.index \in Nat /\ session.limit \in Nat
           /\ CacheFits(cache) /\ UrlFits(url, session, Len(sims))
           /\ PendingFits(pending, Len(sims)) /\ SimsFit(sims)
           /\ PlayFits(session, cache, url, pending, Len(sims))
           /\ key \in [Questions -> Keys]
<1>1. SessionFits(session, Len(sims)) /\ session \in Session
  BY DEF TypeInv, PlayFits, SessionFits
<1>2. /\ session.questions \in Seq(Questions) /\ session.index \in Nat
      /\ session.limit \in Nat
  BY <1>1, PlayerAssumption DEF Session
<1>3. Len(session.questions) \in Nat
  BY <1>2, LenProperties
<1>4. QED
  BY <1>1, <1>2, <1>3, WorldFitsNow DEF TypeInv, PlayFits

LEMMA SpendsFits ==
    ASSUME TypeInv, NEW n \in Nat, UserSpends(n)
    PROVE  events' \in 0..MaxEvents /\ haste' \in BOOLEAN
<1>1. One(Awaiting) \in Nat /\ events \in Nat /\ MaxEvents \in Nat
  BY PlayerAssumption DEF One, TypeInv
<1>2. events' = events + (One(Awaiting) + n) /\ events' <= MaxEvents
  BY DEF UserSpends, Costs
<1>3. events' \in 0..MaxEvents
  BY <1>1, <1>2
<1>4. haste' \in BOOLEAN
  BY DEF UserSpends
<1>5. QED
  BY <1>3, <1>4

LEMMA RepliesFits ==
    ASSUME TypeInv, NEW lost, Replies(lost)
    PROVE  events' \in 0..MaxEvents /\ haste' \in BOOLEAN
<1>1. One(lost) \in Nat /\ events \in Nat /\ MaxEvents \in Nat
  BY PlayerAssumption DEF One, TypeInv
<1>2. events' = events + One(lost) /\ events' <= MaxEvents
  BY DEF Replies, Costs
<1>3. events' \in 0..MaxEvents
  BY <1>1, <1>2
<1>4. QED
  BY <1>3 DEF Replies, TypeInv

LEMMA CurrentType ==
    ASSUME NEW n, NEW s, SessionFits(s, n)
    PROVE  Current(s) \subseteq ToSet(s.questions) /\ ToSet(s.questions) \subseteq Questions
<1>1. s.questions \in Seq(Questions) /\ s.index \in Nat
  BY DEF SessionFits, Session
<1>2. DOMAIN s.questions = 1..Len(s.questions) /\ Len(s.questions) \in Nat
  BY <1>1, LenProperties
<1>3. ToSet(s.questions) \subseteq Questions
  BY <1>1, <1>2, ElementOfSeq DEF ToSet
<1>4. Current(s) \subseteq ToSet(s.questions)
  <2>1. CASE s.index < Len(s.questions)
    <3>1. s.index + 1 \in DOMAIN s.questions
      BY <1>1, <1>2, <2>1
    <3>2. QED
      BY <2>1, <3>1 DEF Current, ToSet
  <2>2. CASE ~(s.index < Len(s.questions))
    BY <2>2 DEF Current
  <2>3. QED
    BY <2>1, <2>2
<1>5. QED
  BY <1>3, <1>4

LEMMA MovesFits ==
    ASSUME TypeInv, NEW s, SessionFits(s, Len(sims)), Moves(s)
    PROVE  TypeInv'
<1>1. Render(s, cache) /\ UNCHANGED <<bank, sims, key, pending, begun, sent, flagged>>
  BY DEF Moves, server, ghosts
<1>2. events' \in 0..MaxEvents /\ haste' \in BOOLEAN
  BY SpendsFits DEF Moves, UserActs
<1>3. SessionFits(session', Len(sims)) /\ CacheFits(cache') /\ UrlFits(url', session', Len(sims))
  BY <1>1, Fits, RenderFits
<1>4. PlayFits(session', cache', url', pending', Len(sims'))
  BY <1>1, <1>3, Fits DEF PlayFits
<1>5. QED
  BY <1>1, <1>2, <1>4 DEF TypeInv

LEMMA AsksFits ==
    ASSUME TypeInv, NEW op, OpFits(op, Len(sims)), NEW n \in Nat, Asks(op, n)
    PROVE  TypeInv'
<1>1. /\ UNCHANGED <<bank, sims, key, session, cache, url, begun, sent, flagged>>
      /\ pending' = pending (+) SetToBag({op})
  BY DEF Asks, Sends, server, ghosts
<1>2. events' \in 0..MaxEvents /\ haste' \in BOOLEAN
  BY SpendsFits DEF Asks
<1>3. PendingFits(pending', Len(sims))
  BY <1>1, Fits, OneFits, SumFits
<1>4. PlayFits(session', cache', url', pending', Len(sims'))
  BY <1>1, <1>3, Fits DEF PlayFits
<1>5. QED
  BY <1>1, <1>2, <1>4 DEF TypeInv

\* A step that scores answers and sends attempts.
LEMMA BecomesStep ==
    ASSUME TypeInv, NEW w, WorldFits(w, Len(sims)), NEW c, CacheFits(c), Becomes(w, c),
           bank' \in [Questions -> {"live", "discarded"}], key' \in [Questions -> Keys],
           PendingFits(pending', Len(sims)), begun' = begun, flagged' = flagged,
           events' \in 0..MaxEvents, haste' \in BOOLEAN
    PROVE  TypeInv'
<1>1. /\ SimsFit(sims') /\ Len(sims') = Len(sims) /\ sent' \in [Questions -> Nat]
      /\ SessionFits(session', Len(sims)) /\ CacheFits(cache')
      /\ UrlFits(url', session', Len(sims))
  BY BecomesFits
<1>2. PlayFits(session', cache', url', pending', Len(sims'))
  BY <1>1 DEF PlayFits
<1>3. QED
  BY <1>1, <1>2 DEF TypeInv

LEMMA OneType == \A lost : One(lost) \in Nat
  BY DEF One

LEMMA AnswerQuestionFits ==
    ASSUME TypeInv, NEW q \in Questions, NEW o \in Options, AnswerQuestion(q, o)
    PROVE  TypeInv'
<1> DEFINE c == Fetched(cache, {q})
<1>1. UNCHANGED <<bank, key, pending, begun, flagged>>
  BY DEF AnswerQuestion
<1>2. CacheFits(c) /\ c[q].key \in Keys /\ c[q].waiters \in Seq(Options)
  <2>1. CacheFits(c)
    BY Fits, FetchedFits
  <2> HIDE DEF c
  <2>2. QED
    BY <2>1 DEF CacheFits
<1>3. CASE c[q].at = "has"
  <2>1. PICK lost \in BOOLEAN :
            UserSpends(One(lost)) /\ Becomes(Marked(World, q, o, c[q].key, lost), c)
    BY <1>3 DEF AnswerQuestion
  <2> HIDE DEF c
  <2>2. events' \in 0..MaxEvents /\ haste' \in BOOLEAN
    BY <2>1, OneType, SpendsFits
  <2>3. WorldFits(Marked(World, q, o, c[q].key, lost), Len(sims))
    BY <1>2, <2>1, WorldFitsNow, MarkedFits
  <2>4. /\ bank' \in [Questions -> {"live", "discarded"}] /\ key' \in [Questions -> Keys]
        /\ PendingFits(pending', Len(sims)) /\ begun' = begun /\ flagged' = flagged
    BY <1>1, Fits DEF TypeInv
  <2>5. QED
    BY <1>2, <2>1, <2>2, <2>3, <2>4, BecomesStep
<1>4. CASE c[q].at # "has"
  <2>1. /\ UserActs /\ UNCHANGED <<session, url, sims, sent>>
        /\ cache' = [c EXCEPT ![q].waiters = Append(@, o)]
    BY <1>4 DEF AnswerQuestion
  <2> HIDE DEF c
  <2>2. events' \in 0..MaxEvents /\ haste' \in BOOLEAN
    BY <2>1, SpendsFits DEF UserActs
  <2>3. Append(c[q].waiters, o) \in Seq(Options)
    BY <1>2, AppendProperties
  <2>4. CacheFits(cache')
    BY <1>2, <2>1, <2>3 DEF CacheFits
  <2>5. PlayFits(session', cache', url', pending', Len(sims'))
    BY <1>1, <2>1, <2>4, Fits DEF PlayFits
  <2>6. QED
    BY <1>1, <2>1, <2>2, <2>5 DEF TypeInv
<1>5. QED
  BY <1>3, <1>4

LEMMA AssessFits ==
    ASSUME TypeInv, NEW q \in Questions, NEW a \in Answer, a.score \in {"right", "wrong"},
           Assess(q, a)
    PROVE  TypeInv'
<1> DEFINE s == [session EXCEPT !.answers[q] = a]
           before == [World EXCEPT !.session.answers[q] = a]
<1>1. UNCHANGED <<bank, key, pending, begun, flagged>>
  BY DEF Assess
<1>2. PICK lost \in BOOLEAN :
          UserSpends(One(lost)) /\ Becomes(Sent(before, q, NoOption, a.score, lost), cache)
  BY DEF Assess
<1>3. before = [World EXCEPT !.session = s]
  BY DEF World
<1> HIDE DEF before, s
<1>4. SessionFits(s, Len(sims))
  BY Fits, AnswerFits DEF s
<1>5. WorldFits(before, Len(sims))
  BY <1>3, <1>4, WorldFitsNow, WithSession
<1>6. WorldFits(Sent(before, q, NoOption, a.score, lost), Len(sims))
  BY <1>2, <1>5, Fits, SentFits DEF Keys
<1>7. events' \in 0..MaxEvents /\ haste' \in BOOLEAN
  BY <1>2, OneType, SpendsFits
<1>8. /\ bank' \in [Questions -> {"live", "discarded"}] /\ key' \in [Questions -> Keys]
      /\ PendingFits(pending', Len(sims)) /\ begun' = begun /\ flagged' = flagged
  BY <1>1, Fits DEF TypeInv
<1>9. QED
  BY <1>2, <1>6, <1>7, <1>8, Fits, BecomesStep

LEMMA AnswerTypes ==
    ASSUME TypeInv, NEW q \in Questions
    PROVE  session.answers[q] \in Answer \cup {NoAnswer}
  BY Fits DEF Session

LEMMA DontKnowFits ==
    ASSUME TypeInv, NEW q \in Questions, DontKnow(q)
    PROVE  TypeInv'
<1> DEFINE a == [selected |-> NoOption, score |-> "wrong", assessed |-> FALSE]
<1>1. Assess(q, a)
  BY DEF DontKnow
<1>2. a \in Answer /\ a.score \in {"right", "wrong"}
  BY DEF Answer, Keys
<1> HIDE DEF a
<1>3. QED
  BY <1>1, <1>2, AssessFits

LEMMA SelfAssessFits ==
    ASSUME TypeInv, NEW q \in Questions, NEW score \in {"right", "wrong"}, SelfAssess(q, score)
    PROVE  TypeInv'
<1> DEFINE a == [session.answers[q] EXCEPT !.score = score, !.assessed = TRUE]
<1>1. Assess(q, a)
  BY DEF SelfAssess
<1>2. session.answers[q] \in Answer
  BY AnswerTypes DEF SelfAssess, Has
<1>3. a \in Answer /\ a.score \in {"right", "wrong"}
  BY <1>2 DEF Answer
<1> HIDE DEF a
<1>4. QED
  BY <1>1, <1>3, AssessFits

LEMMA RevealFits ==
    ASSUME TypeInv, NEW q \in Questions, Reveal(q)
    PROVE  TypeInv'
<1> DEFINE a == [selected |-> NoOption, score |-> "none", assessed |-> FALSE]
<1>1. a \in Answer
  BY DEF Answer, Keys
<1>2. Moves([session EXCEPT !.answers[q] = a])
  BY DEF Reveal
<1> HIDE DEF a
<1>3. SessionFits([session EXCEPT !.answers[q] = a], Len(sims))
  BY <1>1, Fits, AnswerFits
<1>4. QED
  BY <1>2, <1>3, MovesFits

LEMMA SetPickingFits ==
    ASSUME TypeInv, NEW value \in BOOLEAN, SetPicking(value)
    PROVE  TypeInv'
<1>1. SessionFits([session EXCEPT !.picking = value], Len(sims))
  BY Fits DEF SessionFits, Session
<1>2. QED
  BY <1>1, MovesFits DEF SetPicking

\* At another question of the same session.
LEMMA PositionFits ==
    ASSUME NEW n, NEW s, SessionFits(s, n), NEW i \in Nat, i < Len(s.questions) \/ i = 0
    PROVE  /\ SessionFits([s EXCEPT !.index = i], n)
           /\ SessionFits([s EXCEPT !.index = i, !.picking = FALSE], n)
           /\ SessionFits([s EXCEPT !.finished = FALSE, !.index = i], n)
  BY DEF SessionFits, Session

LEMMA NextInSimulationFits ==
    ASSUME TypeInv, NEW q \in Questions, NextInSimulation(q)
    PROVE  TypeInv'
<1> DEFINE i == session.index + 1
           next == [session EXCEPT !.index = i, !.picking = FALSE]
<1>1. CASE session.index >= Len(session.questions) - 1
  <2>1. Moves([session EXCEPT !.finished = TRUE])
    BY <1>1 DEF NextInSimulation
  <2>2. QED
    BY <2>1, Fits, LoadingType, MovesFits
<1>2. CASE ~(session.index >= Len(session.questions) - 1)
  <2> DEFINE c == Fetched(cache, Current([next EXCEPT !.index = @ + 1]))
  <2>1. /\ UserActs /\ UNCHANGED <<bank, sims, key, pending, begun, sent, flagged>>
        /\ Render(next, c)
    <3>1. NextInSimulation(q)
      OBVIOUS
    <3>2. /\ UserActs /\ UNCHANGED <<server, ghosts, pending>>
          /\ Render(next, c)
      BY <1>2, <3>1 DEF NextInSimulation
    <3>3. QED
      BY <3>2 DEF server, ghosts
  <2>2. i \in Nat /\ i < Len(session.questions)
    BY <1>2, Fits
  <2>3. SessionFits(next, Len(sims))
    BY <2>2, Fits, PositionFits
  <2>4. CacheFits(c)
    BY Fits, FetchedFits
  <2> HIDE DEF c, next
  <2>5. SessionFits(session', Len(sims)) /\ CacheFits(cache') /\ UrlFits(url', session', Len(sims))
    BY <2>1, <2>3, <2>4, Fits, RenderFits
  <2>6. PlayFits(session', cache', url', pending', Len(sims'))
    BY <2>1, <2>5, Fits DEF PlayFits
  <2>7. events' \in 0..MaxEvents /\ haste' \in BOOLEAN
    BY <2>1, SpendsFits DEF UserActs
  <2>8. QED
    BY <2>1, <2>6, <2>7 DEF TypeInv
<1>3. QED
  BY <1>1, <1>2

LEMMA NextInReviewFits ==
    ASSUME TypeInv, NEW q \in Questions, NextInReview(q)
    PROVE  TypeInv'
<1>1. /\ UserActs /\ LoadNext(session, pending)
      /\ UNCHANGED <<bank, sims, key, begun, sent, flagged>>
  BY DEF NextInReview, server, ghosts
<1>2. PlayFits(session', cache', url', pending', Len(sims'))
  BY <1>1, Fits, LoadNextFits
<1>3. events' \in 0..MaxEvents /\ haste' \in BOOLEAN
  BY <1>1, SpendsFits DEF UserActs
<1>4. bank' = bank /\ sims' = sims /\ key' = key /\ begun' = begun /\ sent' = sent /\ flagged' = flagged
  BY <1>1
<1>5. QED
  BY <1>2, <1>3, <1>4 DEF TypeInv

LEMMA GoPrevFits ==
    ASSUME TypeInv, GoPrev
    PROVE  TypeInv'
<1> DEFINE i == session.index - 1
<1>1. Moves([session EXCEPT !.index = i, !.picking = FALSE]) /\ session.index > 0
  BY DEF GoPrev
<1>2. i \in Nat /\ i < Len(session.questions)
  BY <1>1, Fits DEF SessionFits
<1> HIDE DEF i
<1>3. QED
  BY <1>1, <1>2, Fits, PositionFits, MovesFits

LEMMA ExitSessionFits ==
    ASSUME TypeInv, ExitSession
    PROVE  TypeInv'
<1>1. UserActs /\ Exit(pending) /\ UNCHANGED <<bank, sims, key, begun>>
  BY DEF ExitSession, server
<1>2. /\ PlayFits(session', cache', url', pending', Len(sims'))
      /\ sent' \in [Questions -> Nat] /\ flagged' \subseteq Questions
  BY <1>1, Fits, ExitFits
<1>3. events' \in 0..MaxEvents /\ haste' \in BOOLEAN
  BY <1>1, SpendsFits DEF UserActs
<1>4. QED
  BY <1>1, <1>2, <1>3 DEF TypeInv

\* The first place of a list that is left open.
LEMMA FirstFits ==
    ASSUME NEW l \in Nat, NEW open, open \subseteq 1..l, open # {}
    PROVE  LET i == (CHOOSE i \in open : \A j \in open : i <= j) - 1
           IN  i \in Nat /\ i < l
<1>1. \E i \in open : \A j \in open : i <= j
  <2>1. open \subseteq Nat
    OBVIOUS
  <2>2. QED
    BY <2>1, LeastNumber
<1>2. (CHOOSE i \in open : \A j \in open : i <= j) \in 1..l
  BY <1>1
<1>3. QED
  BY <1>2

LEMMA ResumeSkippedFits ==
    ASSUME TypeInv, ResumeSkipped
    PROVE  TypeInv'
<1> DEFINE open == {i \in DOMAIN session.questions : ~Has(session, session.questions[i])}
           i == (CHOOSE i \in open : \A j \in open : i <= j) - 1
<1>1. open # {} /\ Moves([session EXCEPT !.finished = FALSE, !.index = i])
  BY DEF ResumeSkipped
<1>2. open \subseteq 1..Len(session.questions)
  BY Fits, LenProperties
<1> HIDE DEF open
<1>3. i \in Nat /\ i < Len(session.questions)
  BY <1>1, <1>2, Fits, FirstFits
<1> HIDE DEF i
<1>4. QED
  BY <1>1, <1>3, Fits, PositionFits, MovesFits

-----------------------------------------------------------------------------
(* Handlers up to their await.                                             *)

LEMMA SaveKeyFits ==
    ASSUME TypeInv, NEW q \in Questions, NEW o \in Options, SaveKey(q, o)
    PROVE  TypeInv'
<1> DEFINE op == [Op("save") EXCEPT !.question = q, !.option = o]
<1>1. Asks(op, 1)
  BY DEF SaveKey
<1>2. OpFits(op, Len(sims))
  BY SimulationsAssumption DEF OpFits, Op, Request, Keys
<1> HIDE DEF op
<1>3. QED
  BY <1>1, <1>2, AsksFits

LEMMA RegenerateFits ==
    ASSUME TypeInv, NEW q \in Questions, RegenerateWithAi(q)
    PROVE  TypeInv'
<1> DEFINE op == [Op("regenerate") EXCEPT !.question = q]
<1>1. Asks(op, 1)
  BY DEF RegenerateWithAi
<1>2. OpFits(op, Len(sims))
  BY DEF OpFits, Op, Request, Keys
<1> HIDE DEF op
<1>3. QED
  BY <1>1, <1>2, AsksFits

LEMMA DiscardCurrentFits ==
    ASSUME TypeInv, NEW q \in Questions, DiscardCurrent(q)
    PROVE  TypeInv'
<1> DEFINE op == [Op("discard") EXCEPT !.question = q]
<1>1. Asks(op, 1)
  BY DEF DiscardCurrent
<1>2. OpFits(op, Len(sims))
  BY DEF OpFits, Op, Request, Keys
<1> HIDE DEF op
<1>3. QED
  BY <1>1, <1>2, AsksFits

LEMMA RetryMistakesFits ==
    ASSUME TypeInv, RetryMistakes
    PROVE  TypeInv'
<1> DEFINE op == [Op("retry") EXCEPT !.ids = Mistakes(session)]
<1>1. Asks(op, 0)
  BY DEF RetryMistakes
<1>2. Mistakes(session) \subseteq Questions
  BY Fits, CurrentType DEF Mistakes
<1>3. OpFits(op, Len(sims))
  BY <1>2 DEF OpFits, Op, Request, Keys
<1> HIDE DEF op
<1>4. QED
  BY <1>1, <1>3, AsksFits

LEMMA StartSimulationFits ==
    ASSUME TypeInv, NEW n \in DOMAIN Offers, StartSimulation(n)
    PROVE  TypeInv'
<1> DEFINE op == [Op("start") EXCEPT !.number = n]
<1>1. Asks(op, 0)
  BY DEF StartSimulation
<1>2. n \in Nat
  BY PlayerAssumption, LenProperties
<1>3. OpFits(op, Len(sims))
  BY <1>2 DEF OpFits, Op, Request, Keys
<1> HIDE DEF op
<1>4. QED
  BY <1>1, <1>3, AsksFits

LEMMA OpenSimulationFits ==
    ASSUME TypeInv, NEW id \in DOMAIN sims, NEW mode \in {"resume", "results", "at"},
           OpenSimulation(id, mode)
    PROVE  TypeInv'
<1> DEFINE op == [Op("open") EXCEPT !.number = id, !.mode = mode]
<1>1. Asks(op, 0)
  BY DEF OpenSimulation
<1>2. id \in 1..Len(sims) /\ id \in Nat
  BY LenProperties DEF TypeInv, SimsFit
<1>3. OpFits(op, Len(sims))
  BY <1>2 DEF OpFits, Op, Request, Keys
<1> HIDE DEF op
<1>4. QED
  BY <1>1, <1>3, AsksFits

\* The session of a review before its first question.
FirstReview(limit) == [NewSession("review", 0, <<>>) EXCEPT !.limit = limit, !.loading = TRUE]

LEMMA FirstReviewFits ==
    ASSUME TypeInv, MayEnter, NEW limit \in 1..ReviewLength
    PROVE  /\ SessionFits(FirstReview(limit), Len(sims))
           /\ FirstReview(limit).kind = "review" /\ FirstReview(limit).questions = <<>>
           /\ FirstReview(limit).answers = [q \in Questions |-> NoAnswer]
           /\ FirstReview(limit).limit = limit /\ FirstReview(limit).seen = {}
           /\ FirstReview(limit).loading = TRUE
<1> DEFINE r == NewSession("review", 0, <<>>)
<1>1. <<>> \in Seq(Questions) /\ 0 \in 0..Len(sims) /\ "review" \in {"simulation", "review"}
  BY EmptySeq, Fits
<1>2. begun \in 0..MaxSessions
  BY DEF TypeInv
<1>3. SessionFits(r, Len(sims))
  BY <1>1, <1>2, Fits, NewSessionFits
<1>4. limit \in 0..ReviewLength
  BY PlayerAssumption
<1>5. FirstReview(limit) = [r EXCEPT !.limit = limit, !.loading = TRUE]
  BY DEF FirstReview
<1>6. /\ FirstReview(limit).kind = "review" /\ FirstReview(limit).questions = <<>>
      /\ FirstReview(limit).answers = [q \in Questions |-> NoAnswer]
      /\ FirstReview(limit).limit = limit /\ FirstReview(limit).seen = {}
      /\ FirstReview(limit).loading = TRUE
  BY <1>5 DEF NewSession, Home
<1> HIDE DEF r
<1>7. SessionFits(FirstReview(limit), Len(sims))
  BY <1>3, <1>4, <1>5 DEF SessionFits, Session
<1>8. QED
  BY <1>6, <1>7

LEMMA StartReviewFits ==
    ASSUME TypeInv, NEW limit \in 1..ReviewLength, StartReview(limit)
    PROVE  TypeInv'
<1> DEFINE s == FirstReview(limit)
<1>1. /\ MayEnter /\ UserActs /\ UNCHANGED <<bank, sims, key>>
      /\ Enter(s, pending (+) SetToBag({NextOp(s)}))
  BY DEF StartReview, FirstReview, server
<1> HIDE DEF s
<1>2. SessionFits(s, Len(sims))
  BY <1>1, FirstReviewFits DEF s
<1>3. PendingFits(pending (+) SetToBag({NextOp(s)}), Len(sims))
  BY <1>2, Fits, NextOpFits, OneFits, SumFits
<1>4. begun \in 0..MaxSessions
  BY DEF TypeInv
<1>5. /\ PlayFits(session', cache', url', pending', Len(sims))
      /\ sent' \in [Questions -> Nat] /\ flagged' \subseteq Questions
      /\ begun' \in 0..MaxSessions
  BY <1>1, <1>2, <1>3, <1>4, Fits, EnterFits
<1>6. events' \in 0..MaxEvents /\ haste' \in BOOLEAN
  BY <1>1, SpendsFits DEF UserActs
<1>7. QED
  BY <1>1, <1>5, <1>6 DEF TypeInv

LEMMA ReloadFits ==
    ASSUME TypeInv, Reload
    PROVE  TypeInv'
<1>1. /\ UserSpends(1) /\ UNCHANGED <<bank, sims, key, begun>>
      /\ session' = Home /\ cache' = EmptyCache /\ url' = url
      /\ flagged' = {} /\ sent' = [q \in Questions |-> 0]
  BY DEF Reload, server
<1>2. events' \in 0..MaxEvents /\ haste' \in BOOLEAN
  BY <1>1, SpendsFits
<1>3. SessionFits(session', Len(sims)) /\ CacheFits(cache')
  BY <1>1, Fits, HomeFits, EmptyCacheFits
<1>4. UrlFits(url', session', Len(sims))
  BY <1>1, Fits, HomeFits DEF UrlFits
<1>5. PendingFits(pending', Len(sims))
  <2>1. CASE url = NoUrl
    BY <2>1, NoneFits DEF Reload
  <2>2. CASE url # NoUrl
    <3> DEFINE op == [Op("open") EXCEPT !.number = url.sim, !.mode = "at", !.at = url.q - 1]
    <3>1. pending' = SetToBag({op})
      BY <2>2 DEF Reload
    <3>2. url.sim \in 1..Len(sims) /\ url.sim \in Nat /\ url.q - 1 \in Nat
      BY <2>2, Fits DEF UrlFits
    <3>3. OpFits(op, Len(sims))
      BY <3>2 DEF OpFits, Op, Request, Keys
    <3> HIDE DEF op
    <3>4. QED
      BY <3>1, <3>3, OneFits
  <2>3. QED
    BY <2>1, <2>2
<1>6. PlayFits(session', cache', url', pending', Len(sims'))
  BY <1>1, <1>3, <1>4, <1>5 DEF PlayFits
<1>7. QED
  BY <1>1, <1>2, <1>6 DEF TypeInv

-----------------------------------------------------------------------------
(* The replies.                                                            *)

LEMMA ReplyCorrectionFits ==
    ASSUME TypeInv, NEW q \in Questions, NEW k \in Keys, ReplyCorrection(q, k)
    PROVE  TypeInv'
<1> DEFINE c == [cache EXCEPT ![q] = Entry(k)]
<1>1. UNCHANGED <<bank, key, pending, begun, flagged>>
  BY DEF ReplyCorrection
<1>2. PICK lost \in BOOLEAN :
          /\ Replies(lost \/ k \notin {cache[q].key, key[q]})
          /\ Becomes(AllMarked(q, cache[q].waiters, k, lost), c)
  BY DEF ReplyCorrection
<1>3. CacheFits(c)
  BY Fits, EntryFits
<1> HIDE DEF c
<1>4. cache[q].waiters \in Seq(Options)
  BY Fits DEF CacheFits
<1>5. WorldFits(AllMarked(q, cache[q].waiters, k, lost), Len(sims))
  BY <1>2, <1>4, AllMarkedFits
<1>6. events' \in 0..MaxEvents /\ haste' \in BOOLEAN
  BY <1>2, RepliesFits
<1>7. /\ bank' \in [Questions -> {"live", "discarded"}] /\ key' \in [Questions -> Keys]
      /\ PendingFits(pending', Len(sims)) /\ begun' = begun /\ flagged' = flagged
  BY <1>1, Fits DEF TypeInv
<1>8. QED
  BY <1>2, <1>3, <1>5, <1>6, <1>7, BecomesStep

LEMMA ReplyOrphanFits ==
    ASSUME TypeInv, NEW op \in BagToSet(pending), NEW k \in Keys, ReplyOrphan(op, k)
    PROVE  TypeInv'
<1>1. UNCHANGED <<bank, key, begun, flagged>> /\ pending' = Rest(op)
  BY DEF ReplyOrphan
<1>2. PICK lost \in BOOLEAN :
          /\ Replies(lost \/ k \notin {op.option, key[op.question]})
          /\ Becomes(Marked(World, op.question, op.selected, k, lost), cache)
  BY DEF ReplyOrphan
<1>3. op.question \in Questions /\ op.selected \in Options
  BY Fits DEF PendingFits, OpFits, ReplyOrphan, Request, Keys
<1>4. WorldFits(Marked(World, op.question, op.selected, k, lost), Len(sims))
  BY <1>2, <1>3, WorldFitsNow, MarkedFits
<1>5. events' \in 0..MaxEvents /\ haste' \in BOOLEAN
  BY <1>2, RepliesFits
<1>6. /\ bank' \in [Questions -> {"live", "discarded"}] /\ key' \in [Questions -> Keys]
      /\ PendingFits(pending', Len(sims)) /\ begun' = begun /\ flagged' = flagged
  BY <1>1, Fits, RestFits DEF TypeInv
<1>7. QED
  BY <1>2, <1>4, <1>5, <1>6, Fits, BecomesStep

\* A reply that changes the session alone, or nothing of it.
LEMMA ShowsStep ==
    ASSUME TypeInv, NEW s, SessionFits(s, Len(sims)), NEW c, CacheFits(c),
           Render(s, c) \/ UNCHANGED <<session, url, cache>>,
           UNCHANGED <<sims, sent, begun, flagged>>,
           bank' \in [Questions -> {"live", "discarded"}], key' \in [Questions -> Keys],
           PendingFits(pending', Len(sims)),
           events' \in 0..MaxEvents, haste' \in BOOLEAN
    PROVE  TypeInv'
<1>1. CASE Render(s, c)
  <2>1. SessionFits(session', Len(sims)) /\ CacheFits(cache') /\ UrlFits(url', session', Len(sims))
    BY <1>1, Fits, RenderFits
  <2>2. PlayFits(session', cache', url', pending', Len(sims'))
    BY <2>1 DEF PlayFits
  <2>3. QED
    BY <2>2 DEF TypeInv
<1>2. CASE UNCHANGED <<session, url, cache>>
  <2>1. PlayFits(session', cache', url', pending', Len(sims'))
    BY <1>2, Fits DEF PlayFits
  <2>2. QED
    BY <2>1 DEF TypeInv
<1>3. QED
  BY <1>1, <1>2

LEMMA ReplySaveFits ==
    ASSUME TypeInv, NEW op \in BagToSet(pending), ReplySave(op)
    PROVE  TypeInv'
<1> DEFINE c == [cache EXCEPT ![op.question] = Entry(op.option)]
<1>1. op.question \in Questions /\ op.option \in Options /\ op.option \in Keys
  BY Fits DEF PendingFits, OpFits, ReplySave, Request, Keys
<1>2. /\ key' = [key EXCEPT ![op.question] = op.option]
      /\ pending' = Rest(op) (+) Orphans({op.question})
      /\ UNCHANGED <<bank, begun, flagged>>
  BY DEF ReplySave
<1>3. /\ bank' \in [Questions -> {"live", "discarded"}] /\ key' \in [Questions -> Keys]
      /\ begun' = begun /\ flagged' = flagged
  BY <1>1, <1>2, Fits DEF TypeInv
<1>4. PendingFits(pending', Len(sims))
  <2>1. {op.question} \in SUBSET Questions
    BY <1>1
  <2>2. QED
    BY <1>2, <2>1, Fits, RestFits, OrphansFit, SumFits
<1>5. CacheFits(c)
  BY <1>1, Fits, EntryFits
<1>6. CASE AtHome
  <2>1. Replies(FALSE) /\ UNCHANGED <<session, cache, url, sims, sent>>
    BY <1>6 DEF ReplySave
  <2>2. events' \in 0..MaxEvents /\ haste' \in BOOLEAN
    BY <2>1, RepliesFits
  <2>3. QED
    BY <1>3, <1>4, <2>1, <2>2, Fits, ShowsStep
<1>7. CASE ~AtHome
  <2>1. PICK lost \in BOOLEAN :
            Replies(lost) /\ Becomes(Saved(World, op.question, op.option, lost), c)
    BY <1>7 DEF ReplySave
  <2> HIDE DEF c
  <2>2. events' \in 0..MaxEvents /\ haste' \in BOOLEAN
    BY <2>1, RepliesFits
  <2>3. WorldFits(Saved(World, op.question, op.option, lost), Len(sims))
    BY <1>1, <2>1, SavedFits
  <2>4. QED
    BY <1>3, <1>4, <1>5, <2>1, <2>2, <2>3, BecomesStep
<1>8. QED
  BY <1>6, <1>7

LEMMA ReplyRegenerateFits ==
    ASSUME TypeInv, NEW op \in BagToSet(pending), NEW k \in Keys, ReplyRegenerate(op, k)
    PROVE  TypeInv'
<1> DEFINE q == op.question
           a == session.answers[q]
           c == [cache EXCEPT ![q] = Entry(k)]
           rest == Rest(op) (+) Orphans({q})
<1>1. q \in Questions
  BY Fits DEF PendingFits, OpFits, ReplyRegenerate
<1>2. key' = [key EXCEPT ![q] = k] /\ UNCHANGED <<bank, begun, flagged>>
  BY DEF ReplyRegenerate
<1>3. /\ bank' \in [Questions -> {"live", "discarded"}] /\ key' \in [Questions -> Keys]
      /\ begun' = begun /\ flagged' = flagged
  BY <1>1, <1>2, Fits DEF TypeInv
<1>4. PendingFits(rest, Len(sims))
  <2>1. {q} \in SUBSET Questions
    BY <1>1
  <2>2. QED
    BY <2>1, Fits, RestFits, OrphansFit, SumFits
<1>5. CacheFits(c)
  BY <1>1, Fits, EntryFits
<1>6. a \in Answer \cup {NoAnswer} /\ a.selected \in Keys
  <2>1. a \in Answer \cup {NoAnswer}
    BY <1>1, AnswerTypes
  <2> HIDE DEF a
  <2>2. a \in Answer => a.selected \in Keys
    BY DEF Answer
  <2>3. NoAnswer.selected \in Keys
    BY DEF NoAnswer, Keys
  <2>4. QED
    BY <2>1, <2>2, <2>3
<1>7. CASE AtHome
  <2>1. Replies(FALSE) /\ pending' = rest /\ UNCHANGED <<session, cache, url, sims, sent>>
    BY <1>7 DEF ReplyRegenerate
  <2> HIDE DEF rest
  <2>2. events' \in 0..MaxEvents /\ haste' \in BOOLEAN
    BY <2>1, RepliesFits
  <2>3. QED
    BY <1>3, <1>4, <2>1, <2>2, Fits, ShowsStep
<1>8. CASE ~AtHome /\ (a.selected = NoOption \/ k = NoOption)
  <2>1. Render(session, c) /\ pending' = rest /\ Replies(FALSE) /\ UNCHANGED <<sims, sent>>
    BY <1>8 DEF ReplyRegenerate
  <2> HIDE DEF rest, c
  <2>2. events' \in 0..MaxEvents /\ haste' \in BOOLEAN
    BY <2>1, RepliesFits
  <2>3. QED
    BY <1>3, <1>4, <1>5, <2>1, <2>2, Fits, ShowsStep
<1>9. CASE ~AtHome /\ ~(a.selected = NoOption \/ k = NoOption) /\ a.score = "none"
  <2> DEFINE w(lost) == Sent(World, q, a.selected, ScoreOf(a.selected, k), lost)
             again == [Op("rescore") EXCEPT !.question = q, !.option = k, !.selected = a.selected]
  <2>1. PICK lost \in BOOLEAN :
            /\ sims' = w(lost).sims /\ sent' = w(lost).sent /\ cache' = c /\ Replies(lost)
            /\ pending' = rest (+) SetToBag({again})
            /\ UNCHANGED <<session, url>>
    BY <1>9 DEF ReplyRegenerate
  <2>2. OpFits(again, Len(sims))
    BY <1>1, <1>6, <1>9 DEF OpFits, Op, Request, Keys
  <2>3. ScoreOf(a.selected, k) \in {"right", "wrong"}
    BY <1>6, <1>9, ScoreType
  <2> HIDE DEF rest, c, again, q, a
  <2>4. WorldFits(w(lost), Len(sims))
    BY <1>1, <1>6, <2>1, <2>3, WorldFitsNow, SentFits
  <2> HIDE DEF w
  <2>5. SimsFit(sims') /\ Len(sims') = Len(sims) /\ sent' \in [Questions -> Nat]
    BY <2>1, <2>4 DEF WorldFits
  <2>6. PendingFits(pending', Len(sims))
    BY <1>4, <2>1, <2>2, OneFits, SumFits
  <2>7. PlayFits(session', cache', url', pending', Len(sims'))
    BY <1>5, <2>1, <2>5, <2>6, Fits DEF PlayFits
  <2>8. events' \in 0..MaxEvents /\ haste' \in BOOLEAN
    BY <2>1, RepliesFits
  <2>9. QED
    BY <1>3, <2>5, <2>7, <2>8 DEF TypeInv
<1>10. CASE ~AtHome /\ ~(a.selected = NoOption \/ k = NoOption) /\ a.score # "none"
  <2> DEFINE score == ScoreOf(a.selected, k)
             s == [session EXCEPT !.answers[q].score = score]
  <2>1. /\ Render(s, c) /\ pending' = rest /\ Replies(FALSE) /\ UNCHANGED <<sims, sent>>
    BY <1>10 DEF ReplyRegenerate
  <2>2. score \in {"right", "wrong"} /\ a \in Answer
    BY <1>6, <1>10, ScoreType DEF NoAnswer
  <2> HIDE DEF score
  <2>3. s = [session EXCEPT !.answers[q] = [a EXCEPT !.score = score]]
    BY <1>1, Fits DEF Session
  <2>4. [a EXCEPT !.score = score] \in Answer
    BY <2>2 DEF Answer
  <2> HIDE DEF rest, c, s, a, q
  <2>5. SessionFits(s, Len(sims))
    BY <1>1, <2>3, <2>4, Fits, AnswerFits
  <2>6. events' \in 0..MaxEvents /\ haste' \in BOOLEAN
    BY <2>1, RepliesFits
  <2>7. QED
    BY <1>3, <1>4, <1>5, <2>1, <2>5, <2>6, ShowsStep
<1>11. QED
  BY <1>7, <1>8, <1>9, <1>10

LEMMA ReplyRescoreFits ==
    ASSUME TypeInv, NEW op \in BagToSet(pending), ReplyRescore(op)
    PROVE  TypeInv'
<1> DEFINE b == [selected |-> op.selected, score |-> ScoreOf(op.selected, op.option),
                 assessed |-> FALSE]
           s == [session EXCEPT !.answers[op.question] = b]
<1>1. op.question \in Questions /\ op.option \in Keys /\ op.selected \in Keys
  BY Fits DEF PendingFits, OpFits, ReplyRescore, Request
<1>2. b \in Answer
  BY <1>1, ScoreType DEF Answer
<1>3. /\ Render(s, cache) \/ UNCHANGED <<session, url, cache>>
      /\ pending' = Rest(op) /\ Replies(FALSE)
      /\ UNCHANGED <<bank, sims, key, begun, sent, flagged>>
  BY DEF ReplyRescore, server, ghosts
<1> HIDE DEF b
<1>4. SessionFits(s, Len(sims))
  BY <1>1, <1>2, Fits, AnswerFits
<1> HIDE DEF s
<1>5. events' \in 0..MaxEvents /\ haste' \in BOOLEAN
  BY <1>3, RepliesFits
<1>6. /\ bank' \in [Questions -> {"live", "discarded"}] /\ key' \in [Questions -> Keys]
      /\ PendingFits(pending', Len(sims))
  BY <1>3, Fits, RestFits DEF TypeInv
<1>7. QED
  BY <1>3, <1>4, <1>5, <1>6, Fits, ShowsStep

\* The session that is left when its current question is discarded.
LEMMA WithoutFits ==
    ASSUME TypeInv, NEW q \in Questions
    PROVE  LET s == Without(session, q)
           IN  /\ s \in Session /\ s.kind = session.kind /\ s.sim = session.sim
               /\ s.questions \in Seq(Questions) /\ s.loading = session.loading
               /\ s.limit = session.limit /\ s.finished = session.finished
               /\ s.answers = [session.answers EXCEPT ![q] = NoAnswer]
               /\ s.seen = session.seen /\ s.serial = session.serial
               /\ s.index = session.index
               /\ s.questions = IF session.index < Len(session.questions)
                                THEN RemoveAt(session.questions, session.index + 1)
                                ELSE session.questions
<1> DEFINE qs == IF session.index < Len(session.questions)
                 THEN RemoveAt(session.questions, session.index + 1) ELSE session.questions
           answers == [session.answers EXCEPT ![q] = NoAnswer]
           s == Without(session, q)
<1>1. qs \in Seq(Questions)
  <2>1. CASE session.index < Len(session.questions)
    <3>1. session.index + 1 \in 1..Len(session.questions)
      BY <2>1, Fits
    <3>2. QED
      BY <2>1, <3>1, Fits, RemovedFacts
  <2>2. CASE ~(session.index < Len(session.questions))
    BY <2>2, Fits
  <2>3. QED
    BY <2>1, <2>2
<1>2. answers \in [Questions -> Answer \cup {NoAnswer}]
  BY Fits DEF Session
<1>3. s = [session EXCEPT !.answers = answers, !.questions = qs]
  BY Fits DEF Without, Session
<1> HIDE DEF s, answers, qs
<1>4. /\ s \in Session /\ s.kind = session.kind /\ s.sim = session.sim
      /\ s.questions = qs /\ s.loading = session.loading
      /\ s.limit = session.limit /\ s.finished = session.finished
      /\ s.answers = answers /\ s.seen = session.seen /\ s.serial = session.serial
      /\ s.index = session.index
  BY <1>1, <1>2, <1>3, Fits DEF Session
<1>5. QED
  BY <1>1, <1>4 DEF s, answers, qs

LEMMA ReplyDiscardFits ==
    ASSUME TypeInv, NEW op \in BagToSet(pending), ReplyDiscard(op)
    PROVE  TypeInv'
<1> DEFINE s == Without(session, op.question)
           end == IF s.questions = <<>> THEN 0 ELSE Len(s.questions) - 1
           limit == IF s.limit = 0 THEN 0 ELSE s.limit - 1
           inReview == [s EXCEPT !.limit = limit, !.index = end]
           inSimulation == [s EXCEPT !.index = Smaller(s.index, end)]
<1>1. op.question \in Questions
  BY Fits DEF PendingFits, OpFits, ReplyDiscard
<1>2. /\ Replies(FALSE) /\ UNCHANGED <<sims, key, begun>>
      /\ bank' = [bank EXCEPT ![op.question] = "discarded"]
  BY DEF ReplyDiscard
<1>3. /\ s \in Session /\ s.kind = session.kind /\ s.sim = session.sim
      /\ s.questions \in Seq(Questions)
  BY <1>1, WithoutFits
<1>4. PendingFits(Rest(op), Len(sims))
  BY Fits, RestFits
<1>5. events' \in 0..MaxEvents /\ haste' \in BOOLEAN
  BY <1>2, RepliesFits
<1>6. bank' \in [Questions -> {"live", "discarded"}]
  BY <1>2 DEF TypeInv
<1>7. ASSUME PlayFits(session', cache', url', pending', Len(sims)),
             sent' \in [Questions -> Nat], flagged' \subseteq Questions
      PROVE  TypeInv'
  BY <1>2, <1>5, <1>6, <1>7, Fits DEF TypeInv
<1>8. /\ flagged \cup {op.question} \subseteq Questions
      /\ sent \in [Questions -> Nat] /\ flagged \subseteq Questions
  BY <1>1 DEF TypeInv
<1>9. end \in Nat /\ (s.questions # <<>> => end < Len(s.questions)) /\ (s.questions = <<>> => end = 0)
  <2>1. s.questions # <<>> => Len(s.questions) \in Nat \ {0}
    BY <1>3, EmptySeq
  <2> HIDE DEF s
  <2>2. QED
    BY <2>1
<1> HIDE DEF s, end
<1>10. CASE AtHome
  <2>1. pending' = Rest(op) /\ UNCHANGED <<session, url, cache, sent, flagged>>
    BY <1>10 DEF ReplyDiscard
  <2>2. PlayFits(session', cache', url', pending', Len(sims))
    BY <1>4, <2>1, Fits DEF PlayFits
  <2>3. QED
    BY <1>7, <1>8, <2>1, <2>2
<1>11. CASE ~AtHome /\ s.kind = "simulation" /\ s.questions = <<>>
  <2>1. Exit(Rest(op))
    BY <1>11 DEF ReplyDiscard, s, end
  <2>2. QED
    BY <1>4, <1>7, <2>1, Fits, ExitFits
<1>12. CASE ~AtHome /\ s.kind = "review"
  <2>1. /\ LoadNext(inReview, Rest(op))
        /\ flagged' = flagged \cup {op.question} /\ UNCHANGED sent
    BY <1>12 DEF ReplyDiscard, s, end
  <2>2. /\ SessionFits(session, Len(sims)) /\ UrlFits(url, session, Len(sims))
        /\ session.kind = "review"
    BY <1>3, <1>12, Fits
  <2>3. limit \in 0..ReviewLength
    BY <1>3, PlayerAssumption DEF Session
  <2> HIDE DEF limit
  <2>4. SessionFits(inReview, Len(sims)) /\ inReview.kind = "review"
    BY <1>3, <1>9, <1>12, <2>2, <2>3 DEF SessionFits, Session
  <2>5. UrlOf(inReview) = NoUrl /\ UrlOf(session) = NoUrl
    BY <2>2, <2>4 DEF UrlOf
  <2> HIDE DEF inReview
  <2>6. UrlFits(url, inReview, Len(sims))
    BY <2>2, <2>5 DEF UrlFits
  <2>7. PlayFits(session', cache', url', pending', Len(sims))
    BY <1>4, <2>1, <2>4, <2>6, Fits, LoadNextFits
  <2>8. QED
    BY <1>7, <1>8, <2>1, <2>7
<1>13. CASE ~AtHome /\ s.kind = "simulation" /\ s.questions # <<>>
  <2>1. /\ Render(inSimulation, cache) /\ pending' = Rest(op)
        /\ flagged' = flagged \cup {op.question} /\ UNCHANGED sent
    BY <1>13 DEF ReplyDiscard, s, end
  <2>2. Smaller(s.index, end) \in Nat /\ Smaller(s.index, end) <= end
    <3>1. s.index \in Nat
      BY <1>3 DEF Session
    <3>2. QED
      BY <1>9, <3>1 DEF Smaller
  <2>3. Smaller(s.index, end) < Len(s.questions)
    <3>1. Len(s.questions) \in Nat
      BY <1>3, LenProperties
    <3>2. QED
      BY <1>9, <1>13, <2>2, <3>1
  <2>4. SessionFits(inSimulation, Len(sims))
    BY <1>3, <1>13, <2>2, <2>3, Fits DEF SessionFits, Session
  <2> HIDE DEF inSimulation
  <2>5. SessionFits(session', Len(sims)) /\ CacheFits(cache') /\ UrlFits(url', session', Len(sims))
    BY <2>1, <2>4, Fits, RenderFits
  <2>6. PlayFits(session', cache', url', pending', Len(sims))
    BY <1>4, <2>1, <2>5 DEF PlayFits
  <2>7. QED
    BY <1>7, <1>8, <2>1, <2>6
<1>14. s.kind \in {"home", "simulation", "review"} /\ (s.kind = "home" <=> AtHome)
  BY <1>3 DEF Session, AtHome
<1>15. QED
  BY <1>10, <1>11, <1>12, <1>13, <1>14

LEMMA LoadedFits ==
    ASSUME TypeInv, NEW op
    PROVE  SessionFits(Loaded(op), Len(sims)) /\ Loaded(op).questions = session.questions
           /\ Loaded(op) = [session EXCEPT !.loading = IF session.serial = op.number THEN FALSE
                                                       ELSE session.loading]
<1>1. SessionFits([session EXCEPT !.loading = FALSE], Len(sims))
  BY Fits, LoadingType
<1>2. QED
  BY <1>1, Fits DEF Loaded, Session

\* What the replies to a request for the next question have in common.
LEMMA ReplyNextStep ==
    ASSUME TypeInv, NEW op, NEW s, SessionFits(s, Len(sims)), NEW c, CacheFits(c),
           Render(s, c) \/ UNCHANGED <<session, url, cache>>,
           pending' = Rest(op), NEW lost, Replies(lost), UNCHANGED <<server, ghosts>>
    PROVE  TypeInv'
<1>1. UNCHANGED <<bank, sims, key, begun, sent, flagged>>
  BY DEF server, ghosts
<1>2. events' \in 0..MaxEvents /\ haste' \in BOOLEAN
  BY RepliesFits
<1>3. /\ bank' \in [Questions -> {"live", "discarded"}] /\ key' \in [Questions -> Keys]
      /\ PendingFits(pending', Len(sims))
  BY <1>1, Fits, RestFits DEF TypeInv
<1>4. QED
  BY <1>1, <1>2, <1>3, ShowsStep

LEMMA ReplyNextOverFits ==
    ASSUME TypeInv, NEW op, ReplyNextOver(op)
    PROVE  TypeInv'
<1>1. SessionFits([Loaded(op) EXCEPT !.finished = TRUE], Len(sims))
  BY LoadedFits, LoadingType
<1>2. /\ Render([Loaded(op) EXCEPT !.finished = TRUE], cache) \/ UNCHANGED <<session, url, cache>>
      /\ pending' = Rest(op) /\ Replies(FALSE) /\ UNCHANGED <<server, ghosts>>
  BY DEF ReplyNextOver, Finish
<1>3. QED
  BY <1>1, <1>2, Fits, ReplyNextStep

LEMMA NextFailsFits ==
    ASSUME TypeInv, NEW op, NextFails(op)
    PROVE  TypeInv'
<1>1. /\ Render(Loaded(op), cache) \/ UNCHANGED <<session, url, cache>>
      /\ pending' = Rest(op) /\ Replies(TRUE) /\ UNCHANGED <<server, ghosts>>
  BY DEF NextFails
<1>2. QED
  BY <1>1, Fits, LoadedFits, ReplyNextStep

LEMMA ReplyNextQuestionFits ==
    ASSUME TypeInv, NEW op, NEW q \in Questions, ReplyNextQuestion(op, q)
    PROVE  TypeInv'
<1> DEFINE qs == Append(session.questions, q)
           seen == IF session.serial = op.number THEN session.seen \cup {q} ELSE session.seen
           s == [Loaded(op) EXCEPT !.questions = Append(@, q), !.index = Len(session.questions),
                    !.seen = IF session.serial = op.number THEN @ \cup {q} ELSE @]
           c == Fetched(cache, {q})
<1>1. /\ Render(s, c) \/ UNCHANGED <<session, url, cache>>
      /\ pending' = Rest(op) /\ Replies(FALSE) /\ UNCHANGED <<server, ghosts>>
  BY DEF ReplyNextQuestion
<1>2. qs \in Seq(Questions) /\ Len(qs) = Len(session.questions) + 1 /\ qs # <<>>
  <2>1. qs \in Seq(Questions) /\ Len(qs) = Len(session.questions) + 1
    BY Fits, AppendedFacts
  <2> HIDE DEF qs
  <2>2. qs # <<>>
    BY <2>1, Fits, EmptySeq
  <2>3. QED
    BY <2>1, <2>2
<1>3. seen \subseteq Questions
  BY Fits DEF Session
<1>4. s = [Loaded(op) EXCEPT !.questions = qs, !.index = Len(session.questions), !.seen = seen]
  <2> DEFINE l == Loaded(op)
  <2>1. l.questions = session.questions /\ l.seen = session.seen
    <3>1. l = [session EXCEPT !.loading = IF session.serial = op.number THEN FALSE
                                          ELSE session.loading]
      BY LoadedFits
    <3>2. session \in Session
      BY Fits
    <3> HIDE DEF l
    <3>3. QED
      BY <3>1, <3>2 DEF Session
  <2> HIDE DEF l
  <2>2. [l EXCEPT !.questions = Append(@, q), !.index = Len(session.questions),
                  !.seen = IF session.serial = op.number THEN @ \cup {q} ELSE @]
        = [l EXCEPT !.questions = qs, !.index = Len(session.questions), !.seen = seen]
    BY <2>1
  <2>3. QED
    BY <2>2 DEF l
<1> HIDE DEF qs, seen, s
<1>5. SessionFits(s, Len(sims))
  <2> DEFINE l == Loaded(op)
  <2>1. SessionFits(l, Len(sims)) /\ Len(session.questions) \in Nat
    BY Fits, LoadedFits
  <2> HIDE DEF l
  <2>2. s = [l EXCEPT !.questions = qs, !.index = Len(session.questions), !.seen = seen]
    BY <1>4 DEF l
  <2>3. Len(session.questions) < Len(qs)
    BY <1>2, <2>1
  <2>4. QED
    BY <1>2, <1>3, <2>1, <2>2, <2>3 DEF SessionFits, Session
<1>6. CacheFits(c)
  BY Fits, FetchedFits
<1> HIDE DEF c
<1>7. QED
  BY <1>1, <1>5, <1>6, ReplyNextStep

-----------------------------------------------------------------------------
(* Simulations that are stored, opened and deleted.                        *)

LEMMA NewSimulationFits ==
    ASSUME NEW config \in Requests, NEW qs \in Seq(Questions)
    PROVE  /\ NewSimulation(config, qs) \in Simulation
           /\ NewSimulation(config, qs).questions = qs
  BY DEF NewSimulation, Simulation

LEMMA NoRequestType == NoRequest \in Requests
  BY DEF NoRequest, Requests

LEMMA StoredFits ==
    ASSUME TypeInv, Len(sims) < MaxSims, NEW config \in Requests, NEW qs \in Seq(Questions),
           Distinct(qs)
    PROVE  SimsFit(Stored(config, qs)) /\ Len(Stored(config, qs)) = Len(sims) + 1
<1> DEFINE row == NewSimulation(config, qs)
           t == Append(sims, row)
<1>1. sims \in Seq(Simulation) /\ Len(sims) \in Nat /\ MaxSims \in Nat
  BY Fits, SimulationsAssumption DEF SimsFit
<1>2. row \in Simulation /\ row.questions = qs
  BY NewSimulationFits
<1> HIDE DEF row
<1>3. /\ t \in Seq(Simulation) /\ Len(t) = Len(sims) + 1
      /\ \A i \in 1..Len(sims) : t[i] = sims[i]
      /\ t[Len(sims) + 1] = row
  BY <1>1, <1>2, AppendProperties
<1>4. DOMAIN t = 1..(Len(sims) + 1) /\ DOMAIN sims = 1..Len(sims)
  BY <1>1, <1>3, LenProperties
<1> HIDE DEF t
<1>5. \A i \in DOMAIN t : Distinct(t[i].questions)
  <2> TAKE i \in DOMAIN t
  <2>1. i \in 1..Len(sims) \/ i = Len(sims) + 1
    BY <1>1, <1>4
  <2>2. CASE i \in 1..Len(sims)
    BY <1>3, <1>4, <2>2, Fits DEF SimsFit
  <2>3. CASE i = Len(sims) + 1
    BY <1>2, <1>3, <2>3
  <2>4. QED
    BY <2>1, <2>2, <2>3
<1>6. SimsFit(t)
  BY <1>1, <1>3, <1>5 DEF SimsFit
<1>7. QED
  BY <1>3, <1>6 DEF t, row, Stored

LEMMA ReplyNewSimulationFits ==
    ASSUME TypeInv, NEW op, NEW config \in Requests, NEW qs \in Seq(Questions), Distinct(qs),
           ReplyNewSimulation(op, config, qs)
    PROVE  TypeInv'
<1> DEFINE n == Len(sims) + 1
<1>1. /\ Len(sims) < MaxSims /\ sims' = Stored(config, qs) /\ Replies(FALSE)
      /\ UNCHANGED <<bank, key>>
  BY DEF ReplyNewSimulation
<1>2. SimsFit(sims') /\ Len(sims') = n
  BY <1>1, StoredFits
<1>3. Len(sims) \in Nat /\ n \in Nat /\ n \in 0..MaxSims /\ Len(sims) <= n
  BY <1>1, Fits, SimulationsAssumption
<1>4. PlayFits(session, cache, url, pending, n)
  BY <1>3, Fits, FitsGrow
<1>5. PendingFits(Rest(op), n)
  BY <1>4, RestFits DEF PlayFits
<1>6. events' \in 0..MaxEvents /\ haste' \in BOOLEAN
  BY <1>1, RepliesFits
<1>7. begun \in 0..MaxSessions
  BY DEF TypeInv
<1>8. CASE qs = <<>>
  <2>1. pending' = Rest(op) /\ UNCHANGED <<session, url, cache, begun, sent, flagged>>
    BY <1>8 DEF ReplyNewSimulation, ghosts
  <2> HIDE DEF n
  <2>2. PlayFits(session', cache', url', pending', n)
    BY <1>4, <1>5, <2>1 DEF PlayFits
  <2>3. QED
    BY <1>1, <1>2, <1>6, <2>1, <2>2 DEF TypeInv
<1>9. CASE qs # <<>>
  <2> DEFINE s == NewSession("simulation", n, qs)
  <2>1. Enter(s, Rest(op))
    BY <1>9 DEF ReplyNewSimulation
  <2>2. n \in 0..n /\ n # 0 /\ "simulation" \in {"simulation", "review"} /\ MayEnter
    BY <1>3, <2>1 DEF Enter
  <2> HIDE DEF n
  <2>3. SessionFits(s, n)
    BY <1>3, <1>7, <1>9, <2>2, NewSessionFits
  <2> HIDE DEF s
  <2>4. /\ PlayFits(session', cache', url', pending', n)
        /\ sent' \in [Questions -> Nat] /\ flagged' \subseteq Questions
        /\ begun' \in 0..MaxSessions
    BY <1>3, <1>4, <1>5, <1>7, <2>1, <2>3, Fits, EnterFits
  <2>5. QED
    BY <1>1, <1>2, <1>6, <2>4 DEF TypeInv
<1>10. QED
  BY <1>8, <1>9

LEMMA ReplyStartFits ==
    ASSUME TypeInv, NEW op \in BagToSet(pending), ReplyStart(op)
    PROVE  TypeInv'
<1>1. op.number \in DOMAIN Offers
  BY Fits DEF PendingFits, OpFits, ReplyStart
<1>2. Offers[op.number] \in Requests
  BY <1>1, PlayerAssumption, LenProperties, ElementOfSeq
<1>3. PICK qs \in Generated(Offers[op.number]) : ReplyNewSimulation(op, Offers[op.number], qs)
  BY DEF ReplyStart
<1>4. QED
  BY <1>2, <1>3, GeneratedFacts, ReplyNewSimulationFits

LEMMA ReplyRetryFits ==
    ASSUME TypeInv, NEW op \in BagToSet(pending), ReplyRetry(op)
    PROVE  TypeInv'
<1>1. op.ids \in SUBSET Questions
  BY Fits DEF PendingFits, OpFits, Request
<1>2. PICK qs \in FromQuestions(op.ids) : ReplyNewSimulation(op, NoRequest, qs)
  BY DEF ReplyRetry
<1>3. QED
  BY <1>1, <1>2, NoRequestType, FromQuestionsFacts, ReplyNewSimulationFits

LEMMA StoredRow ==
    ASSUME TypeInv, NEW id \in 1..Len(sims)
    PROVE  /\ sims[id] \in Simulation /\ sims[id].questions \in Seq(Questions)
           /\ sims[id].latest \in [Questions -> Attempt \cup {NoAttempt}]
           /\ Resumed(id) \in Seq(Questions) /\ Distinct(Resumed(id))
<1>1. sims \in Seq(Simulation) /\ DOMAIN sims = 1..Len(sims)
  BY LenProperties DEF TypeInv, SimsFit
<1>2. sims[id] \in Simulation /\ Distinct(sims[id].questions)
  BY <1>1, ElementOfSeq DEF TypeInv, SimsFit
<1>3. /\ sims[id].questions \in Seq(Questions)
      /\ sims[id].latest \in [Questions -> Attempt \cup {NoAttempt}]
  BY <1>2 DEF Simulation
<1>4. Resumed(id) \in Seq(Questions) /\ Distinct(Resumed(id))
  BY <1>2, <1>3, KeptFacts DEF Resumed
<1>5. QED
  BY <1>2, <1>3, <1>4

LEMMA RestoredType ==
    ASSUME NEW a \in Attempt \cup {NoAttempt}
    PROVE  /\ Restored(a) \in Answer \cup {NoAnswer}
           /\ Restored(a) # NoAnswer => Restored(a).score \in {"right", "wrong"}
<1>1. CASE a = NoAttempt
  BY <1>1 DEF Restored
<1>2. CASE a # NoAttempt
  <2>1. a \in Attempt /\ a.selected \in Keys /\ a.score \in {"right", "wrong"}
    BY <1>2 DEF Attempt, Keys
  <2>2. Restored(a) = [selected |-> a.selected, score |-> a.score, assessed |-> FALSE]
    BY <1>2 DEF Restored
  <2>3. QED
    BY <2>1, <2>2 DEF Answer
<1>3. QED
  BY <1>1, <1>2

\* A simulation that is opened again, at the place that was asked for or at the
\* first question without an answer.
LEMMA ReopenedFits ==
    ASSUME TypeInv, MayEnter, NEW id \in 1..Len(sims), NEW mode, NEW at \in Nat,
           Resumed(id) # <<>>
    PROVE  LET s == Reopened(id, mode, at)
               qs == Resumed(id)
           IN  /\ SessionFits(s, Len(sims)) /\ s.questions = qs /\ s.kind = "simulation"
               /\ s.loading = FALSE
               /\ s.answers = [q \in Questions |-> IF q \in ToSet(qs)
                                                   THEN Restored(sims[id].latest[q]) ELSE NoAnswer]
<1> DEFINE s == Reopened(id, mode, at)
           qs == Resumed(id)
           new == NewSession("simulation", id, qs)
           answers == [q \in Questions |-> IF q \in ToSet(qs) THEN Restored(sims[id].latest[q])
                                           ELSE NoAnswer]
           open == {i \in DOMAIN qs : answers[qs[i]] = NoAnswer}
           first == IF open = {} THEN 0 ELSE (CHOOSE i \in open : \A j \in open : i <= j) - 1
           index == IndexIn(IF mode = "at" THEN at ELSE first, qs)
           finished == mode = "results" \/ (mode = "resume" /\ open = {})
<1>1. qs \in Seq(Questions) /\ DOMAIN qs = 1..Len(qs) /\ Len(qs) \in Nat \ {0}
  BY StoredRow, LenProperties, EmptySeq
<1>2. s = [new EXCEPT !.answers = answers, !.index = index, !.finished = finished]
  BY DEF Reopened
<1>3. \A q \in Questions : sims[id].latest[q] \in Attempt \cup {NoAttempt}
  BY StoredRow
<1> HIDE DEF qs
<1>4. answers \in [Questions -> Answer \cup {NoAnswer}]
  BY <1>3, RestoredType
<1>5. open \subseteq 1..Len(qs)
  BY <1>1
<1> HIDE DEF open
<1>6. first \in Nat
  BY <1>1, <1>5, FirstFits
<1> HIDE DEF first
<1>7. index \in Nat /\ index < Len(qs)
  BY <1>1, <1>6 DEF IndexIn, Smaller
<1>8. begun \in 0..MaxSessions /\ id \in 0..Len(sims) /\ id # 0
  BY Fits DEF TypeInv
<1>9. "simulation" \in {"simulation", "review"} /\ qs # <<>>
  BY DEF qs
<1>10. /\ SessionFits(new, Len(sims))
       /\ new = [Home EXCEPT !.kind = "simulation", !.serial = begun + 1, !.sim = id,
                             !.questions = qs]
  <2> DEFINE n == Len(sims)
  <2>1. /\ n \in 0..MaxSims /\ id \in 0..n /\ id # 0 /\ begun \in 0..MaxSessions
        /\ qs \in Seq(Questions) /\ qs # <<>>
    BY <1>1, <1>8, <1>9, Fits
  <2> HIDE DEF n, new
  <2>2. SessionFits(NewSession("simulation", id, qs), n)
    BY <1>9, <2>1, NewSessionFits
  <2>3. QED
    BY <2>2 DEF n, new, NewSession
<1>11. new.kind = "simulation" /\ new.questions = qs /\ new.loading = FALSE
  BY <1>10 DEF Home
<1>12. finished \in BOOLEAN
  OBVIOUS
<1> HIDE DEF s, new, answers, index, finished
<1>13. SessionFits(s, Len(sims))
  BY <1>2, <1>4, <1>7, <1>9, <1>10, <1>11, <1>12 DEF SessionFits, Session
<1>14. /\ s.questions = qs /\ s.kind = "simulation" /\ s.loading = FALSE /\ s.answers = answers
  BY <1>2, <1>10, <1>11 DEF SessionFits, Session
<1>15. QED
  BY <1>13, <1>14 DEF s, qs, answers

LEMMA ReplyOpenFits ==
    ASSUME TypeInv, NEW op \in BagToSet(pending), ReplyOpen(op)
    PROVE  TypeInv'
<1> DEFINE s == Reopened(op.number, op.mode, op.at)
<1>1. /\ op.op = "open" /\ s.questions # <<>> /\ Enter(s, Rest(op))
      /\ Replies(FALSE) /\ UNCHANGED <<bank, sims, key>>
  BY DEF ReplyOpen, server
<1>2. op.number \in 1..Len(sims) /\ op.at \in Nat
  BY <1>1, Fits DEF PendingFits, OpFits, Request
<1>3. MayEnter /\ begun \in 0..MaxSessions
  BY <1>1 DEF Enter, TypeInv
<1>4. Resumed(op.number) # <<>>
  <2>1. s.questions = Resumed(op.number)
    BY DEF Reopened, NewSession, Home
  <2>2. QED
    BY <1>1, <2>1
<1>5. SessionFits(s, Len(sims))
  BY <1>2, <1>3, <1>4, ReopenedFits
<1> HIDE DEF s
<1>6. PendingFits(Rest(op), Len(sims))
  BY Fits, RestFits
<1>7. /\ PlayFits(session', cache', url', pending', Len(sims))
      /\ sent' \in [Questions -> Nat] /\ flagged' \subseteq Questions
      /\ begun' \in 0..MaxSessions
  BY <1>1, <1>3, <1>5, <1>6, Fits, EnterFits
<1>8. events' \in 0..MaxEvents /\ haste' \in BOOLEAN
  BY <1>1, RepliesFits
<1>9. QED
  BY <1>1, <1>7, <1>8 DEF TypeInv

LEMMA RequestFailsFits ==
    ASSUME TypeInv, NEW op, RequestFails(op)
    PROVE  TypeInv'
<1>1. /\ pending' = Rest(op) /\ Replies(~NothingToOpen(op))
      /\ UNCHANGED <<server, ghosts>> /\ UNCHANGED <<session, url, cache>>
  BY DEF RequestFails
<1>2. QED
  BY <1>1, Fits, ReplyNextStep

LEMMA DeletedFits ==
    ASSUME TypeInv, NEW id \in DOMAIN sims, DeleteSimulation(id)
    PROVE  SimsFit(sims') /\ Len(sims') = Len(sims)
<1> DEFINE new == NewSimulation(NoRequest, <<>>)
           row == [new EXCEPT !.gone = TRUE]
<1>1. sims' = [sims EXCEPT ![id] = row]
  BY DEF DeleteSimulation
<1>2. <<>> \in Seq(Questions) /\ Distinct(<<>>)
  BY EmptySeq DEF Distinct
<1>3. row \in Simulation /\ row.questions = <<>>
  <2>1. new \in Simulation /\ new.questions = <<>>
    BY <1>2, NoRequestType, NewSimulationFits
  <2> HIDE DEF new
  <2>2. QED
    BY <2>1 DEF Simulation
<1> HIDE DEF row
<1>4. sims \in Seq(Simulation) /\ id \in 1..Len(sims) /\ DOMAIN sims = 1..Len(sims)
  BY Fits, LenProperties DEF SimsFit
<1>5. /\ sims' \in Seq(Simulation) /\ Len(sims') = Len(sims)
      /\ \A j \in 1..Len(sims) : sims'[j] = IF j = id THEN row ELSE sims[j]
  BY <1>1, <1>3, <1>4, ExceptSeq
<1>6. DOMAIN sims' = 1..Len(sims)
  BY <1>5, LenProperties
<1>7. QED
  BY <1>2, <1>3, <1>4, <1>5, <1>6, Fits DEF SimsFit

LEMMA OtherPageFits ==
    ASSUME TypeInv, OtherPage
    PROVE  TypeInv'
<1>1. UNCHANGED <<session, cache, pending, url, begun, sent, flagged>>
  BY DEF OtherPage, ghosts
<1>2. events' \in 0..MaxEvents /\ haste' \in BOOLEAN
  BY RepliesFits DEF OtherPage
<1>3. /\ bank' \in [Questions -> {"live", "discarded"}] /\ key' \in [Questions -> Keys]
      /\ SimsFit(sims') /\ Len(sims') = Len(sims)
  <2>1. CASE \E q \in Questions : /\ bank' = [bank EXCEPT ![q] = IF @ = "live" THEN "discarded"
                                                                ELSE "live"]
                                  /\ UNCHANGED <<key, sims>>
    BY <2>1 DEF TypeInv
  <2>2. CASE \E q \in Questions, k \in Options : /\ key' = [key EXCEPT ![q] = k]
                                                 /\ UNCHANGED <<bank, sims>>
    BY <2>2 DEF TypeInv, Keys
  <2>3. CASE \E id \in DOMAIN sims : DeleteSimulation(id) /\ UNCHANGED <<bank, key>>
    BY <2>3, DeletedFits DEF TypeInv
  <2>4. QED
    BY <2>1, <2>2, <2>3 DEF OtherPage
<1>4. PlayFits(session', cache', url', pending', Len(sims'))
  BY <1>1, <1>3, Fits
<1>5. QED
  BY <1>1, <1>2, <1>3, <1>4 DEF TypeInv

-----------------------------------------------------------------------------
(* Every step.                                                             *)

LEMMA InitTypes == Init => TypeInv
<1> SUFFICES ASSUME Init
             PROVE  TypeInv
  OBVIOUS
<1>1. /\ bank = [q \in Questions |-> "live"] /\ sims = <<>>
      /\ session = Home /\ cache = EmptyCache /\ pending = EmptyBag /\ url = NoUrl
      /\ begun = 0 /\ events = 0 /\ haste = FALSE
      /\ sent = [q \in Questions |-> 0] /\ flagged = {}
  BY DEF Init
<1>2. key \in [Questions -> Keys]
  BY PlayerAssumption DEF Init, Keys
<1>3. SimsFit(sims) /\ Len(sims) = 0
  <2>1. <<>> \in Seq(Simulation) /\ Len(<<>>) = 0 /\ DOMAIN <<>> = {}
    BY EmptySeq
  <2>2. QED
    BY <1>1, <2>1, SimulationsAssumption DEF SimsFit
<1>4. PlayFits(session, cache, url, pending, 0)
  <2>1. SessionFits(session, 0) /\ session.kind = "home"
    BY <1>1, HomeFits
  <2>2. UrlFits(url, session, 0)
    BY <1>1, <2>1 DEF UrlFits
  <2>3. QED
    BY <1>1, <2>1, <2>2, EmptyCacheFits, NoneFits DEF PlayFits
<1>5. 0 \in 0..MaxSessions /\ 0 \in 0..MaxEvents
  BY PlayerAssumption
<1>6. QED
  BY <1>1, <1>2, <1>3, <1>4, <1>5 DEF TypeInv

LEMMA StepTypes == TypeInv /\ [Next]_vars => TypeInv'
<1> SUFFICES ASSUME TypeInv, [Next]_vars
             PROVE  TypeInv'
  OBVIOUS
<1>1. CASE OnHome
  BY <1>1, StartSimulationFits, OpenSimulationFits, StartReviewFits DEF OnHome
<1>2. ASSUME NEW q \in Questions, OnQuestion(q) PROVE TypeInv'
  <2>1. CASE \E o \in Options : AnswerQuestion(q, o) \/ SaveKey(q, o)
    BY <2>1, AnswerQuestionFits, SaveKeyFits
  <2>2. CASE DontKnow(q) \/ Reveal(q) \/ \E score \in {"right", "wrong"} : SelfAssess(q, score)
    BY <2>2, DontKnowFits, RevealFits, SelfAssessFits
  <2>3. CASE NextInSimulation(q) \/ NextInReview(q) \/ RegenerateWithAi(q) \/ DiscardCurrent(q)
    BY <2>3, NextInSimulationFits, NextInReviewFits, RegenerateFits, DiscardCurrentFits
  <2>4. QED
    BY <1>2, <2>1, <2>2, <2>3 DEF OnQuestion
<1>3. CASE OnSession
  <2>1. CASE \E q \in Questions : OnQuestion(q)
    BY <1>2, <2>1
  <2>2. CASE GoPrev \/ ExitSession \/ ResumeSkipped \/ RetryMistakes \/ Reload
    BY <2>2, GoPrevFits, ExitSessionFits, ResumeSkippedFits, RetryMistakesFits, ReloadFits
  <2>3. CASE \E value \in BOOLEAN : SetPicking(value)
    BY <2>3, SetPickingFits
  <2>4. QED
    BY <1>3, <2>1, <2>2, <2>3 DEF OnSession
<1>4. CASE OtherPage
  BY <1>4, OtherPageFits
<1>5. ASSUME NEW op \in BagToSet(pending), Reply(op) PROVE TypeInv'
  <2>1. CASE ReplySave(op) \/ ReplyDiscard(op) \/ ReplyRescore(op)
    BY <2>1, ReplySaveFits, ReplyDiscardFits, ReplyRescoreFits
  <2>2. CASE ReplyStart(op) \/ ReplyRetry(op) \/ ReplyOpen(op) \/ RequestFails(op)
    BY <2>2, ReplyStartFits, ReplyRetryFits, ReplyOpenFits, RequestFailsFits
  <2>3. CASE \E k \in Keys : ReplyRegenerate(op, k) \/ ReplyOrphan(op, k)
    BY <2>3, ReplyRegenerateFits, ReplyOrphanFits
  <2>4. QED
    BY <1>5, <2>1, <2>2, <2>3 DEF Reply
<1>6. ASSUME NEW op \in BagToSet(pending), ReplyNext(op) PROVE TypeInv'
  BY <1>6, ReplyNextOverFits, NextFailsFits, ReplyNextQuestionFits DEF ReplyNext
<1>7. CASE \E q \in Questions, k \in Keys : ReplyCorrection(q, k)
  BY <1>7, ReplyCorrectionFits
<1>8. CASE UNCHANGED vars
  BY <1>8 DEF vars, TypeInv
<1>9. QED
  BY <1>1, <1>3, <1>4, <1>5, <1>6, <1>7, <1>8 DEF Next

LEMMA TypeInvariant == Spec => []TypeInv
  BY InitTypes, StepTypes, PTL DEF Spec

\* TypeOK, for any number of questions, sessions and requests in flight: no
\* late reply leaves the session, the cache or the stored simulations in a form
\* their readers do not expect, or the position outside the list.
THEOREM TypeCorrect == Spec => []TypeOK
  BY TypeInvariant, TypeInvGivesTypeOK, PTL

\* The address always tells the session that is open and a question it has.
THEOREM UrlTellsSessionHolds == Spec => []UrlTellsSession
  BY TypeInvariant, TypeInvGivesUrl, PTL

-----------------------------------------------------------------------------
(* A user who waits for replies.                                           *)

\* A session and the attempts it has sent: every answer belongs to a question
\* that is shown, what was discarded is not shown again, and a review knows all
\* it has shown.
Sound(s, sn, fl) ==
    /\ Distinct(s.questions)
    /\ \A q \in ToSet(s.questions) : q \notin fl
    /\ \A q \in Questions : Has(s, q) => q \in ToSet(s.questions)
    /\ \A q \in Questions : ~Has(s, q) /\ q \notin fl => sn[q] = 0
    /\ s.kind = "review" => /\ Len(s.questions) <= s.limit
                            /\ ToSet(s.questions) \subseteq s.seen /\ fl \subseteq s.seen

Scored(s, sn, q) ==
    Has(s, q) => /\ sn[q] > 0 <=> s.answers[q].score # "none"
                 /\ Mcq(q) => sn[q] <= 1

Settled(s, sn) == \A q \in Questions : Scored(s, sn, q)

NoWaiters(c) == \A q \in Questions : c[q].waiters = <<>>

\* Nothing is due.
Idle(s, c, sn, p) == p = EmptyBag /\ ~s.loading /\ NoWaiters(c) /\ Settled(s, sn)

\* The answer to the current question waits for its correction, nothing else.
WaitsFor(q, o, s, c) ==
    /\ q \in Current(s) /\ s.kind # "home" /\ ~Has(s, q)
    /\ c[q].at = "wait" /\ c[q].waiters = <<o>>
    /\ \A r \in Questions : r # q => c[r].waiters = <<>>

Waits(s, c, sn, p) ==
    /\ p = EmptyBag /\ ~s.loading /\ Settled(s, sn)
    /\ \E q \in Questions, o \in Options : WaitsFor(q, o, s, c)

\* One request is in flight, and it belongs to the session as it is; between the
\* attempt of a regenerated key and its answer, the question is still to be scored.
Belongs(op, s, sn) ==
    /\ op.op # "orphan"
    /\ op.op = "discard" => op.question \in Current(s)
    /\ op.op = "rescore" => /\ s.kind # "home"
                            /\ s.answers[op.question].selected = op.selected
                            /\ s.answers[op.question].score = "none"
                            /\ sn[op.question] = 1
    /\ op.op = "next" => /\ s.kind = "review" /\ s.serial = op.number /\ op.ids = s.seen
                         /\ Len(s.questions) < s.limit
    /\ s.loading <=> op.op = "next"

Asked(op, s, c, sn, p) ==
    /\ p = SetToBag({op}) /\ Belongs(op, s, sn) /\ NoWaiters(c)
    /\ \A q \in Questions : Scored(s, sn, q) \/ (op.op = "rescore" /\ op.question = q)

Calm(s, c, sn, fl, p) ==
    /\ Sound(s, sn, fl)
    /\ \/ Idle(s, c, sn, p)
       \/ Waits(s, c, sn, p)
       \/ \E op \in BagToSet(p) : Asked(op, s, c, sn, p)

CalmInv == haste \/ Calm(session, cache, sent, flagged, pending)

\* Bags of none and of one request.
LEMMA BagFacts ==
    /\ EmptyBag (+) EmptyBag = EmptyBag
    /\ \A op : /\ EmptyBag (+) SetToBag({op}) = SetToBag({op})
               /\ SetToBag({op}) (+) EmptyBag = SetToBag({op})
               /\ SetToBag({op}) (-) SetToBag({op}) = EmptyBag
               /\ BagToSet(SetToBag({op})) = {op}
    /\ BagToSet(EmptyBag) = {}
<1>1. EmptyBag (+) EmptyBag = EmptyBag
  BY DEF EmptyBag, SetToBag, (+), BagToSet
<1>2. BagToSet(EmptyBag) = {} /\ \A op : BagToSet(SetToBag({op})) = {op}
  BY DEF EmptyBag, SetToBag, BagToSet
<1>3. ASSUME NEW op PROVE EmptyBag (+) SetToBag({op}) = SetToBag({op})
  BY DEF EmptyBag, SetToBag, (+), BagToSet
<1>4. ASSUME NEW op PROVE SetToBag({op}) (+) EmptyBag = SetToBag({op})
  BY DEF EmptyBag, SetToBag, (+), BagToSet
<1>5. ASSUME NEW op PROVE SetToBag({op}) (-) SetToBag({op}) = EmptyBag
  BY DEF EmptyBag, SetToBag, (-), BagToSet
<1>6. QED
  BY <1>1, <1>2, <1>3, <1>4, <1>5

LEMMA NoOrphans ==
    ASSUME CacheFits(cache), NoWaiters(cache), NEW S \in SUBSET Questions
    PROVE  Orphans(S) = EmptyBag
<1>1. \A q \in S : ToSet(cache[q].waiters) = {}
  <2>1. ToSet(<<>>) = {}
    BY DEF ToSet
  <2>2. QED
    BY <2>1 DEF NoWaiters
<1>2. UNION {{Orphan(q, o) : o \in ToSet(cache[q].waiters)} : q \in S} = {}
  BY <1>1
<1>3. QED
  BY <1>2 DEF Orphans, EmptyBag, SetToBag

\* What the user does counts only when nothing is due.
LEMMA UserCalm ==
    ASSUME TypeInv, CalmInv, NEW n \in Nat, UserSpends(n), ~haste'
    PROVE  Sound(session, sent, flagged) /\ Idle(session, cache, sent, pending)
<1>1. ~haste /\ ~Awaiting
  BY DEF UserSpends
<1>2. pending = EmptyBag /\ NoWaiters(cache)
  BY <1>1 DEF Awaiting, NoWaiters
<1>3. ~\E op \in BagToSet(pending) : Asked(op, session, cache, sent, pending)
  BY <1>2, BagFacts
<1>4. QED
  BY <1>1, <1>2, <1>3 DEF CalmInv, Calm, Idle, Waits

LEMMA CalmRules ==
    ASSUME NEW s, NEW c, NEW sn, NEW fl, NEW p, Sound(s, sn, fl)
    PROVE  /\ Idle(s, c, sn, p) => Calm(s, c, sn, fl, p)
           /\ Waits(s, c, sn, p) => Calm(s, c, sn, fl, p)
           /\ \A op : Asked(op, s, c, sn, p) => Calm(s, c, sn, fl, p)
<1>1. \A op : Asked(op, s, c, sn, p) => op \in BagToSet(p)
  BY BagFacts DEF Asked
<1>2. QED
  BY <1>1 DEF Calm

\* A reply comes for the one request that is in flight.
LEMMA ReplyCalm ==
    ASSUME TypeInv, CalmInv, NEW op \in BagToSet(pending), ~haste
    PROVE  /\ Sound(session, sent, flagged) /\ Asked(op, session, cache, sent, pending)
           /\ Rest(op) = EmptyBag
<1>1. pending # EmptyBag
  BY BagFacts
<1>2. PICK one \in BagToSet(pending) : Asked(one, session, cache, sent, pending)
  BY <1>1 DEF CalmInv, Calm, Idle, Waits
<1>3. one = op
  BY <1>2, BagFacts DEF Asked
<1>4. Rest(op) = EmptyBag
  BY <1>2, <1>3, BagFacts DEF Asked, Rest
<1>5. QED
  BY <1>2, <1>3, <1>4 DEF CalmInv, Calm

LEMMA FetchedCalm ==
    ASSUME NEW c, CacheFits(c), NEW S
    PROVE  /\ \A q \in Questions : Fetched(c, S)[q].waiters = c[q].waiters
                                   \/ Fetched(c, S)[q].waiters = <<>>
           /\ \A q \in Questions : c[q].at # "none" => Fetched(c, S)[q] = c[q]
           /\ NoWaiters(c) => NoWaiters(Fetched(c, S))
  BY DEF CacheFits, Fetched, NoWaiters

\* What waits goes on waiting, and nothing else does.
LEMMA FetchedKeeps ==
    ASSUME NEW c, CacheFits(c), NEW S, NEW d, d = Fetched(c, S), NEW r \in Questions,
           c[r].at # "none", \A p \in Questions : p # r => c[p].waiters = <<>>
    PROVE  d[r] = c[r] /\ \A p \in Questions : p # r => d[p].waiters = <<>>
  BY FetchedCalm

LEMMA EntryCalm ==
    ASSUME NEW c, CacheFits(c), NoWaiters(c), NEW q, NEW k
    PROVE  NoWaiters([c EXCEPT ![q] = Entry(k)])
  BY DEF CacheFits, Entry, NoWaiters

LEMMA EmptyCacheCalm == NoWaiters(EmptyCache)
  BY DEF EmptyCache, NoEntry, NoWaiters

LEMMA RenderCalm ==
    ASSUME NEW s, NEW c, CacheFits(c), Render(s, c)
    PROVE  session' = s /\ (NoWaiters(c) => NoWaiters(cache'))
  BY FetchedCalm DEF Render

\* The same questions and answers at another place.
LEMMA SameAnswers ==
    ASSUME NEW s, NEW t, NEW sn, NEW fl,
           t.questions = s.questions, t.answers = s.answers, t.kind = s.kind,
           t.limit = s.limit, t.seen = s.seen
    PROVE  /\ Sound(s, sn, fl) => Sound(t, sn, fl)
           /\ Settled(s, sn) => Settled(t, sn)
           /\ \A q \in Questions : Scored(s, sn, q) <=> Scored(t, sn, q)
  BY DEF Sound, Settled, Scored, Has

\* A shown question gets an answer or another score, and its attempts a number
\* that goes with it.
LEMMA AnswerCalm ==
    ASSUME NEW s, NEW t, NEW sn \in [Questions -> Nat], NEW fl, NEW q \in Questions,
           NEW a \in Answer, NEW m \in Nat,
           Sound(s, sn, fl), q \in ToSet(s.questions),
           s.answers \in [Questions -> Answer \cup {NoAnswer}],
           t.questions = s.questions, t.answers = [s.answers EXCEPT ![q] = a],
           t.kind = s.kind, t.limit = s.limit, t.seen = s.seen,
           m > 0 <=> a.score # "none", Mcq(q) => m <= 1
    PROVE  /\ Sound(t, [sn EXCEPT ![q] = m], fl)
           /\ \A p \in Questions : p # q /\ Scored(s, sn, p) => Scored(t, [sn EXCEPT ![q] = m], p)
           /\ Scored(t, [sn EXCEPT ![q] = m], q)
<1> DEFINE sn2 == [sn EXCEPT ![q] = m]
<1>1. a # NoAnswer
  BY DEF Answer, NoAnswer
<1>2. /\ Has(t, q) /\ t.answers[q] = a /\ sn2[q] = m
      /\ \A p \in Questions : p # q => /\ t.answers[p] = s.answers[p] /\ sn2[p] = sn[p]
                                       /\ Has(t, p) <=> Has(s, p)
  BY <1>1 DEF Has
<1> HIDE DEF sn2
<1>3. Sound(t, sn2, fl)
  BY <1>2 DEF Sound
<1>4. Scored(t, sn2, q)
  BY <1>2 DEF Scored
<1>5. \A p \in Questions : p # q /\ Scored(s, sn, p) => Scored(t, sn2, p)
  BY <1>2 DEF Scored
<1>6. QED
  BY <1>3, <1>4, <1>5 DEF sn2

LEMMA Counted ==
    ASSUME TypeInv, NEW q \in Questions
    PROVE  /\ sent \in [Questions -> Nat] /\ sent[q] \in Nat
           /\ sent = [sent EXCEPT ![q] = sent[q]]
           /\ [sent EXCEPT ![q] = @ + 1] = [sent EXCEPT ![q] = sent[q] + 1]
           /\ session.answers \in [Questions -> Answer \cup {NoAnswer}]
  BY Fits DEF TypeInv, Session

\* A question without an answer has sent nothing.
LEMMA NothingSent ==
    ASSUME TypeInv, Sound(session, sent, flagged), NEW q \in Current(session), ~Has(session, q)
    PROVE  q \in Questions /\ q \in ToSet(session.questions) /\ sent[q] = 0
<1>1. q \in Questions /\ q \in ToSet(session.questions)
  BY Fits, CurrentType
<1>2. QED
  BY <1>1 DEF Sound

-----------------------------------------------------------------------------
(* The steps of the user who waits.                                        *)

\* Another view of the session.
LEMMA MovesCalm ==
    ASSUME TypeInv, CalmInv, UserActs, NEW s, NEW c, Render(s, c),
           UNCHANGED <<pending, sent, flagged>>,
           s.questions = session.questions, s.answers = session.answers,
           s.kind = session.kind, s.limit = session.limit, s.seen = session.seen,
           s.loading = session.loading,
           CacheFits(c), NoWaiters(cache) => NoWaiters(c)
    PROVE  CalmInv'
<1> SUFFICES ASSUME ~haste'
             PROVE  Calm(session', cache', sent', flagged', pending')
  BY DEF CalmInv
<1>1. Sound(session, sent, flagged) /\ Idle(session, cache, sent, pending)
  BY UserCalm DEF UserActs
<1>2. session' = s /\ NoWaiters(cache')
  BY <1>1, RenderCalm DEF Idle
<1>3. Sound(s, sent, flagged) /\ Settled(s, sent)
  BY <1>1, SameAnswers DEF Idle
<1>4. Idle(session', cache', sent', pending')
  BY <1>1, <1>2, <1>3 DEF Idle
<1>5. QED
  BY <1>2, <1>3, <1>4, CalmRules

LEMMA SetPickingCalm ==
    ASSUME TypeInv, CalmInv, NEW value \in BOOLEAN, SetPicking(value)
    PROVE  CalmInv'
<1> DEFINE s == [session EXCEPT !.picking = value]
<1>1. UserActs /\ Render(s, cache) /\ UNCHANGED <<pending, sent, flagged>>
  BY DEF SetPicking, Moves, ghosts
<1>2. /\ s.questions = session.questions /\ s.answers = session.answers
      /\ s.kind = session.kind /\ s.limit = session.limit /\ s.seen = session.seen
      /\ s.loading = session.loading
  BY Fits DEF Session
<1> HIDE DEF s
<1>3. QED
  BY <1>1, <1>2, Fits, MovesCalm

LEMMA GoPrevCalm ==
    ASSUME TypeInv, CalmInv, GoPrev
    PROVE  CalmInv'
<1> DEFINE s == [session EXCEPT !.index = @ - 1, !.picking = FALSE]
<1>1. UserActs /\ Render(s, cache) /\ UNCHANGED <<pending, sent, flagged>>
  BY DEF GoPrev, Moves, ghosts
<1>2. /\ s.questions = session.questions /\ s.answers = session.answers
      /\ s.kind = session.kind /\ s.limit = session.limit /\ s.seen = session.seen
      /\ s.loading = session.loading
  BY Fits DEF Session
<1> HIDE DEF s
<1>3. QED
  BY <1>1, <1>2, Fits, MovesCalm

LEMMA ResumeSkippedCalm ==
    ASSUME TypeInv, CalmInv, ResumeSkipped
    PROVE  CalmInv'
<1> DEFINE open == {i \in DOMAIN session.questions : ~Has(session, session.questions[i])}
           first == (CHOOSE i \in open : \A j \in open : i <= j) - 1
           s == [session EXCEPT !.finished = FALSE, !.index = first]
<1>1. UserActs /\ Render(s, cache) /\ UNCHANGED <<pending, sent, flagged>>
  BY DEF ResumeSkipped, Moves, ghosts
<1> HIDE DEF first
<1>2. /\ s.questions = session.questions /\ s.answers = session.answers
      /\ s.kind = session.kind /\ s.limit = session.limit /\ s.seen = session.seen
      /\ s.loading = session.loading
  BY Fits DEF Session
<1> HIDE DEF s
<1>3. QED
  BY <1>1, <1>2, Fits, MovesCalm

LEMMA NextInSimulationCalm ==
    ASSUME TypeInv, CalmInv, NEW q \in Questions, NextInSimulation(q)
    PROVE  CalmInv'
<1> DEFINE next == [session EXCEPT !.index = @ + 1, !.picking = FALSE]
           s == [session EXCEPT !.finished = TRUE]
           c == Fetched(cache, Current([next EXCEPT !.index = @ + 1]))
<1>1. /\ UserActs /\ UNCHANGED <<pending, sent, flagged>>
      /\ Render(s, cache) \/ Render(next, c)
  BY DEF NextInSimulation, Moves, server, ghosts
<1>2. /\ s.questions = session.questions /\ s.answers = session.answers
      /\ s.kind = session.kind /\ s.limit = session.limit /\ s.seen = session.seen
      /\ s.loading = session.loading
  BY Fits DEF Session
<1>3. /\ next.questions = session.questions /\ next.answers = session.answers
      /\ next.kind = session.kind /\ next.limit = session.limit /\ next.seen = session.seen
      /\ next.loading = session.loading
  BY Fits DEF Session
<1>4. CacheFits(c) /\ (NoWaiters(cache) => NoWaiters(c))
  BY Fits, FetchedFits, FetchedCalm
<1> HIDE DEF s, next, c
<1>5. CASE Render(s, cache)
  BY <1>1, <1>2, <1>5, Fits, MovesCalm
<1>6. CASE Render(next, c)
  BY <1>1, <1>3, <1>4, <1>6, MovesCalm
<1>7. QED
  BY <1>1, <1>5, <1>6

\* The user answers, marks or reveals the current question.
LEMMA ScoresCalm ==
    ASSUME TypeInv, CalmInv, NEW n \in Nat, UserSpends(n), NEW q \in Current(session),
           NEW a \in Answer, NEW m \in Nat,
           m > 0 <=> a.score # "none", Mcq(q) => m <= 1,
           NEW s, s = [session EXCEPT !.answers[q] = a],
           NEW c, CacheFits(c), NoWaiters(cache) => NoWaiters(c), Render(s, c),
           sent' = [sent EXCEPT ![q] = m], UNCHANGED <<pending, flagged>>
    PROVE  CalmInv'
<1> SUFFICES ASSUME ~haste'
             PROVE  Calm(session', cache', sent', flagged', pending')
  BY DEF CalmInv
<1>1. Sound(session, sent, flagged) /\ Idle(session, cache, sent, pending)
  BY UserCalm
<1>2. q \in Questions /\ q \in ToSet(session.questions)
  BY Fits, CurrentType
<1>3. /\ s.questions = session.questions /\ s.answers = [session.answers EXCEPT ![q] = a]
      /\ s.kind = session.kind /\ s.limit = session.limit /\ s.seen = session.seen
      /\ s.loading = session.loading
  BY Fits DEF Session
<1>4. /\ Sound(s, sent', flagged) /\ Scored(s, sent', q)
      /\ \A p \in Questions : p # q /\ Scored(session, sent, p) => Scored(s, sent', p)
  BY <1>1, <1>2, <1>3, Counted, AnswerCalm
<1>5. Settled(s, sent')
  BY <1>1, <1>4 DEF Idle, Settled
<1>6. session' = s /\ NoWaiters(cache')
  BY <1>1, RenderCalm DEF Idle
<1>7. Idle(session', cache', sent', pending')
  BY <1>1, <1>3, <1>5, <1>6 DEF Idle
<1>8. QED
  BY <1>4, <1>6, <1>7, CalmRules

LEMMA RevealCalm ==
    ASSUME TypeInv, CalmInv, NEW q \in Questions, Reveal(q)
    PROVE  CalmInv'
<1> DEFINE a == [selected |-> NoOption, score |-> "none", assessed |-> FALSE]
           s == [session EXCEPT !.answers[q] = a]
<1>1. /\ UserSpends(0) /\ Render(s, cache) /\ UNCHANGED <<pending, sent, flagged>>
      /\ q \in Current(session) /\ ~Has(session, q)
  BY DEF Reveal, Moves, UserActs, ghosts
<1>2. a \in Answer /\ a.score = "none"
  BY DEF Answer, Keys
<1> HIDE DEF a
<1>3. CASE ~haste'
  <2>1. sent[q] = 0
    BY <1>1, <1>3, UserCalm, NothingSent
  <2>2. sent' = [sent EXCEPT ![q] = 0] /\ ~(0 > 0) /\ 0 <= 1 /\ 0 \in Nat
    BY <1>1, <2>1, Counted
  <2> HIDE DEF s
  <2>3. QED
    BY <1>1, <1>2, <2>2, Fits, ScoresCalm DEF s
<1>4. CASE haste'
  BY <1>4 DEF CalmInv
<1>5. QED
  BY <1>3, <1>4

\* A mark and its attempt: the first one of a multiple-choice question.
LEMMA AssessCalm ==
    ASSUME TypeInv, CalmInv, NEW q \in Current(session), NEW a \in Answer,
           a.score \in {"right", "wrong"}, Mcq(q) => ~Has(session, q), Assess(q, a)
    PROVE  CalmInv'
<1> DEFINE s == [session EXCEPT !.answers[q] = a]
           before == [World EXCEPT !.session.answers[q] = a]
<1>1. UNCHANGED <<pending, flagged>> /\ q \in Questions
  BY Fits, CurrentType DEF Assess
<1>2. PICK lost \in BOOLEAN :
          UserSpends(One(lost)) /\ Becomes(Sent(before, q, NoOption, a.score, lost), cache)
  BY DEF Assess
<1>3. before = [World EXCEPT !.session = s]
  BY DEF World
<1> HIDE DEF before, s
<1>4. SessionFits(s, Len(sims))
  BY <1>1, Fits, AnswerFits DEF s
<1>5. WorldFits(before, Len(sims)) /\ before.session = s /\ before.sent = sent
  BY <1>3, <1>4, WorldFitsNow, WithSession
<1> DEFINE w == Sent(before, q, NoOption, a.score, lost)
<1>6. w.session = s /\ w.sent = [sent EXCEPT ![q] = @ + 1]
  <2> DEFINE n == Len(sims)
             score == a.score
  <2>1. n \in Nat /\ WorldFits(before, n) /\ NoOption \in Keys /\ score \in {"right", "wrong"}
    BY <1>5, Fits DEF Keys
  <2> HIDE DEF n, score, w
  <2>2. /\ Sent(before, q, NoOption, score, lost).session = before.session
        /\ Sent(before, q, NoOption, score, lost).sent = [before.sent EXCEPT ![q] = @ + 1]
    BY <1>1, <2>1, SentFits
  <2>3. QED
    BY <1>5, <2>2 DEF w, score
<1>7. Render(w.session, cache) /\ sent' = w.sent
  BY <1>2 DEF Becomes
<1> HIDE DEF w
<1>8. CASE ~haste'
  <2>1. One(lost) \in Nat
    BY OneType
  <2>2. Mcq(q) => sent[q] = 0
    BY <1>2, <1>8, <2>1, UserCalm, NothingSent
  <2>3. /\ sent' = [sent EXCEPT ![q] = sent[q] + 1]
        /\ sent[q] + 1 \in Nat /\ sent[q] + 1 > 0
        /\ Mcq(q) => sent[q] + 1 <= 1
    BY <1>1, <1>6, <1>7, <2>2, Counted
  <2> DEFINE m == sent[q] + 1
             one == One(lost)
  <2>4. one \in Nat /\ UserSpends(one) /\ Render(s, cache)
    BY <1>2, <1>6, <1>7, <2>1
  <2>5. sent' = [sent EXCEPT ![q] = m] /\ m \in Nat /\ m > 0 /\ (Mcq(q) => m <= 1)
    BY <2>3
  <2> HIDE DEF m, one
  <2>6. CacheFits(cache) /\ (m > 0 <=> a.score # "none") /\ s = [session EXCEPT !.answers[q] = a]
    BY <2>5, Fits DEF s
  <2>7. QED
    BY <1>1, <2>4, <2>5, <2>6, ScoresCalm
<1>9. CASE haste'
  BY <1>9 DEF CalmInv
<1>10. QED
  BY <1>8, <1>9

LEMMA DontKnowCalm ==
    ASSUME TypeInv, CalmInv, NEW q \in Questions, DontKnow(q)
    PROVE  CalmInv'
<1> DEFINE a == [selected |-> NoOption, score |-> "wrong", assessed |-> FALSE]
<1>1. Assess(q, a) /\ q \in Current(session) /\ ~Has(session, q)
  BY DEF DontKnow
<1>2. a \in Answer /\ a.score \in {"right", "wrong"}
  BY DEF Answer, Keys
<1> HIDE DEF a
<1>3. QED
  BY <1>1, <1>2, AssessCalm

LEMMA SelfAssessCalm ==
    ASSUME TypeInv, CalmInv, NEW q \in Questions, NEW score \in {"right", "wrong"},
           SelfAssess(q, score)
    PROVE  CalmInv'
<1> DEFINE a == [session.answers[q] EXCEPT !.score = score, !.assessed = TRUE]
<1>1. Assess(q, a) /\ q \in Current(session) /\ ~Mcq(q)
  BY DEF SelfAssess
<1>2. session.answers[q] \in Answer
  BY AnswerTypes DEF SelfAssess, Has
<1>3. a \in Answer /\ a.score \in {"right", "wrong"}
  BY <1>2 DEF Answer
<1> HIDE DEF a
<1>4. QED
  BY <1>1, <1>3, AssessCalm

\* An answer is scored at once, or it waits for its correction.
LEMMA AnswerQuestionCalm ==
    ASSUME TypeInv, CalmInv, NEW q \in Questions, NEW o \in Options, AnswerQuestion(q, o)
    PROVE  CalmInv'
<1> DEFINE c == Fetched(cache, {q})
<1>1. /\ UNCHANGED <<pending, flagged>> /\ q \in Current(session) /\ ~Has(session, q)
      /\ session.kind # "home" /\ Mcq(q)
  BY DEF AnswerQuestion, Playing
<1>2. /\ CacheFits(c) /\ c[q].key \in Keys /\ c[q].at \in {"none", "wait", "has"}
      /\ c[q].at # "none" /\ (NoWaiters(cache) => NoWaiters(c))
  <2>1. CacheFits(c) /\ (NoWaiters(cache) => NoWaiters(c))
    BY Fits, FetchedFits, FetchedCalm
  <2>2. c[q].at # "none"
    BY Fits DEF Fetched, CacheFits
  <2> HIDE DEF c
  <2>3. QED
    BY <2>1, <2>2 DEF CacheFits
<1>3. CASE haste'
  BY <1>3 DEF CalmInv
<1>4. CASE ~haste' /\ c[q].at = "has"
  <2> DEFINE k == c[q].key
             a == [selected |-> o, score |-> ScoreOf(o, k), assessed |-> FALSE]
             s == [session EXCEPT !.answers[q] = a]
             m == IF k = NoOption THEN 0 ELSE 1
  <2>1. PICK lost \in BOOLEAN :
            UserSpends(One(lost)) /\ Becomes(Marked(World, q, o, k, lost), c)
    BY <1>4 DEF AnswerQuestion
  <2> HIDE DEF c
  <2>2. k \in Keys /\ o \in Keys /\ One(lost) \in Nat
    BY <1>2, OneType DEF Keys
  <2> HIDE DEF k
  <2> DEFINE w == Marked(World, q, o, k, lost)
  <2>3. Render(w.session, c) /\ sent' = w.sent
    BY <2>1 DEF Becomes
  <2>4. w.session = s /\ w.sent = IF k = NoOption THEN sent ELSE [sent EXCEPT ![q] = @ + 1]
    <3> DEFINE n == Len(sims)
    <3>1. n \in Nat /\ WorldFits(World, n) /\ World.session = session /\ World.sent = sent
      BY WorldFitsNow
    <3> HIDE DEF n, w
    <3>2. /\ Marked(World, q, o, k, lost).session = [World.session EXCEPT !.answers[q] = a]
          /\ Marked(World, q, o, k, lost).sent =
                 IF k = NoOption THEN World.sent ELSE [World.sent EXCEPT ![q] = @ + 1]
      BY <1>1, <2>1, <2>2, <3>1, MarkedFits
    <3>3. QED
      BY <3>1, <3>2 DEF w
  <2>5. sent[q] = 0
    BY <1>1, <1>4, <2>1, <2>2, UserCalm, NothingSent
  <2> HIDE DEF w
  <2>6. sent' = [sent EXCEPT ![q] = m]
    <3>1. k = NoOption => sent' = sent /\ m = sent[q]
      BY <2>3, <2>4, <2>5
    <3>2. k # NoOption => sent' = [sent EXCEPT ![q] = sent[q] + 1] /\ m = sent[q] + 1
      BY <2>3, <2>4, <2>5, Counted
    <3>3. QED
      BY <3>1, <3>2, Counted
  <2>7. a \in Answer /\ (m > 0 <=> a.score # "none") /\ m \in Nat /\ m <= 1
    BY <2>2, ScoreType DEF Answer
  <2> DEFINE one == One(lost)
  <2>8. /\ one \in Nat /\ UserSpends(one) /\ Render(s, c)
        /\ s = [session EXCEPT !.answers[q] = a] /\ (Mcq(q) => m <= 1)
    BY <2>1, <2>2, <2>3, <2>4, <2>7
  <2> HIDE DEF a, m, one, s
  <2>9. QED
    BY <1>1, <1>2, <2>6, <2>7, <2>8, ScoresCalm
<1>5. CASE ~haste' /\ c[q].at # "has"
  <2>1. /\ UserActs /\ UNCHANGED <<session, sent>>
        /\ cache' = [c EXCEPT ![q].waiters = Append(@, o)]
    BY <1>5 DEF AnswerQuestion
  <2>2. Sound(session, sent, flagged) /\ Idle(session, cache, sent, pending)
    BY <1>5, <2>1, UserCalm DEF UserActs
  <2>3. NoWaiters(c) /\ c[q].at = "wait"
    BY <1>2, <1>5, <2>2 DEF Idle
  <2> HIDE DEF c
  <2>4. /\ cache'[q].at = "wait" /\ cache'[q].waiters = <<o>>
        /\ \A r \in Questions : r # q => cache'[r].waiters = <<>>
    <3>1. /\ cache'[q].at = c[q].at /\ cache'[q].waiters = Append(c[q].waiters, o)
          /\ \A r \in Questions : r # q => cache'[r] = c[r]
      BY <1>2, <2>1 DEF CacheFits
    <3>2. Append(<<>>, o) = <<o>>
      OBVIOUS
    <3>3. QED
      BY <2>3, <3>1, <3>2 DEF NoWaiters
  <2>5. WaitsFor(q, o, session', cache')
    BY <1>1, <2>1, <2>4 DEF WaitsFor
  <2>6. Waits(session', cache', sent', pending')
    BY <1>1, <2>1, <2>2, <2>5 DEF Waits, Idle
  <2>7. Calm(session', cache', sent', flagged', pending')
    BY <1>1, <2>1, <2>2, <2>6, CalmRules
  <2>8. QED
    BY <2>7 DEF CalmInv
<1>6. QED
  BY <1>3, <1>4, <1>5

LEMMA AsksCalm ==
    ASSUME TypeInv, CalmInv, NEW n \in Nat, NEW op, Asks(op, n),
           op.op \notin {"orphan", "rescore", "next"},
           op.op = "discard" => op.question \in Current(session)
    PROVE  CalmInv'
<1> SUFFICES ASSUME ~haste'
             PROVE  Calm(session', cache', sent', flagged', pending')
  BY DEF CalmInv
<1>1. /\ UserSpends(n) /\ pending' = pending (+) SetToBag({op})
      /\ UNCHANGED <<session, cache, sent, flagged>>
  BY DEF Asks, Sends, ghosts
<1>2. Sound(session, sent, flagged) /\ Idle(session, cache, sent, pending)
  BY <1>1, UserCalm
<1>3. pending' = SetToBag({op})
  BY <1>1, <1>2, BagFacts DEF Idle
<1>4. Belongs(op, session, sent)
  BY <1>2 DEF Belongs, Idle
<1>5. Asked(op, session', cache', sent', pending')
  BY <1>1, <1>2, <1>3, <1>4 DEF Asked, Idle, Settled
<1>6. QED
  BY <1>1, <1>2, <1>5, CalmRules

LEMMA RequestsCalm ==
    ASSUME TypeInv, CalmInv, NEW q \in Questions
    PROVE  /\ \A o \in Options : SaveKey(q, o) => CalmInv'
           /\ RegenerateWithAi(q) => CalmInv'
           /\ DiscardCurrent(q) => CalmInv'
<1>1. ASSUME NEW o \in Options, SaveKey(q, o) PROVE CalmInv'
  <2> DEFINE op == [Op("save") EXCEPT !.question = q, !.option = o]
  <2>1. Asks(op, 1) /\ op.op = "save"
    BY <1>1 DEF SaveKey, Op
  <2> HIDE DEF op
  <2>2. QED
    BY <2>1, AsksCalm
<1>2. ASSUME RegenerateWithAi(q) PROVE CalmInv'
  <2> DEFINE op == [Op("regenerate") EXCEPT !.question = q]
  <2>1. Asks(op, 1) /\ op.op = "regenerate"
    BY <1>2 DEF RegenerateWithAi, Op
  <2> HIDE DEF op
  <2>2. QED
    BY <2>1, AsksCalm
<1>3. ASSUME DiscardCurrent(q) PROVE CalmInv'
  <2> DEFINE op == [Op("discard") EXCEPT !.question = q]
  <2>1. Asks(op, 1) /\ op.op = "discard" /\ op.question \in Current(session)
    BY <1>3 DEF DiscardCurrent, Op
  <2> HIDE DEF op
  <2>2. QED
    BY <2>1, AsksCalm
<1>4. QED
  BY <1>1, <1>2, <1>3

LEMMA SessionRequestsCalm ==
    ASSUME TypeInv, CalmInv
    PROVE  /\ RetryMistakes => CalmInv'
           /\ \A n : StartSimulation(n) => CalmInv'
           /\ \A id, mode : OpenSimulation(id, mode) => CalmInv'
<1>1. ASSUME RetryMistakes PROVE CalmInv'
  <2> DEFINE op == [Op("retry") EXCEPT !.ids = Mistakes(session)]
  <2>1. Asks(op, 0) /\ op.op = "retry"
    BY <1>1 DEF RetryMistakes, Op
  <2> HIDE DEF op
  <2>2. QED
    BY <2>1, AsksCalm
<1>2. ASSUME NEW n, StartSimulation(n) PROVE CalmInv'
  <2> DEFINE op == [Op("start") EXCEPT !.number = n]
  <2>1. Asks(op, 0) /\ op.op = "start"
    BY <1>2 DEF StartSimulation, Op
  <2> HIDE DEF op
  <2>2. QED
    BY <2>1, AsksCalm
<1>3. ASSUME NEW id, NEW mode, OpenSimulation(id, mode) PROVE CalmInv'
  <2> DEFINE op == [Op("open") EXCEPT !.number = id, !.mode = mode]
  <2>1. Asks(op, 0) /\ op.op = "open"
    BY <1>3 DEF OpenSimulation, Op
  <2> HIDE DEF op
  <2>2. QED
    BY <2>1, AsksCalm
<1>4. QED
  BY <1>1, <1>2, <1>3

-----------------------------------------------------------------------------
(* Sessions that begin and end.                                            *)

LEMMA HomeCalm ==
    /\ Sound(Home, [q \in Questions |-> 0], {}) /\ Settled(Home, [q \in Questions |-> 0])
    /\ Home.loading = FALSE /\ Home.kind = "home"
<1>1. ToSet(<<>>) = {} /\ Distinct(<<>>)
  BY DEF ToSet, Distinct
<1>2. /\ Home.questions = <<>> /\ Home.kind = "home" /\ Home.loading = FALSE
      /\ Home.answers = [q \in Questions |-> NoAnswer]
  BY DEF Home
<1>3. \A q \in Questions : ~Has(Home, q)
  BY <1>2 DEF Has
<1>4. QED
  BY <1>1, <1>2, <1>3 DEF Sound, Settled, Scored

LEMMA ExitCalm ==
    ASSUME CacheFits(cache), NoWaiters(cache), NEW ops, ops = EmptyBag, Exit(ops)
    PROVE  Calm(session', cache', sent', flagged', pending')
<1>1. pending' = EmptyBag
  BY NoOrphans, BagFacts DEF Exit
<1>2. /\ session' = Home /\ cache' = EmptyCache /\ flagged' = {}
      /\ sent' = [q \in Questions |-> 0]
  BY DEF Exit
<1>3. Idle(session', cache', sent', pending')
  BY <1>1, <1>2, HomeCalm, EmptyCacheCalm DEF Idle
<1>4. QED
  BY <1>2, <1>3, HomeCalm, CalmRules

\* A session whose answers all have a score has one attempt for each of them.
LEMMA EnterCalm ==
    ASSUME CacheFits(cache), NoWaiters(cache), NEW s, NEW ops, Enter(s, ops),
           Distinct(s.questions),
           \A q \in Questions : Has(s, q) => /\ q \in ToSet(s.questions)
                                             /\ s.answers[q].score # "none",
           s.kind = "review" => Len(s.questions) <= s.limit /\ ToSet(s.questions) \subseteq s.seen
    PROVE  /\ session' = s /\ pending' = ops (+) EmptyBag /\ NoWaiters(cache')
           /\ Sound(s, sent', flagged') /\ Settled(s, sent')
<1>1. /\ flagged' = {} /\ sent' = [q \in Questions |-> IF Has(s, q) THEN 1 ELSE 0]
      /\ pending' = ops (+) Orphans(Questions) /\ Render(s, EmptyCache)
  BY DEF Enter
<1>2. session' = s /\ NoWaiters(cache')
  BY <1>1, EmptyCacheFits, EmptyCacheCalm, RenderCalm
<1>3. pending' = ops (+) EmptyBag
  BY <1>1, NoOrphans
<1>4. Sound(s, sent', flagged')
  BY <1>1 DEF Sound
<1>5. Settled(s, sent')
  BY <1>1 DEF Settled, Scored
<1>6. QED
  BY <1>2, <1>3, <1>4, <1>5

LEMMA NextOpFields ==
    ASSUME NEW s
    PROVE  /\ NextOp(s).op = "next" /\ NextOp(s).number = s.serial /\ NextOp(s).ids = s.seen
  BY DEF NextOp, Op

LEMMA LoadNextCalm ==
    ASSUME CacheFits(cache), NoWaiters(cache), NEW s \in Session, s.kind = "review", ~s.loading,
           NEW sn, NEW fl, Sound(s, sn, fl), Settled(s, sn), NEW ops, ops = EmptyBag,
           LoadNext(s, ops)
    PROVE  Calm(session', cache', sn, fl, pending')
<1>0. s.limit \in Nat /\ Len(s.questions) \in Nat
  BY PlayerAssumption, LenProperties DEF Session
<1>1. CASE Len(s.questions) >= s.limit
  <2> DEFINE t == [s EXCEPT !.finished = TRUE]
  <2>1. Render(t, cache) /\ pending' = EmptyBag
    BY <1>1 DEF LoadNext, Finish
  <2>2. /\ t.questions = s.questions /\ t.answers = s.answers /\ t.kind = s.kind
        /\ t.limit = s.limit /\ t.seen = s.seen /\ ~t.loading
    BY DEF Session
  <2> HIDE DEF t
  <2>3. session' = t /\ NoWaiters(cache')
    BY <2>1, RenderCalm
  <2>4. Sound(t, sn, fl) /\ Settled(t, sn)
    BY <2>2, SameAnswers
  <2>5. Idle(t, cache', sn, pending')
    BY <2>1, <2>2, <2>3, <2>4 DEF Idle
  <2>6. QED
    BY <2>3, <2>4, <2>5, CalmRules
<1>2. CASE ~(Len(s.questions) >= s.limit)
  <2> DEFINE t == [s EXCEPT !.loading = TRUE]
             op == NextOp(s)
  <2>1. Render(t, cache) /\ pending' = SetToBag({op})
    BY <1>2, BagFacts DEF LoadNext
  <2>2. /\ t.questions = s.questions /\ t.answers = s.answers /\ t.kind = s.kind
        /\ t.limit = s.limit /\ t.seen = s.seen /\ t.loading /\ t.serial = s.serial
    BY DEF Session
  <2>3. op.op = "next" /\ op.number = s.serial /\ op.ids = s.seen
    BY NextOpFields
  <2> HIDE DEF t, op
  <2>4. session' = t /\ NoWaiters(cache')
    BY <2>1, RenderCalm
  <2>5. Sound(t, sn, fl) /\ Settled(t, sn)
    BY <2>2, SameAnswers
  <2>6. Len(t.questions) < t.limit
    BY <1>0, <1>2, <2>2
  <2>7. Belongs(op, t, sn)
    BY <2>2, <2>3, <2>6 DEF Belongs
  <2>8. Asked(op, t, cache', sn, pending')
    BY <2>1, <2>4, <2>5, <2>7 DEF Asked, Settled
  <2>9. QED
    BY <2>4, <2>5, <2>8, CalmRules
<1>3. QED
  BY <1>1, <1>2

LEMMA NextInReviewCalm ==
    ASSUME TypeInv, CalmInv, NEW q \in Questions, NextInReview(q)
    PROVE  CalmInv'
<1> SUFFICES ASSUME ~haste'
             PROVE  Calm(session', cache', sent', flagged', pending')
  BY DEF CalmInv
<1>1. /\ UserActs /\ LoadNext(session, pending) /\ session.kind = "review"
      /\ UNCHANGED <<sent, flagged>>
  BY DEF NextInReview, ghosts
<1>2. Sound(session, sent, flagged) /\ Idle(session, cache, sent, pending)
  BY <1>1, UserCalm DEF UserActs
<1>3. Calm(session', cache', sent, flagged, pending')
  BY <1>1, <1>2, Fits, LoadNextCalm DEF Idle
<1>4. QED
  BY <1>1, <1>3

LEMMA ExitSessionCalm ==
    ASSUME TypeInv, CalmInv, ExitSession
    PROVE  CalmInv'
<1>1. UserActs /\ Exit(pending)
  BY DEF ExitSession
<1>2. ~haste' => Idle(session, cache, sent, pending)
  BY <1>1, UserCalm DEF UserActs
<1>3. ~haste' => Calm(session', cache', sent', flagged', pending')
  BY <1>1, <1>2, Fits, ExitCalm DEF Idle
<1>4. QED
  BY <1>3 DEF CalmInv

LEMMA ReloadCalm ==
    ASSUME TypeInv, CalmInv, Reload
    PROVE  CalmInv'
<1>1. /\ session' = Home /\ cache' = EmptyCache /\ flagged' = {}
      /\ sent' = [q \in Questions |-> 0]
  BY DEF Reload
<1>2. Sound(session', sent', flagged') /\ Settled(session', sent') /\ NoWaiters(cache')
      /\ ~session'.loading
  BY <1>1, HomeCalm, EmptyCacheCalm
<1>3. CASE url = NoUrl
  <2>1. pending' = EmptyBag
    BY <1>3 DEF Reload
  <2>2. Calm(session', cache', sent', flagged', pending')
    BY <1>2, <2>1, CalmRules DEF Idle
  <2>3. QED
    BY <2>2 DEF CalmInv
<1>4. CASE url # NoUrl
  <2> DEFINE op == [Op("open") EXCEPT !.number = url.sim, !.mode = "at", !.at = url.q - 1]
  <2>1. pending' = SetToBag({op})
    BY <1>4 DEF Reload
  <2>2. op.op = "open"
    BY DEF Op
  <2> HIDE DEF op
  <2>3. Belongs(op, session', sent')
    BY <1>2, <2>2 DEF Belongs
  <2>4. Asked(op, session', cache', sent', pending')
    BY <1>2, <2>1, <2>3 DEF Asked, Settled
  <2>5. Calm(session', cache', sent', flagged', pending')
    BY <1>2, <2>4, CalmRules
  <2>6. QED
    BY <2>5 DEF CalmInv
<1>5. QED
  BY <1>3, <1>4

LEMMA StartReviewCalm ==
    ASSUME TypeInv, CalmInv, NEW limit \in 1..ReviewLength, StartReview(limit)
    PROVE  CalmInv'
<1> SUFFICES ASSUME ~haste'
             PROVE  Calm(session', cache', sent', flagged', pending')
  BY DEF CalmInv
<1> DEFINE s == FirstReview(limit)
           op == NextOp(s)
           ops == pending (+) SetToBag({op})
<1>1. MayEnter /\ UserActs /\ Enter(s, ops)
  BY DEF StartReview, FirstReview
<1>2. /\ s.kind = "review" /\ s.questions = <<>> /\ s.answers = [q \in Questions |-> NoAnswer]
      /\ s.limit = limit /\ s.seen = {} /\ s.loading = TRUE
  BY <1>1, FirstReviewFits
<1>3. op.op = "next" /\ op.number = s.serial /\ op.ids = s.seen
  BY NextOpFields
<1>4. Idle(session, cache, sent, pending)
  BY <1>1, UserCalm DEF UserActs
<1>5. ops = SetToBag({op})
  BY <1>4, BagFacts DEF Idle
<1>6. ToSet(<<>>) = {} /\ Distinct(<<>>) /\ Len(<<>>) = 0 /\ limit \in Nat /\ 0 < limit
  BY PlayerAssumption, EmptySeq DEF ToSet, Distinct
<1> HIDE DEF s, op, ops
<1>7. \A q \in Questions : ~Has(s, q)
  BY <1>2 DEF Has
<1>8. Len(s.questions) <= s.limit /\ ToSet(s.questions) \subseteq s.seen /\ Distinct(s.questions)
  BY <1>2, <1>6
<1>9. /\ session' = s /\ pending' = ops (+) EmptyBag /\ NoWaiters(cache')
      /\ Sound(s, sent', flagged') /\ Settled(s, sent')
  BY <1>1, <1>4, <1>7, <1>8, Fits, EnterCalm DEF Idle
<1>10. pending' = SetToBag({op})
  BY <1>5, <1>9, BagFacts
<1>11. Belongs(op, s, sent')
  BY <1>2, <1>3, <1>6 DEF Belongs
<1>12. Asked(op, s, cache', sent', pending')
  BY <1>9, <1>10, <1>11 DEF Asked, Settled
<1>13. QED
  BY <1>9, <1>12, CalmRules

-----------------------------------------------------------------------------
(* Replies to a user who waits.                                            *)

LEMMA MarkedNone ==
    ASSUME NEW q, NEW k, NEW lost
    PROVE  AllMarked(q, <<>>, k, lost) = World
<1>1. Len(<<>>) = 0
  BY EmptySeq
<1>2. QED
  BY <1>1, AllMarkedSteps

LEMMA MarkedOne ==
    ASSUME NEW q, NEW o, NEW k, NEW lost
    PROVE  AllMarked(q, <<o>>, k, lost) = Marked(World, q, o, k, lost)
<1>1. Len(<<o>>) = 1 /\ <<o>>[1] = o
  OBVIOUS
<1>2. PICK f : /\ f[0] = World
               /\ \A n \in 1..Len(<<o>>) : f[n] = Marked(f[n - 1], q, <<o>>[n], k, lost)
               /\ AllMarked(q, <<o>>, k, lost) = f[Len(<<o>>)]
  BY <1>1, AllMarkedSteps
<1>3. f[1] = Marked(f[1 - 1], q, <<o>>[1], k, lost) /\ 1 - 1 = 0
  BY <1>1, <1>2
<1>4. QED
  BY <1>1, <1>2, <1>3

\* A reply that finds nothing else due scores one question.
LEMMA ReplyScores ==
    ASSUME TypeInv, Sound(session, sent, flagged), ~session.loading,
           NEW q \in Questions, q \in ToSet(session.questions), NEW a \in Answer, NEW m \in Nat,
           m > 0 <=> a.score # "none", Mcq(q) => m <= 1,
           \A p \in Questions : p # q => Scored(session, sent, p),
           NEW s, s.questions = session.questions, s.answers = [session.answers EXCEPT ![q] = a],
           s.kind = session.kind, s.limit = session.limit, s.seen = session.seen, ~s.loading,
           NEW c, CacheFits(c), NoWaiters(c), Render(s, c),
           sent' = [sent EXCEPT ![q] = m], flagged' = flagged, pending' = EmptyBag
    PROVE  Calm(session', cache', sent', flagged', pending')
<1>1. /\ Sound(s, sent', flagged) /\ Scored(s, sent', q)
      /\ \A p \in Questions : p # q /\ Scored(session, sent, p) => Scored(s, sent', p)
  BY Counted, AnswerCalm
<1>2. session' = s /\ NoWaiters(cache')
  BY RenderCalm
<1>3. Settled(s, sent')
  BY <1>1 DEF Settled
<1>4. Idle(s, cache', sent', pending')
  BY <1>2, <1>3 DEF Idle
<1>5. QED
  BY <1>1, <1>2, <1>4, CalmRules

\* Corrections come and are asked for; the answer that waits does not see them.
LEMMA GoesOnWaiting ==
    ASSUME Waits(session, cache, sent, pending), NEW r \in Questions, NEW o \in Options,
           WaitsFor(r, o, session, cache), NEW c, CacheFits(c), c[r] = cache[r],
           cache[r].at # "none", \A p \in Questions : p # r => c[p].waiters = <<>>,
           cache' = Fetched(c, Shown(session)), session' = session, sent' = sent,
           UNCHANGED pending
    PROVE  Waits(session', cache', sent', pending')
<1>1. c[r].at # "none"
  OBVIOUS
<1>2. cache'[r] = c[r] /\ \A p \in Questions : p # r => cache'[p].waiters = <<>>
  BY <1>1, FetchedKeeps
<1>3. WaitsFor(r, o, session', cache')
  BY <1>2 DEF WaitsFor
<1>4. QED
  BY <1>3 DEF Waits

\* Nothing waits for the correction that has come.
LEMMA KeyArrives ==
    ASSUME TypeInv, CalmInv, ~haste, NEW q \in Questions, NEW k \in Keys,
           cache[q].waiters = <<>>, NEW lost, NEW c, c = [cache EXCEPT ![q] = Entry(k)],
           Becomes(AllMarked(q, cache[q].waiters, k, lost), c),
           UNCHANGED <<pending, flagged>>
    PROVE  Calm(session', cache', sent', flagged', pending')
<1>1. /\ Render(session, c) /\ sent' = sent
  BY MarkedNone, WorldFitsNow DEF Becomes
<1>2. CacheFits(c) /\ CacheFits(cache)
  BY Fits, EntryFits
<1>3. session' = session /\ (NoWaiters(c) => NoWaiters(cache')) /\ cache' = Fetched(c, Shown(session))
  BY <1>1, <1>2, RenderCalm DEF Render
<1>4. Calm(session, cache, sent, flagged, pending)
  BY DEF CalmInv
<1>5. Sound(session, sent, flagged)
  BY <1>4 DEF Calm
<1>6. NoWaiters(cache) => NoWaiters(cache')
  BY <1>2, <1>3, EntryCalm
<1>7. CASE Idle(session, cache, sent, pending)
  BY <1>1, <1>3, <1>5, <1>6, <1>7, CalmRules DEF Idle
<1>8. CASE \E op \in BagToSet(pending) : Asked(op, session, cache, sent, pending)
  <2>1. PICK op \in BagToSet(pending) : Asked(op, session, cache, sent, pending)
    BY <1>8
  <2>2. Asked(op, session', cache', sent', pending')
    BY <1>1, <1>3, <1>6, <2>1 DEF Asked
  <2>3. QED
    BY <1>1, <1>3, <1>5, <2>2, CalmRules
<1>9. CASE Waits(session, cache, sent, pending)
  <2>1. PICK r \in Questions, o \in Options : WaitsFor(r, o, session, cache)
    BY <1>9 DEF Waits
  <2>2. r # q
    <3>1. <<o>> # <<>>
      OBVIOUS
    <3>2. QED
      BY <2>1, <3>1 DEF WaitsFor
  <2>3. c[r] = cache[r] /\ c[r].at = "wait" /\ c[r].at # "none"
    BY <1>2, <2>1, <2>2 DEF CacheFits, WaitsFor
  <2>4. \A p \in Questions : p # r => c[p].waiters = <<>>
    BY <1>2, <2>1 DEF CacheFits, WaitsFor, Entry
  <2>5. CacheFits(c) /\ cache' = Fetched(c, Shown(session))
    BY <1>2, <1>3
  <2>6. /\ Waits(session, cache, sent, pending) /\ session' = session /\ sent' = sent
        /\ c[r] = cache[r] /\ cache[r].at # "none"
    BY <1>1, <1>3, <1>9, <2>3
  <2>7. Waits(session', cache', sent', pending')
    BY <2>1, <2>4, <2>5, <2>6, GoesOnWaiting
  <2>8. QED
    BY <1>1, <1>3, <1>5, <2>7, CalmRules
<1>10. QED
  BY <1>4, <1>7, <1>8, <1>9 DEF Calm

LEMMA ReplyCorrectionCalm ==
    ASSUME TypeInv, CalmInv, NEW q \in Questions, NEW k \in Keys, ReplyCorrection(q, k)
    PROVE  CalmInv'
<1> DEFINE c == [cache EXCEPT ![q] = Entry(k)]
<1>1. UNCHANGED <<pending, flagged>>
  BY DEF ReplyCorrection
<1>2. PICK lost \in BOOLEAN :
          /\ Replies(lost \/ k \notin {cache[q].key, key[q]})
          /\ Becomes(AllMarked(q, cache[q].waiters, k, lost), c)
  BY DEF ReplyCorrection
<1>3. CASE haste
  BY <1>2, <1>3 DEF Replies, CalmInv
<1>4. CASE ~haste /\ cache[q].waiters = <<>>
  BY <1>1, <1>2, <1>4, KeyArrives DEF CalmInv
<1>5. CASE ~haste /\ cache[q].waiters # <<>>
  <2>1. Sound(session, sent, flagged) /\ Waits(session, cache, sent, pending)
    BY <1>5 DEF CalmInv, Calm, Idle, Asked, NoWaiters
  <2>2. PICK r \in Questions, o \in Options : WaitsFor(r, o, session, cache)
    BY <2>1 DEF Waits
  <2>3. r = q
    BY <1>5, <2>2 DEF WaitsFor
  <2>4. /\ q \in Current(session) /\ session.kind # "home" /\ ~Has(session, q)
        /\ cache[q].waiters = <<o>> /\ \A p \in Questions : p # q => cache[p].waiters = <<>>
    BY <2>2, <2>3 DEF WaitsFor
  <2>5. q \in ToSet(session.questions) /\ sent[q] = 0
    BY <2>1, <2>4, NothingSent
  <2>6. CacheFits(c) /\ NoWaiters(c)
    <3>1. CacheFits(c)
      BY Fits, EntryFits
    <3>2. NoWaiters(c)
      BY <2>4, Fits DEF CacheFits, Entry, NoWaiters
    <3>3. QED
      BY <3>1, <3>2
  <2> DEFINE a == [selected |-> o, score |-> ScoreOf(o, k), assessed |-> FALSE]
             s == [session EXCEPT !.answers[q] = a]
             m == IF k = NoOption THEN 0 ELSE 1
             w == Marked(World, q, o, k, lost)
  <2>7. Render(w.session, c) /\ sent' = w.sent
    BY <1>2, <2>4, MarkedOne DEF Becomes
  <2>8. w.session = s /\ w.sent = IF k = NoOption THEN sent ELSE [sent EXCEPT ![q] = @ + 1]
    <3> DEFINE n == Len(sims)
    <3>1. n \in Nat /\ WorldFits(World, n) /\ World.session = session /\ World.sent = sent
      BY WorldFitsNow
    <3> HIDE DEF n, w
    <3>2. /\ Marked(World, q, o, k, lost).session = [World.session EXCEPT !.answers[q] = a]
          /\ Marked(World, q, o, k, lost).sent =
                 IF k = NoOption THEN World.sent ELSE [World.sent EXCEPT ![q] = @ + 1]
      <4>1. World.session.kind # "home" /\ lost \in BOOLEAN
        BY <1>2, <2>4, <3>1
      <4>2. QED
        BY <3>1, <4>1, MarkedFits
    <3>3. QED
      BY <3>1, <3>2 DEF w
  <2> HIDE DEF w
  <2>9. sent' = [sent EXCEPT ![q] = m]
    <3>1. k = NoOption => sent' = sent /\ m = sent[q]
      BY <2>5, <2>7, <2>8
    <3>2. k # NoOption => sent' = [sent EXCEPT ![q] = sent[q] + 1] /\ m = sent[q] + 1
      BY <2>5, <2>7, <2>8, Counted
    <3>3. QED
      BY <3>1, <3>2, Counted
  <2>10. o \in Keys
    BY DEF Keys
  <2>11. a \in Answer /\ (m > 0 <=> a.score # "none") /\ m \in Nat /\ m <= 1
    BY <2>10, ScoreType DEF Answer
  <2> HIDE DEF a, m, c
  <2>12. /\ s.questions = session.questions /\ s.answers = [session.answers EXCEPT ![q] = a]
         /\ s.kind = session.kind /\ s.limit = session.limit /\ s.seen = session.seen
         /\ s.loading = session.loading
    BY Fits DEF Session
  <2>13. ~session.loading /\ pending' = EmptyBag /\ \A p \in Questions : Scored(session, sent, p)
    BY <1>1, <2>1 DEF Waits, Settled
  <2>14. Render(s, c)
    BY <2>7, <2>8
  <2> HIDE DEF s
  <2>15. Calm(session', cache', sent', flagged', pending')
    BY <1>1, <2>1, <2>5, <2>6, <2>9, <2>11, <2>12, <2>13, <2>14, ReplyScores
  <2>16. QED
    BY <2>15 DEF CalmInv
<1>6. QED
  BY <1>3, <1>4, <1>5

\* What a reply finds that belongs to no answer and to no next question.
LEMMA ReplyRest ==
    ASSUME TypeInv, CalmInv, NEW op \in BagToSet(pending), ~haste
    PROVE  /\ Sound(session, sent, flagged) /\ Belongs(op, session, sent) /\ NoWaiters(cache)
           /\ \A p \in Questions : op.op # "rescore" \/ p # op.question => Scored(session, sent, p)
           /\ op.op # "next" => ~session.loading
           /\ Rest(op) = EmptyBag
           /\ \A S \in SUBSET Questions : Rest(op) (+) Orphans(S) = EmptyBag
<1>1. /\ Sound(session, sent, flagged) /\ Asked(op, session, cache, sent, pending)
      /\ Rest(op) = EmptyBag
  BY ReplyCalm
<1>2. \A S \in SUBSET Questions : Rest(op) (+) Orphans(S) = EmptyBag
  BY <1>1, Fits, NoOrphans, BagFacts DEF Asked
<1>3. QED
  BY <1>1, <1>2 DEF Asked, Belongs

\* A reply after which the session is as it was.
LEMMA ReplyStays ==
    ASSUME Sound(session, sent, flagged), Settled(session, sent), ~session.loading,
           session' = session, sent' = sent, flagged' = flagged, NoWaiters(cache'),
           pending' = EmptyBag
    PROVE  Calm(session', cache', sent', flagged', pending')
<1>1. Idle(session', cache', sent', pending')
  BY DEF Idle
<1>2. QED
  BY <1>1, CalmRules

LEMMA RequestFailsCalm ==
    ASSUME TypeInv, CalmInv, NEW op \in BagToSet(pending), RequestFails(op)
    PROVE  CalmInv'
<1>1. /\ pending' = Rest(op) /\ UNCHANGED <<session, cache, sent, flagged>>
      /\ op.op # "next" /\ op.op # "rescore" /\ haste' = haste
  BY DEF RequestFails, Replies, ghosts
<1>2. CASE ~haste
  <2>1. /\ Sound(session, sent, flagged) /\ Settled(session, sent) /\ ~session.loading
        /\ NoWaiters(cache) /\ Rest(op) = EmptyBag
    BY <1>1, <1>2, ReplyRest DEF Settled
  <2>2. Calm(session', cache', sent', flagged', pending')
    BY <1>1, <2>1, ReplyStays
  <2>3. QED
    BY <2>2 DEF CalmInv
<1>3. QED
  BY <1>1, <1>2 DEF CalmInv

LEMMA ReplySaveCalm ==
    ASSUME TypeInv, CalmInv, NEW op \in BagToSet(pending), ReplySave(op)
    PROVE  CalmInv'
<1> DEFINE q == op.question
           k == op.option
           c == [cache EXCEPT ![q] = Entry(k)]
           a == session.answers[q]
<1>1. /\ op.op = "save" /\ UNCHANGED flagged /\ pending' = Rest(op) (+) Orphans({q})
      /\ haste' = haste
  BY DEF ReplySave, Replies
<1>2. q \in Questions /\ k \in Options /\ k \in Keys
  BY <1>1, Fits DEF PendingFits, OpFits, Request, Keys
<1>3. CASE haste
  BY <1>1, <1>3 DEF CalmInv
<1>4. ASSUME ~haste PROVE Calm(session', cache', sent', flagged', pending')
  <2>1. /\ Sound(session, sent, flagged) /\ Settled(session, sent) /\ ~session.loading
        /\ NoWaiters(cache) /\ pending' = EmptyBag
    BY <1>1, <1>2, <1>4, ReplyRest DEF Settled
  <2>2. CASE AtHome
    <3>1. UNCHANGED <<session, cache, sent>>
      BY <2>2 DEF ReplySave
    <3>2. QED
      BY <1>1, <2>1, <3>1, ReplyStays
  <2>3. CASE ~AtHome
    <3>1. PICK lost \in BOOLEAN : Becomes(Saved(World, q, k, lost), c)
      BY <2>3 DEF ReplySave
    <3>2. CacheFits(c) /\ NoWaiters(c)
      BY <1>2, <2>1, Fits, EntryFits, EntryCalm
    <3> DEFINE x == Saved(World, q, k, lost)
               s == [session EXCEPT !.picking = FALSE, !.answers[q].score = ScoreOf(a.selected, k)]
               idle == [session EXCEPT !.picking = FALSE]
    <3> HIDE DEF q, k, c
    <3>3. /\ a.selected = NoOption => x.session = idle /\ x.sent = sent
          /\ a.selected # NoOption =>
                 /\ x.session = s
                 /\ s = [session EXCEPT !.picking = FALSE,
                             !.answers[q] = [a EXCEPT !.score = ScoreOf(a.selected, k)]]
                 /\ x.sent = IF a.score = "none" THEN [sent EXCEPT ![q] = @ + 1] ELSE sent
      <4>1. SavesAs(Saved(World, q, k, lost), q, k)
        BY <1>2, <3>1, SavedFits
      <4>2. QED
        BY <4>1 DEF SavesAs
    <3>4. Render(x.session, c) /\ sent' = x.sent
      BY <3>1 DEF Becomes
    <3> HIDE DEF x
    <3>5. CASE a.selected = NoOption
      <4>1. /\ idle.questions = session.questions /\ idle.answers = session.answers
            /\ idle.kind = session.kind /\ idle.limit = session.limit
            /\ idle.seen = session.seen /\ idle.loading = session.loading
        BY Fits DEF Session
      <4>2. Render(idle, c) /\ sent' = sent
        BY <3>3, <3>4, <3>5
      <4> HIDE DEF idle
      <4>3. session' = idle /\ NoWaiters(cache')
        BY <3>2, <4>2, RenderCalm
      <4>4. Sound(idle, sent, flagged) /\ Settled(idle, sent)
        BY <2>1, <4>1, SameAnswers
      <4>5. Idle(idle, cache', sent', pending')
        BY <2>1, <4>1, <4>2, <4>3, <4>4 DEF Idle
      <4>6. QED
        BY <1>1, <4>2, <4>3, <4>4, <4>5, CalmRules
    <3>6. CASE a.selected # NoOption
      <4> DEFINE score == ScoreOf(a.selected, k)
                 b == [a EXCEPT !.score = score]
                 m == IF a.score = "none" THEN 1 ELSE sent[q]
      <4>1. a \in Answer /\ a # NoAnswer
        BY <1>2, <3>6, AnswerTypes DEF NoAnswer
      <4>2. score \in {"right", "wrong"}
        <5>1. a.selected \in Keys /\ k # NoOption
          BY <1>2, <4>1, SimulationsAssumption DEF Answer
        <5>2. QED
          BY <1>2, <5>1, ScoreType
      <4> HIDE DEF score
      <4>3. b \in Answer /\ b.score = score
        BY <4>1, <4>2 DEF Answer
      <4>4. q \in ToSet(session.questions) /\ Scored(session, sent, q) /\ Has(session, q)
        BY <1>2, <2>1, <4>1 DEF Sound, Settled, Has
      <4>5. /\ sent[q] > 0 <=> a.score # "none"
            /\ Mcq(q) => sent[q] <= 1
            /\ sent[q] \in Nat
        BY <1>2, <4>4, Counted DEF Scored
      <4>6. m \in Nat /\ (m > 0 <=> b.score # "none") /\ (Mcq(q) => m <= 1)
        BY <4>2, <4>3, <4>5
      <4>7. sent' = [sent EXCEPT ![q] = m]
        <5>1. a.score = "none" => sent[q] = 0
          BY <4>5
        <5>2. a.score = "none" => sent' = [sent EXCEPT ![q] = 1]
          <6>1. a.score = "none" => sent' = [sent EXCEPT ![q] = sent[q] + 1]
            BY <1>2, <3>3, <3>4, <3>6, Counted
          <6>2. QED
            BY <5>1, <6>1
        <5>3. a.score # "none" => sent' = sent
          BY <3>3, <3>4, <3>6
        <5>4. QED
          BY <1>2, <5>2, <5>3, Counted
      <4>8. /\ s.questions = session.questions /\ s.kind = session.kind
            /\ s.limit = session.limit /\ s.seen = session.seen /\ s.loading = session.loading
        BY Fits DEF Session
      <4>9. s.answers = [session.answers EXCEPT ![q] = b]
        <5>1. s = [session EXCEPT !.picking = FALSE, !.answers[q] = b]
          BY <3>3, <3>6 DEF score
        <5> HIDE DEF s, b
        <5>2. QED
          BY <5>1, Fits DEF Session
      <4>10. Render(s, c)
        BY <3>3, <3>4, <3>6
      <4> HIDE DEF s, b, m
      <4>11. \A p \in Questions : p # q => Scored(session, sent, p)
        BY <2>1 DEF Settled
      <4>12. QED
        BY <1>1, <1>2, <2>1, <3>2, <4>3, <4>4, <4>6, <4>7, <4>8, <4>9, <4>10, <4>11, ReplyScores
    <3>7. QED
      BY <3>5, <3>6
  <2>4. QED
    BY <2>2, <2>3
<1>5. QED
  BY <1>3, <1>4 DEF CalmInv

LEMMA ReplyRescoreCalm ==
    ASSUME TypeInv, CalmInv, NEW op \in BagToSet(pending), ReplyRescore(op)
    PROVE  CalmInv'
<1> DEFINE q == op.question
           a == [selected |-> op.selected, score |-> ScoreOf(op.selected, op.option),
                 assessed |-> FALSE]
           s == [session EXCEPT !.answers[q] = a]
<1>1. /\ op.op = "rescore" /\ pending' = Rest(op) /\ haste' = haste
      /\ UNCHANGED <<sent, flagged>>
      /\ ~AtHome => Render(s, cache)
  BY DEF ReplyRescore, Replies, ghosts
<1>2. /\ q \in Questions /\ op.option \in Keys /\ op.option # NoOption /\ op.selected \in Keys
  BY <1>1, Fits DEF PendingFits, OpFits, Request
<1>3. a \in Answer /\ a.score # "none"
  BY <1>2, ScoreType DEF Answer
<1>4. CASE haste
  BY <1>1, <1>4 DEF CalmInv
<1>5. ASSUME ~haste PROVE Calm(session', cache', sent', flagged', pending')
  <2>1. /\ Sound(session, sent, flagged) /\ ~session.loading /\ NoWaiters(cache)
        /\ pending' = EmptyBag /\ \A p \in Questions : p # q => Scored(session, sent, p)
    BY <1>1, <1>5, ReplyRest
  <2>2. session.kind # "home" /\ session.answers[q].score = "none" /\ sent[q] = 1
    BY <1>1, <1>5, ReplyRest DEF Belongs
  <2>3. q \in ToSet(session.questions)
    BY <1>2, <2>1, <2>2 DEF Sound, Has, NoAnswer
  <2>4. Render(s, cache) /\ sent' = [sent EXCEPT ![q] = 1]
    BY <1>1, <1>2, <2>2, Counted DEF AtHome
  <2>5. /\ s.questions = session.questions /\ s.answers = [session.answers EXCEPT ![q] = a]
        /\ s.kind = session.kind /\ s.limit = session.limit /\ s.seen = session.seen
        /\ s.loading = session.loading
    BY Fits DEF Session
  <2> DEFINE m == 1
  <2>6. /\ m \in Nat /\ (m > 0 <=> a.score # "none") /\ (Mcq(q) => m <= 1)
        /\ sent' = [sent EXCEPT ![q] = m] /\ ~s.loading
    BY <1>3, <2>1, <2>4, <2>5
  <2>7. /\ CacheFits(cache) /\ Render(s, cache) /\ q \in Questions /\ a \in Answer
        /\ flagged' = flagged
    BY <1>1, <1>2, <1>3, <2>4, Fits
  <2> HIDE DEF q, a, s, m
  <2>8. QED
    BY <2>1, <2>3, <2>5, <2>6, <2>7, ReplyScores
<1>6. QED
  BY <1>4, <1>5 DEF CalmInv

\* The attempt of a regenerated key is sent; its answer is still to be scored.
LEMMA ReplyRegenerateCalm ==
    ASSUME TypeInv, CalmInv, NEW op \in BagToSet(pending), NEW k \in Keys, ReplyRegenerate(op, k)
    PROVE  CalmInv'
<1> DEFINE q == op.question
           a == session.answers[q]
           c == [cache EXCEPT ![q] = Entry(k)]
           rest == Rest(op) (+) Orphans({q})
<1>1. /\ op.op = "regenerate" /\ UNCHANGED flagged
      /\ haste' = haste
  <2>1. op.op = "regenerate" /\ UNCHANGED flagged
    BY DEF ReplyRegenerate
  <2>2. haste' = haste
    BY DEF ReplyRegenerate, Replies
  <2>3. QED
    BY <2>1, <2>2
<1>2. q \in Questions
  BY <1>1, Fits DEF PendingFits, OpFits
<1>3. CASE haste
  BY <1>1, <1>3 DEF CalmInv
<1>4. ASSUME ~haste PROVE Calm(session', cache', sent', flagged', pending')
  <2>1. /\ Sound(session, sent, flagged) /\ Settled(session, sent) /\ ~session.loading
        /\ NoWaiters(cache) /\ rest = EmptyBag
    BY <1>1, <1>2, <1>4, ReplyRest DEF Settled
  <2>2. CacheFits(c) /\ NoWaiters(c)
    BY <1>2, <2>1, Fits, EntryFits, EntryCalm
  <2>3. CASE AtHome
    <3>1. pending' = rest /\ UNCHANGED <<session, cache, sent>>
      BY <2>3 DEF ReplyRegenerate
    <3>2. QED
      BY <1>1, <2>1, <3>1, ReplyStays
  <2>4. CASE ~AtHome /\ (a.selected = NoOption \/ k = NoOption)
    <3>1. Render(session, c) /\ pending' = rest /\ UNCHANGED sent
      BY <2>4 DEF ReplyRegenerate
    <3> HIDE DEF rest, c
    <3>2. session' = session /\ NoWaiters(cache')
      BY <2>2, <3>1, RenderCalm
    <3>3. QED
      BY <1>1, <2>1, <3>1, <3>2, ReplyStays
  <2>5. CASE ~AtHome /\ ~(a.selected = NoOption \/ k = NoOption)
    <3>1. a \in Answer /\ a # NoAnswer /\ a.selected \in Keys
      BY <1>2, <2>5, AnswerTypes DEF NoAnswer, Answer
    <3>2. q \in ToSet(session.questions) /\ Scored(session, sent, q) /\ Has(session, q)
      BY <1>2, <2>1, <3>1 DEF Sound, Settled, Has
    <3>3. /\ sent[q] > 0 <=> a.score # "none"
          /\ Mcq(q) => sent[q] <= 1
          /\ sent[q] \in Nat
      BY <1>2, <3>2, Counted DEF Scored
    <3> DEFINE score == ScoreOf(a.selected, k)
    <3>4. score \in {"right", "wrong"}
      BY <2>5, <3>1, ScoreType
    <3>5. CASE a.score = "none"
      <4> DEFINE again == [Op("rescore") EXCEPT !.question = q, !.option = k,
                                                !.selected = a.selected]
                 x(lost) == Sent(World, q, a.selected, score, lost)
      <4>1. PICK lost \in BOOLEAN :
                /\ sent' = x(lost).sent /\ cache' = c
                /\ pending' = rest (+) SetToBag({again}) /\ UNCHANGED session
        BY <2>5, <3>5 DEF ReplyRegenerate
      <4>2. again.op = "rescore" /\ again.question = q /\ again.selected = a.selected
        BY DEF Op
      <4> HIDE DEF again, rest, c, score
      <4>3. sent' = [sent EXCEPT ![q] = @ + 1]
        <5> DEFINE n == Len(sims)
        <5>1. n \in Nat /\ WorldFits(World, n) /\ World.sent = sent
          BY WorldFitsNow
        <5> HIDE DEF n, q, a
        <5>2. Sent(World, q, a.selected, score, lost).sent = [World.sent EXCEPT ![q] = @ + 1]
          BY <1>2, <3>1, <3>4, <5>1, <4>1, SentFits
        <5>3. QED
          BY <4>1, <5>1, <5>2
      <4>4. sent'[q] = 1 /\ \A p \in Questions : p # q => sent'[p] = sent[p]
        <5>1. sent[q] = 0
          BY <3>3, <3>5
        <5>2. QED
          BY <1>2, <4>3, <5>1, Counted
      <4> HIDE DEF x
      <4>5. Sound(session, sent', flagged)
        BY <2>1, <3>2, <4>4 DEF Sound
      <4>6. Belongs(again, session, sent')
        BY <2>1, <2>5, <3>5, <4>2, <4>4 DEF Belongs, AtHome
      <4>7. pending' = SetToBag({again})
        BY <2>1, <4>1, BagFacts
      <4>8. \A p \in Questions : p # q => Scored(session, sent', p)
        BY <2>1, <4>4 DEF Settled, Scored
      <4>9. Asked(again, session', cache', sent', pending')
        BY <2>2, <4>1, <4>2, <4>6, <4>7, <4>8 DEF Asked
      <4>10. QED
        BY <1>1, <4>1, <4>5, <4>9, CalmRules
    <3>6. CASE a.score # "none"
      <4> DEFINE s == [session EXCEPT !.answers[q].score = score]
                 b == [a EXCEPT !.score = score]
                 m == sent[q]
      <4>1. Render(s, c) /\ pending' = rest /\ UNCHANGED sent
        BY <2>5, <3>6 DEF ReplyRegenerate
      <4> HIDE DEF score
      <4>2. b \in Answer /\ b.score = score
        BY <3>1, <3>4 DEF Answer
      <4>3. /\ s.questions = session.questions /\ s.kind = session.kind
            /\ s.limit = session.limit /\ s.seen = session.seen /\ s.loading = session.loading
        BY Fits DEF Session
      <4>4. s.answers = [session.answers EXCEPT ![q] = b]
        BY <1>2, Fits DEF Session
      <4>5. /\ m \in Nat /\ (m > 0 <=> b.score # "none") /\ (Mcq(q) => m <= 1)
            /\ sent' = [sent EXCEPT ![q] = m]
        BY <1>2, <3>3, <3>4, <3>6, <4>1, <4>2, Counted
      <4> HIDE DEF rest, c
      <4>6. /\ pending' = EmptyBag /\ flagged' = flagged /\ ~s.loading /\ q \in Questions
            /\ q \in ToSet(session.questions) /\ b \in Answer /\ Render(s, c)
            /\ \A p \in Questions : p # q => Scored(session, sent, p)
        BY <1>1, <1>2, <2>1, <3>2, <4>1, <4>2, <4>3 DEF Settled
      <4> HIDE DEF q, a, s, b, m
      <4>7. QED
        BY <2>1, <2>2, <4>3, <4>4, <4>5, <4>6, ReplyScores
    <3>7. QED
      BY <3>5, <3>6
  <2>6. QED
    BY <2>3, <2>4, <2>5
<1>5. QED
  BY <1>3, <1>4 DEF CalmInv

\* The discarded question is the current one, which is what is taken away.
LEMMA WithoutSound ==
    ASSUME TypeInv, Sound(session, sent, flagged), Settled(session, sent),
           NEW q \in Current(session), NEW s,
           s.questions = Without(session, q).questions, s.answers = Without(session, q).answers,
           s.kind = session.kind, s.seen = session.seen,
           s.kind = "review" => s.limit = session.limit - 1
    PROVE  Sound(s, sent, flagged \cup {q}) /\ Settled(s, sent)
<1>1. /\ q \in Questions /\ q \in ToSet(session.questions)
      /\ session.index < Len(session.questions) /\ q = session.questions[session.index + 1]
  BY Fits, CurrentType DEF Current
<1> DEFINE i == session.index + 1
           qs == RemoveAt(session.questions, i)
<1>2. s.questions = qs /\ s.answers = [session.answers EXCEPT ![q] = NoAnswer]
  BY <1>1, WithoutFits
<1>3. i \in 1..Len(session.questions)
  BY <1>1, Fits
<1>4. /\ qs \in Seq(Questions) /\ Len(qs) = Len(session.questions) - 1
      /\ Distinct(qs) /\ ToSet(qs) = ToSet(session.questions) \ {q}
  BY <1>1, <1>3, Fits, RemovedFacts DEF Sound
<1> HIDE DEF qs, i
<1>5. /\ ~Has(s, q)
      /\ \A p \in Questions : p # q => s.answers[p] = session.answers[p] /\ (Has(s, p) <=> Has(session, p))
  BY <1>1, <1>2, Fits DEF Session, Has
<1>6. Distinct(s.questions) /\ \A p \in ToSet(s.questions) : p \notin flagged \cup {q}
  BY <1>2, <1>4 DEF Sound
<1>7. /\ \A p \in Questions : Has(s, p) => p \in ToSet(s.questions)
      /\ \A p \in Questions : ~Has(s, p) /\ p \notin flagged \cup {q} => sent[p] = 0
  BY <1>2, <1>4, <1>5 DEF Sound
<1>8. s.kind = "review" => /\ Len(s.questions) <= s.limit /\ ToSet(s.questions) \subseteq s.seen
                           /\ flagged \cup {q} \subseteq s.seen
  <2>1. Len(session.questions) \in Nat /\ session.limit \in Nat
    BY Fits
  <2>2. QED
    BY <1>1, <1>2, <1>4, <2>1 DEF Sound
<1>9. Sound(s, sent, flagged \cup {q})
  BY <1>6, <1>7, <1>8 DEF Sound
<1>10. Settled(s, sent)
  BY <1>1, <1>5 DEF Settled, Scored
<1>11. QED
  BY <1>9, <1>10

LEMMA ReplyDiscardCalm ==
    ASSUME TypeInv, CalmInv, NEW op \in BagToSet(pending), ReplyDiscard(op)
    PROVE  CalmInv'
<1> DEFINE q == op.question
           s == Without(session, q)
           end == IF s.questions = <<>> THEN 0 ELSE Len(s.questions) - 1
           limit == IF s.limit = 0 THEN 0 ELSE s.limit - 1
           inReview == [s EXCEPT !.limit = limit, !.index = end]
           inSimulation == [s EXCEPT !.index = Smaller(s.index, end)]
<1>1. /\ op.op = "discard" /\ haste' = haste
  BY DEF ReplyDiscard, Replies
<1>2. CASE haste
  BY <1>1, <1>2 DEF CalmInv
<1>3. ASSUME ~haste PROVE Calm(session', cache', sent', flagged', pending')
  <2>1. /\ Sound(session, sent, flagged) /\ Settled(session, sent) /\ ~session.loading
        /\ NoWaiters(cache) /\ Rest(op) = EmptyBag /\ q \in Current(session)
    BY <1>1, <1>3, ReplyRest DEF Settled, Belongs
  <2>2. q \in Questions /\ q \in ToSet(session.questions)
    BY <2>1, Fits, CurrentType
  <2>3. /\ s \in Session /\ s.kind = session.kind /\ s.limit = session.limit
        /\ s.seen = session.seen /\ s.loading = session.loading /\ s.serial = session.serial
        /\ s.questions \in Seq(Questions) /\ s.index = session.index
    BY <2>2, WithoutFits
  <2>4. CASE AtHome
    <3>1. pending' = Rest(op) /\ UNCHANGED <<session, cache, sent, flagged>>
      BY <2>4 DEF ReplyDiscard
    <3>2. QED
      BY <2>1, <3>1, ReplyStays
  <2>5. CASE ~AtHome /\ s.kind = "simulation" /\ s.questions = <<>>
    <3>1. Exit(Rest(op))
      BY <2>5 DEF ReplyDiscard
    <3>2. QED
      BY <2>1, <3>1, Fits, ExitCalm
  <2>6. CASE ~AtHome /\ s.kind = "review"
    <3>1. /\ LoadNext(inReview, Rest(op))
          /\ flagged' = flagged \cup {q} /\ sent' = sent
      BY <2>6 DEF ReplyDiscard
    <3>2. limit \in 0..ReviewLength /\ end \in Nat
      <4>1. s.limit \in 0..ReviewLength /\ Len(s.questions) \in Nat
        BY <2>3, LenProperties DEF Session
      <4>2. s.questions # <<>> => Len(s.questions) # 0
        BY <2>3, EmptySeq
      <4> HIDE DEF s
      <4>3. QED
        BY <4>1, <4>2, PlayerAssumption
    <3>3. limit = s.limit - 1
      <4>1. Len(session.questions) <= session.limit /\ session.index < Len(session.questions)
        BY <2>1, <2>3, <2>6 DEF Sound, Current
      <4>2. s.limit # 0
        BY <2>3, <4>1, Fits
      <4> HIDE DEF s
      <4>3. QED
        BY <4>2
    <3> HIDE DEF s, limit, end
    <3>4. /\ inReview \in Session /\ inReview.kind = "review" /\ inReview.limit = limit
          /\ inReview.questions = s.questions /\ inReview.answers = s.answers
          /\ inReview.seen = s.seen /\ inReview.loading = s.loading
      BY <2>3, <2>6, <3>2 DEF Session
    <3> HIDE DEF inReview
    <3>5. Sound(inReview, sent, flagged \cup {q}) /\ Settled(inReview, sent)
      <4>1. /\ inReview.questions = Without(session, q).questions
            /\ inReview.answers = Without(session, q).answers
            /\ inReview.kind = session.kind /\ inReview.seen = session.seen
            /\ inReview.limit = session.limit - 1
        BY <2>3, <2>6, <3>3, <3>4 DEF s
      <4> HIDE DEF q
      <4>2. QED
        BY <2>1, <4>1, WithoutSound
    <3>6. ~inReview.loading
      BY <2>1, <2>3, <3>4
    <3>7. Calm(session', cache', sent, flagged \cup {q}, pending')
      BY <2>1, <3>1, <3>4, <3>5, <3>6, Fits, LoadNextCalm
    <3>8. QED
      BY <3>1, <3>7
  <2>7. CASE ~AtHome /\ s.kind = "simulation" /\ s.questions # <<>>
    <3>1. /\ Render(inSimulation, cache) /\ pending' = Rest(op)
          /\ flagged' = flagged \cup {q} /\ sent' = sent
      BY <2>7 DEF ReplyDiscard
    <3> DEFINE index == Smaller(s.index, end)
    <3> HIDE DEF s, index
    <3>2. /\ inSimulation.kind = "simulation" /\ inSimulation.seen = s.seen
          /\ inSimulation.questions = s.questions /\ inSimulation.answers = s.answers
          /\ inSimulation.loading = s.loading
      <4>1. inSimulation = [s EXCEPT !.index = index]
        BY DEF index
      <4> HIDE DEF inSimulation
      <4>2. QED
        BY <2>3, <2>7, <4>1 DEF Session
    <3> HIDE DEF inSimulation
    <3>3. Sound(inSimulation, sent, flagged \cup {q}) /\ Settled(inSimulation, sent)
      <4>1. /\ inSimulation.questions = Without(session, q).questions
            /\ inSimulation.answers = Without(session, q).answers
            /\ inSimulation.kind = session.kind /\ inSimulation.seen = session.seen
            /\ inSimulation.kind # "review"
        BY <2>3, <2>7, <3>2 DEF s
      <4> HIDE DEF q
      <4>2. QED
        BY <2>1, <4>1, WithoutSound
    <3>4. session' = inSimulation /\ NoWaiters(cache')
      BY <2>1, <3>1, Fits, RenderCalm
    <3>5. Idle(inSimulation, cache', sent, pending')
      BY <2>1, <2>3, <3>1, <3>2, <3>3, <3>4 DEF Idle
    <3>6. QED
      BY <3>1, <3>3, <3>4, <3>5, CalmRules
  <2>8. s.kind \in {"home", "simulation", "review"} /\ (s.kind = "home" <=> AtHome)
    <3> HIDE DEF s
    <3>1. QED
      BY <2>3 DEF Session, AtHome
  <2>9. QED
    BY <2>4, <2>5, <2>6, <2>7, <2>8
<1>4. QED
  BY <1>2, <1>3 DEF CalmInv

-----------------------------------------------------------------------------
(* The next question of a review that waits for it.                        *)

LEMMA NextFinds ==
    ASSUME TypeInv, CalmInv, NEW op \in BagToSet(pending), ~haste, op.op = "next"
    PROVE  /\ Sound(session, sent, flagged) /\ Settled(session, sent) /\ NoWaiters(cache)
           /\ session.kind = "review" /\ session.serial = op.number /\ op.ids = session.seen
           /\ Len(session.questions) < session.limit /\ ~AtHome
           /\ Rest(op) = EmptyBag
           /\ Loaded(op) = [session EXCEPT !.loading = FALSE]
<1>1. /\ Sound(session, sent, flagged) /\ Belongs(op, session, sent) /\ NoWaiters(cache)
      /\ Settled(session, sent) /\ Rest(op) = EmptyBag
  BY ReplyRest DEF Settled
<1>2. /\ session.kind = "review" /\ session.serial = op.number /\ op.ids = session.seen
      /\ Len(session.questions) < session.limit
  BY <1>1 DEF Belongs
<1>3. QED
  BY <1>1, <1>2 DEF Loaded, AtHome

LEMMA ReplyNextOverCalm ==
    ASSUME TypeInv, CalmInv, NEW op \in BagToSet(pending),
           ReplyNextOver(op) \/ NextFails(op)
    PROVE  CalmInv'
<1> DEFINE over == [Loaded(op) EXCEPT !.finished = TRUE]
<1>1. /\ op.op = "next" /\ pending' = Rest(op) /\ haste' = haste /\ UNCHANGED <<sent, flagged>>
      /\ ~AtHome => Render(over, cache) \/ Render(Loaded(op), cache)
  BY DEF ReplyNextOver, NextFails, Finish, Replies, ghosts
<1>2. CASE haste
  BY <1>1, <1>2 DEF CalmInv
<1>3. ASSUME ~haste PROVE Calm(session', cache', sent', flagged', pending')
  <2>1. /\ Sound(session, sent, flagged) /\ Settled(session, sent) /\ NoWaiters(cache)
        /\ ~AtHome /\ Rest(op) = EmptyBag
        /\ Loaded(op) = [session EXCEPT !.loading = FALSE]
    BY <1>1, <1>3, NextFinds
  <2>2. PICK s \in {over, Loaded(op)} : Render(s, cache)
    BY <1>1, <2>1
  <2>3. /\ s.questions = session.questions /\ s.answers = session.answers
        /\ s.kind = session.kind /\ s.limit = session.limit /\ s.seen = session.seen
        /\ s.loading = FALSE
    <3> DEFINE l == Loaded(op)
    <3>1. l \in Session /\ l = [session EXCEPT !.loading = FALSE]
      BY <2>1, LoadedFits DEF SessionFits
    <3>2. /\ l.questions = session.questions /\ l.answers = session.answers
          /\ l.kind = session.kind /\ l.limit = session.limit /\ l.seen = session.seen
          /\ l.loading = FALSE
      BY <3>1, Fits DEF Session
    <3>3. s = l \/ s = [l EXCEPT !.finished = TRUE]
      BY <2>2
    <3> HIDE DEF l
    <3>4. CASE s = l
      BY <3>2, <3>4
    <3>5. CASE s = [l EXCEPT !.finished = TRUE]
      BY <3>1, <3>2, <3>5 DEF Session
    <3>6. QED
      BY <3>3, <3>4, <3>5
  <2>4. session' = s /\ NoWaiters(cache')
    BY <2>1, <2>2, Fits, RenderCalm
  <2>5. Sound(s, sent, flagged) /\ Settled(s, sent)
    BY <2>1, <2>3, SameAnswers
  <2>6. Idle(s, cache', sent', pending')
    BY <1>1, <2>1, <2>3, <2>4, <2>5 DEF Idle
  <2>7. QED
    BY <1>1, <2>4, <2>5, <2>6, CalmRules
<1>4. QED
  BY <1>2, <1>3 DEF CalmInv

LEMMA ReplyNextQuestionCalm ==
    ASSUME TypeInv, CalmInv, NEW op \in BagToSet(pending), NEW q \in Questions,
           ReplyNextQuestion(op, q)
    PROVE  CalmInv'
<1> DEFINE qs == Append(session.questions, q)
           s == [Loaded(op) EXCEPT !.questions = Append(@, q), !.index = Len(session.questions),
                    !.seen = IF session.serial = op.number THEN @ \cup {q} ELSE @]
           c == Fetched(cache, {q})
<1>1. /\ op.op = "next" /\ pending' = Rest(op) /\ haste' = haste /\ UNCHANGED <<sent, flagged>>
      /\ q \notin op.ids /\ (~AtHome => Render(s, c))
  BY DEF ReplyNextQuestion, Replies, ghosts
<1>2. CASE haste
  BY <1>1, <1>2 DEF CalmInv
<1>3. ASSUME ~haste PROVE Calm(session', cache', sent', flagged', pending')
  <2>1. /\ Sound(session, sent, flagged) /\ Settled(session, sent) /\ NoWaiters(cache)
        /\ session.kind = "review" /\ session.serial = op.number /\ op.ids = session.seen
        /\ Len(session.questions) < session.limit /\ ~AtHome /\ Rest(op) = EmptyBag
        /\ Loaded(op) = [session EXCEPT !.loading = FALSE]
    BY <1>1, <1>3, NextFinds
  <2>2. /\ s.questions = qs /\ s.answers = session.answers /\ s.kind = "review"
        /\ s.limit = session.limit /\ s.seen = session.seen \cup {q} /\ s.loading = FALSE
    BY <2>1, Fits DEF Session
  <2>3. CacheFits(c) /\ NoWaiters(c)
    BY <2>1, Fits, FetchedFits, FetchedCalm
  <2>4. Render(s, c)
    BY <1>1, <2>1
  <2> HIDE DEF s, c
  <2>5. session' = s /\ NoWaiters(cache')
    BY <2>3, <2>4, RenderCalm
  <2>6. q \notin session.seen /\ q \notin ToSet(session.questions) /\ q \notin flagged
    BY <1>1, <2>1 DEF Sound
  <2>7. /\ Len(qs) = Len(session.questions) + 1 /\ Distinct(qs)
        /\ ToSet(qs) = ToSet(session.questions) \cup {q}
    BY <2>1, <2>6, Fits, AppendedFacts DEF Sound
  <2> HIDE DEF qs
  <2>8. Len(qs) <= session.limit
    BY <2>1, <2>7, Fits
  <2>9. \A p \in Questions : Has(s, p) <=> Has(session, p)
    BY <2>2 DEF Has
  <2>10. Sound(s, sent, flagged)
    <3>1. Distinct(s.questions) /\ \A p \in ToSet(s.questions) : p \notin flagged
      BY <2>1, <2>2, <2>6, <2>7 DEF Sound
    <3>2. /\ \A p \in Questions : Has(s, p) => p \in ToSet(s.questions)
          /\ \A p \in Questions : ~Has(s, p) /\ p \notin flagged => sent[p] = 0
      BY <2>1, <2>2, <2>7, <2>9 DEF Sound
    <3>3. /\ Len(s.questions) <= s.limit /\ ToSet(s.questions) \subseteq s.seen
          /\ flagged \subseteq s.seen
      BY <2>1, <2>2, <2>7, <2>8 DEF Sound
    <3>4. QED
      BY <3>1, <3>2, <3>3 DEF Sound
  <2>11. Settled(s, sent)
    BY <2>1, <2>2, <2>9 DEF Settled, Scored
  <2>12. Idle(s, cache', sent', pending')
    BY <1>1, <2>1, <2>2, <2>5, <2>11 DEF Idle
  <2>13. QED
    BY <1>1, <2>5, <2>10, <2>12, CalmRules
<1>4. QED
  BY <1>2, <1>3 DEF CalmInv

-----------------------------------------------------------------------------
(* Simulations that are entered.                                           *)

LEMMA EnteredCalm ==
    ASSUME TypeInv, CalmInv, NEW op \in BagToSet(pending), op.op \in {"start", "retry", "open"},
           haste' = haste, NEW s, Enter(s, Rest(op)), Distinct(s.questions),
           s.kind = "simulation", ~s.loading,
           \A q \in Questions : Has(s, q) => /\ q \in ToSet(s.questions)
                                             /\ s.answers[q].score # "none"
    PROVE  CalmInv'
<1>1. CASE haste
  BY <1>1 DEF CalmInv
<1>2. ASSUME ~haste PROVE Calm(session', cache', sent', flagged', pending')
  <2>1. NoWaiters(cache) /\ Rest(op) = EmptyBag /\ CacheFits(cache)
    BY <1>2, ReplyRest, Fits
  <2>2. /\ session' = s /\ pending' = Rest(op) (+) EmptyBag /\ NoWaiters(cache')
        /\ Sound(s, sent', flagged') /\ Settled(s, sent')
    <3> DEFINE ops == Rest(op)
    <3>1. Enter(s, ops) /\ s.kind # "review"
      OBVIOUS
    <3> HIDE DEF ops
    <3>2. /\ session' = s /\ pending' = ops (+) EmptyBag /\ NoWaiters(cache')
          /\ Sound(s, sent', flagged') /\ Settled(s, sent')
      BY <2>1, <3>1, EnterCalm
    <3>3. QED
      BY <3>2 DEF ops
  <2>3. pending' = EmptyBag
    BY <2>1, <2>2, BagFacts
  <2>4. Idle(s, cache', sent', pending')
    BY <2>2, <2>3 DEF Idle
  <2>5. QED
    BY <2>2, <2>4, CalmRules
<1>3. QED
  BY <1>1, <1>2 DEF CalmInv

LEMMA NewSimulationCalm ==
    ASSUME TypeInv, CalmInv, NEW op \in BagToSet(pending), op.op \in {"start", "retry"},
           NEW config, NEW qs \in Seq(Questions), Distinct(qs), ReplyNewSimulation(op, config, qs)
    PROVE  CalmInv'
<1>1. haste' = haste
  BY DEF ReplyNewSimulation, Replies
<1>2. CASE qs = <<>>
  <2>1. pending' = Rest(op) /\ UNCHANGED <<session, cache, sent, flagged>>
    BY <1>2 DEF ReplyNewSimulation, ghosts
  <2>2. ~haste => /\ Sound(session, sent, flagged) /\ Settled(session, sent)
                  /\ ~session.loading /\ NoWaiters(cache) /\ Rest(op) = EmptyBag
    BY ReplyRest DEF Settled
  <2>3. ~haste => Calm(session', cache', sent', flagged', pending')
    BY <2>1, <2>2, ReplyStays
  <2>4. QED
    BY <1>1, <2>3 DEF CalmInv
<1>3. CASE qs # <<>>
  <2> DEFINE s == NewSession("simulation", Len(sims) + 1, qs)
  <2>1. Enter(s, Rest(op))
    BY <1>3 DEF ReplyNewSimulation
  <2>2. /\ s.questions = qs /\ s.kind = "simulation" /\ ~s.loading
        /\ s.answers = [q \in Questions |-> NoAnswer]
    BY DEF NewSession, Home
  <2> HIDE DEF s
  <2>3. \A q \in Questions : ~Has(s, q)
    BY <2>2 DEF Has
  <2>4. QED
    BY <1>1, <2>1, <2>2, <2>3, EnteredCalm
<1>4. QED
  BY <1>2, <1>3

LEMMA ReplyStartCalm ==
    ASSUME TypeInv, CalmInv, NEW op \in BagToSet(pending), ReplyStart(op) \/ ReplyRetry(op)
    PROVE  CalmInv'
<1>1. CASE ReplyStart(op)
  <2>1. op.op = "start" /\ op.number \in DOMAIN Offers
    BY <1>1, Fits DEF PendingFits, OpFits, ReplyStart
  <2>2. Offers[op.number] \in Requests
    BY <2>1, PlayerAssumption, LenProperties, ElementOfSeq
  <2>3. PICK qs \in Generated(Offers[op.number]) : ReplyNewSimulation(op, Offers[op.number], qs)
    BY <1>1 DEF ReplyStart
  <2>4. qs \in Seq(Questions) /\ Distinct(qs)
    BY <2>2, <2>3, GeneratedFacts
  <2>5. QED
    BY <2>1, <2>3, <2>4, NewSimulationCalm
<1>2. CASE ReplyRetry(op)
  <2>1. op.op = "retry" /\ op.ids \in SUBSET Questions
    BY <1>2, Fits DEF PendingFits, OpFits, Request, ReplyRetry
  <2>2. PICK qs \in FromQuestions(op.ids) : ReplyNewSimulation(op, NoRequest, qs)
    BY <1>2 DEF ReplyRetry
  <2>3. qs \in Seq(Questions) /\ Distinct(qs)
    BY <2>1, <2>2, FromQuestionsFacts
  <2>4. QED
    BY <2>1, <2>2, <2>3, NewSimulationCalm
<1>3. QED
  BY <1>1, <1>2

\* The answers of a simulation that is read back all have a score.
LEMMA ReopenedAnswers ==
    ASSUME TypeInv, MayEnter, NEW id \in 1..Len(sims), NEW mode, NEW at \in Nat,
           Resumed(id) # <<>>,
           NEW s, s = Reopened(id, mode, at)
    PROVE  /\ s.kind = "simulation" /\ ~s.loading /\ Distinct(s.questions)
           /\ \A q \in Questions : Has(s, q) => /\ q \in ToSet(s.questions)
                                                /\ s.answers[q].score # "none"
<1> DEFINE qs == Resumed(id)
           answers == [q \in Questions |-> IF q \in ToSet(qs) THEN Restored(sims[id].latest[q])
                                           ELSE NoAnswer]
<1>1. LET t == Reopened(id, mode, at)
      IN  /\ SessionFits(t, Len(sims)) /\ t.questions = Resumed(id) /\ t.kind = "simulation"
          /\ t.loading = FALSE
          /\ t.answers = [q \in Questions |-> IF q \in ToSet(Resumed(id))
                                              THEN Restored(sims[id].latest[q]) ELSE NoAnswer]
  BY ReopenedFits
<1>2. /\ s.questions = qs /\ s.kind = "simulation" /\ s.loading = FALSE /\ s.answers = answers
  BY <1>1
<1>3. Distinct(qs) /\ \A q \in Questions : sims[id].latest[q] \in Attempt \cup {NoAttempt}
  BY StoredRow
<1>4. \A q \in Questions : answers[q] = IF q \in ToSet(qs) THEN Restored(sims[id].latest[q])
                                         ELSE NoAnswer
  OBVIOUS
<1> HIDE DEF qs, answers
<1>5. \A q \in Questions : Has(s, q) => q \in ToSet(s.questions) /\ s.answers[q].score # "none"
  <2> SUFFICES ASSUME NEW q \in Questions, Has(s, q)
               PROVE  q \in ToSet(s.questions) /\ s.answers[q].score # "none"
    OBVIOUS
  <2>1. q \in ToSet(qs) /\ s.answers[q] = Restored(sims[id].latest[q])
    BY <1>2, <1>4 DEF Has
  <2>2. Restored(sims[id].latest[q]).score \in {"right", "wrong"}
    BY <1>3, <2>1, RestoredType DEF Has
  <2>3. QED
    BY <1>2, <2>1, <2>2
<1>6. QED
  BY <1>2, <1>3, <1>5

LEMMA ReplyOpenCalm ==
    ASSUME TypeInv, CalmInv, NEW op \in BagToSet(pending), ReplyOpen(op)
    PROVE  CalmInv'
<1> DEFINE id == op.number
           mode == op.mode
           at == op.at
           s == Reopened(id, mode, at)
<1>1. op.op = "open" /\ s.questions # <<>> /\ Enter(s, Rest(op)) /\ haste' = haste
  BY DEF ReplyOpen, Replies
<1>2. id \in 1..Len(sims) /\ at \in Nat /\ MayEnter
  BY <1>1, Fits DEF PendingFits, OpFits, Request, Enter
<1>3. Resumed(id) # <<>>
  <2>1. s.questions = Resumed(id)
    BY DEF Reopened, NewSession, Home
  <2>2. QED
    BY <1>1, <2>1
<1>4. s = Reopened(id, mode, at)
  OBVIOUS
<1> HIDE DEF s, id, mode, at
<1>5. /\ s.kind = "simulation" /\ ~s.loading /\ Distinct(s.questions)
      /\ \A q \in Questions : Has(s, q) => /\ q \in ToSet(s.questions)
                                           /\ s.answers[q].score # "none"
  BY <1>2, <1>3, <1>4, ReopenedAnswers
<1>6. QED
  BY <1>1, <1>5, EnteredCalm

LEMMA OthersCalm ==
    ASSUME TypeInv, CalmInv
    PROVE  /\ OtherPage => CalmInv'
           /\ \A op \in BagToSet(pending), k \in Keys : ReplyOrphan(op, k) => CalmInv'
<1>1. ASSUME OtherPage PROVE CalmInv'
  BY <1>1 DEF OtherPage, Replies, ghosts, CalmInv
<1>2. ASSUME NEW op \in BagToSet(pending), NEW k \in Keys, ReplyOrphan(op, k) PROVE CalmInv'
  <2>1. op.op = "orphan" /\ haste' = haste
    BY <1>2 DEF ReplyOrphan, Replies
  <2>2. haste
    BY <2>1, ReplyRest DEF Belongs
  <2>3. QED
    BY <2>1, <2>2 DEF CalmInv
<1>3. QED
  BY <1>1, <1>2

-----------------------------------------------------------------------------
(* Every step.                                                             *)

LEMMA InitCalm == Init => CalmInv
<1> SUFFICES ASSUME Init
             PROVE  CalmInv
  OBVIOUS
<1>1. /\ session = Home /\ cache = EmptyCache /\ pending = EmptyBag
      /\ sent = [q \in Questions |-> 0] /\ flagged = {}
  BY DEF Init
<1>2. Sound(session, sent, flagged) /\ Idle(session, cache, sent, pending)
  BY <1>1, HomeCalm, EmptyCacheCalm DEF Idle
<1>3. QED
  BY <1>2, CalmRules DEF CalmInv

LEMMA StepCalm == TypeInv /\ CalmInv /\ [Next]_vars => CalmInv'
<1> SUFFICES ASSUME TypeInv, CalmInv, [Next]_vars
             PROVE  CalmInv'
  OBVIOUS
<1>1. CASE OnHome
  BY <1>1, SessionRequestsCalm, StartReviewCalm DEF OnHome
<1>2. ASSUME NEW q \in Questions, OnQuestion(q) PROVE CalmInv'
  <2>1. CASE \E o \in Options : AnswerQuestion(q, o) \/ SaveKey(q, o)
    BY <2>1, AnswerQuestionCalm, RequestsCalm
  <2>2. CASE DontKnow(q) \/ Reveal(q) \/ \E score \in {"right", "wrong"} : SelfAssess(q, score)
    BY <2>2, DontKnowCalm, RevealCalm, SelfAssessCalm
  <2>3. CASE NextInSimulation(q) \/ NextInReview(q) \/ RegenerateWithAi(q) \/ DiscardCurrent(q)
    BY <2>3, NextInSimulationCalm, NextInReviewCalm, RequestsCalm
  <2>4. QED
    BY <1>2, <2>1, <2>2, <2>3 DEF OnQuestion
<1>3. CASE OnSession
  <2>1. CASE \E q \in Questions : OnQuestion(q)
    BY <1>2, <2>1
  <2>2. CASE GoPrev \/ ExitSession \/ ResumeSkipped \/ RetryMistakes \/ Reload
    BY <2>2, GoPrevCalm, ExitSessionCalm, ResumeSkippedCalm, SessionRequestsCalm, ReloadCalm
  <2>3. CASE \E value \in BOOLEAN : SetPicking(value)
    BY <2>3, SetPickingCalm
  <2>4. QED
    BY <1>3, <2>1, <2>2, <2>3 DEF OnSession
<1>4. CASE OtherPage
  BY <1>4, OthersCalm
<1>5. ASSUME NEW op \in BagToSet(pending), Reply(op) PROVE CalmInv'
  <2>1. CASE ReplySave(op) \/ ReplyDiscard(op) \/ ReplyRescore(op)
    BY <2>1, ReplySaveCalm, ReplyDiscardCalm, ReplyRescoreCalm
  <2>2. CASE ReplyStart(op) \/ ReplyRetry(op) \/ ReplyOpen(op) \/ RequestFails(op)
    BY <2>2, ReplyStartCalm, ReplyOpenCalm, RequestFailsCalm
  <2>3. CASE \E k \in Keys : ReplyRegenerate(op, k) \/ ReplyOrphan(op, k)
    BY <2>3, ReplyRegenerateCalm, OthersCalm
  <2>4. QED
    BY <1>5, <2>1, <2>2, <2>3 DEF Reply
<1>6. ASSUME NEW op \in BagToSet(pending), ReplyNext(op) PROVE CalmInv'
  BY <1>6, ReplyNextOverCalm, ReplyNextQuestionCalm DEF ReplyNext
<1>7. CASE \E q \in Questions, k \in Keys : ReplyCorrection(q, k)
  BY <1>7, ReplyCorrectionCalm
<1>8. CASE UNCHANGED vars
  BY <1>8 DEF vars, CalmInv
<1>9. QED
  BY <1>1, <1>3, <1>4, <1>5, <1>6, <1>7, <1>8 DEF Next

LEMMA CalmInvariant == Spec => []CalmInv
  BY TypeInvariant, InitCalm, StepCalm, PTL DEF Spec

LEMMA CalmGivesSound == TypeInv /\ CalmInv => SessionIsSound
<1> SUFFICES ASSUME TypeInv, CalmInv, ~haste
             PROVE  SessionIsSound
  BY DEF SessionIsSound
<1>1. Sound(session, sent, flagged)
  BY DEF CalmInv, Calm
<1>2. Cardinality(ToSet(session.questions)) = Len(session.questions)
  BY <1>1, Fits, DistinctCounts DEF Sound
<1>3. QED
  BY <1>1, <1>2 DEF Sound, SessionIsSound

LEMMA CalmGivesAttempts == TypeInv /\ CalmInv => AttemptsFollowScores
<1> SUFFICES ASSUME TypeInv, CalmInv, ~haste, ~Awaiting
             PROVE  AttemptsFollowScores
  BY DEF AttemptsFollowScores
<1>1. pending = EmptyBag /\ \A q \in Questions : cache[q].waiters = <<>>
  BY DEF Awaiting
<1>2. Settled(session, sent)
  BY <1>1, BagFacts DEF CalmInv, Calm, Idle, Waits
<1>3. QED
  BY <1>2 DEF Settled, Scored, AttemptsFollowScores

\* With a user who waits for replies, a session shows no question twice and
\* none that was discarded in it, keeps answers to its own questions only, and
\* a review does not show more than it announced, whichever requests fail.
THEOREM SessionIsSoundHolds == Spec => []SessionIsSound
  BY TypeInvariant, CalmInvariant, CalmGivesSound, PTL

\* With such a user, what the server has been sent about a question follows the
\* score the session shows: one attempt for a score, none without, through late
\* keys, saved and regenerated keys and resumed simulations.
THEOREM AttemptsFollowScoresHolds == Spec => []AttemptsFollowScores
  BY TypeInvariant, CalmInvariant, CalmGivesAttempts, PTL

=============================================================================

-------------------------- MODULE InMemoryQueueProofs --------------------------
(***************************************************************************)
(* Proofs about InMemoryQueue.  What its two operators on the array do,      *)
(* findIndex and filter, comes first, by an induction over sets of           *)
(* sequences; then the safety invariant, and that the array implements the   *)
(* queues of FifoQueues.                                                     *)
(***************************************************************************)
EXTENDS InMemoryQueue, FiniteSetTheorems, SequenceTheorems, WellFoundedInduction, TLAPS

(* Every nonempty set of naturals has a least element. *)
LEMMA LeastElement ==
    ASSUME NEW I, I \subseteq Nat, I # {}
    PROVE  \E m \in I : \A i \in I : m <= i
<1>1. PICK m \in I : \A i \in I : ~ (<<i, m>> \in OpToRel(<, Nat))
  BY NatLessThanWellFounded, WFMin
<1>2. ASSUME NEW i \in I PROVE m <= i
  <2>1. i < m => <<i, m>> \in OpToRel(<, Nat)
    BY DEF OpToRel
  <2>2. ~ (i < m)
    BY <1>1, <2>1, Zenon
  <2> QED BY <2>2
<1> QED BY <1>2

(* Induction over the naturals, for a set of them. *)
LEMMA NaturalsBySuccessor ==
    ASSUME NEW T, T \subseteq Nat, 0 \in T, \A n \in T : n + 1 \in T
    PROVE  T = Nat
<1> DEFINE U == Nat \ T
<1> SUFFICES ASSUME U # {} PROVE FALSE
  OBVIOUS
<1>1. PICK m \in U : \A i \in U : m <= i
  BY LeastElement
<1>2. m - 1 \in U /\ m - 1 < m
  <2>1. m \in Nat /\ m # 0 /\ m - 1 \in Nat
    OBVIOUS
  <2>2. m - 1 \in T => (m - 1) + 1 \in T
    OBVIOUS
  <2> QED BY <2>1, <2>2
<1> QED BY <1>1, <1>2

(* Induction over sequences, for a set of them: the empty one and each that is
   one longer. *)
LEMMA SequencesByAppend ==
    ASSUME NEW S, NEW T, T \subseteq Seq(S), << >> \in T,
           \A s \in T : \A e \in S : Append(s, e) \in T
    PROVE  T = Seq(S)
<1> DEFINE N == {n \in Nat : \A s \in Seq(S) : Len(s) = n => s \in T}
<1>1. 0 \in N
  BY EmptySeq
<1>2. ASSUME NEW n \in N PROVE n + 1 \in N
  <2> SUFFICES ASSUME NEW s \in Seq(S), Len(s) = n + 1 PROVE s \in T
    OBVIOUS
  <2>1. PICK r \in Seq(S), e \in S : s = Append(r, e)
    <3>1. s # << >>
      OBVIOUS
    <3> QED BY <3>1, SequenceEmptyOrAppend
  <2>2. Len(r) = n
    BY <2>1
  <2> QED BY <2>1, <2>2
<1>3. N = Nat
  <2> HIDE DEF N
  <2>1. N \subseteq Nat BY DEF N
  <2> QED BY <1>1, <1>2, <2>1, NaturalsBySuccessor
<1>4. ASSUME NEW s \in Seq(S) PROVE s \in T
  <2>1. Len(s) \in N
    BY <1>3, LenProperties
  <2> QED BY <2>1
<1> QED BY <1>4

----------------------------------------------------------------------------
(* findIndex *)

LEMMA FirstIndexFinds ==
    ASSUME NEW q, messages \in Seq(QueueMessage)
    PROVE  \/ /\ FirstIndex(q) = 0
              /\ \A j \in 1..Len(messages) : messages[j].queueName # q
           \/ /\ FirstIndex(q) \in 1..Len(messages)
              /\ messages[FirstIndex(q)].queueName = q
              /\ \A j \in 1..FirstIndex(q) - 1 : messages[j].queueName # q
<1> DEFINE I == {i \in 1..Len(messages) : messages[i].queueName = q}
<1>1. FirstIndex(q) = IF I # {} THEN Min(I) ELSE 0
  BY DEF FirstIndex, SelectInSeq
<1>2. CASE I = {}
  BY <1>1, <1>2
<1>3. CASE I # {}
  <2>1. PICK m \in I : \A i \in I : m <= i
    <3>1. I \subseteq Nat
      OBVIOUS
    <3> HIDE DEF I
    <3> QED BY <1>3, <3>1, LeastElement
  <2>2. Min(I) \in I /\ \A i \in I : Min(I) <= i
    BY <2>1 DEF Min
  <2>3. ASSUME NEW j \in 1..Min(I) - 1 PROVE messages[j].queueName # q
    BY <2>2
  <2> QED BY <1>1, <1>3, <2>2, <2>3
<1> QED BY <1>2, <1>3

----------------------------------------------------------------------------
(* filter *)

(* How many of a set of positions are not past i. *)
Rank(I, i) == Cardinality({j \in I : j <= i})

LEMMA RankType ==
    ASSUME NEW I, I \subseteq Nat, IsFiniteSet(I), NEW i \in I
    PROVE  /\ Cardinality(I) \in Nat
           /\ Rank(I, i) \in Nat
           /\ 1 <= Rank(I, i) /\ Rank(I, i) <= Cardinality(I)
<1> DEFINE J == {j \in I : j <= i}
<1>1. J \in SUBSET I /\ i \in J
  OBVIOUS
<1> HIDE DEF J
<1>2. IsFiniteSet(J) /\ Cardinality(J) <= Cardinality(I)
  BY <1>1, FS_Subset
<1>3. Cardinality(J) \in Nat /\ Cardinality(I) \in Nat /\ Cardinality(J) # 0
  BY <1>1, <1>2, FS_CardinalityType, FS_EmptySet
<1> QED BY <1>2, <1>3 DEF Rank, J

(* A position further on has a greater rank. *)
LEMMA RankGrows ==
    ASSUME NEW I, I \subseteq Nat, IsFiniteSet(I), NEW i \in I, NEW k \in I, i < k
    PROVE  Rank(I, i) < Rank(I, k)
<1> DEFINE J == {j \in I : j <= i}
           K == {j \in I : j <= k}
<1>0. i \in Nat /\ k \in Nat /\ \A j \in I : j \in Nat
  OBVIOUS
<1>1. J \in SUBSET K /\ K \in SUBSET I /\ k \in K /\ k \notin J
  <2>1. \A j \in I : j <= i => j <= k
    BY <1>0
  <2>2. k <= k /\ ~ (k <= i)
    BY <1>0
  <2> QED BY <2>1, <2>2
<1> HIDE DEF J, K
<1>2. IsFiniteSet(K)
  BY <1>1, FS_Subset
<1>3. Cardinality(J) <= Cardinality(K) /\ Cardinality(J) # Cardinality(K) /\ IsFiniteSet(J)
  BY <1>1, <1>2, FS_Subset
<1>4. Cardinality(J) \in Nat /\ Cardinality(K) \in Nat
  BY <1>2, <1>3, FS_CardinalityType
<1> QED BY <1>3, <1>4 DEF Rank, J, K

(* There is a position of every rank up to their number. *)
LEMMA RankExists ==
    ASSUME NEW n \in Nat, NEW I \in SUBSET (1..n), NEW k \in 1..Cardinality(I)
    PROVE  \E i \in I : Rank(I, i) = k
<1> DEFINE P(m) == \A J \in SUBSET (1..m) : \A l \in 1..Cardinality(J) :
                        \E i \in J : Rank(J, i) = l
           N == {m \in Nat : P(m)}
<1>1. 0 \in N
  <2> SUFFICES ASSUME NEW J \in SUBSET (1..0), NEW l \in 1..Cardinality(J) PROVE FALSE
    OBVIOUS
  <2>1. J = {}
    OBVIOUS
  <2>2. Cardinality(J) = 0
    BY <2>1, FS_EmptySet
  <2> QED BY <2>2
<1>2. ASSUME NEW m \in N PROVE m + 1 \in N
  <2> SUFFICES ASSUME NEW J \in SUBSET (1..m + 1), NEW l \in 1..Cardinality(J)
               PROVE  \E i \in J : Rank(J, i) = l
    OBVIOUS
  <2> DEFINE H == J \ {m + 1}
  <2>1. H \in SUBSET (1..m) /\ IsFiniteSet(1..m) /\ IsFiniteSet(1..m + 1)
    BY FS_Interval
  <2>2. IsFiniteSet(J) /\ IsFiniteSet(H)
    BY <2>1, FS_Subset
  <2>3. /\ Cardinality(J) \in Nat /\ Cardinality(H) \in Nat
        /\ Cardinality(H) = IF m + 1 \in J THEN Cardinality(J) - 1 ELSE Cardinality(J)
    BY <2>2, FS_CardinalityType, FS_RemoveElement
  <2>4. CASE l \in 1..Cardinality(H)
    <3>1. PICK i \in H : Rank(H, i) = l
      BY <2>1, <2>4
    <3>2. {j \in H : j <= i} = {j \in J : j <= i}
      BY <2>1
    <3> QED BY <3>1, <3>2 DEF Rank
  <2>5. CASE l \notin 1..Cardinality(H)
    <3>1. m + 1 \in J /\ l = Cardinality(J)
      BY <2>3, <2>5
    <3>2. {j \in J : j <= m + 1} = J
      <4>1. \A j \in J : j <= m + 1
        OBVIOUS
      <4> QED BY <4>1
    <3> QED BY <3>1, <3>2 DEF Rank
  <2> QED BY <2>4, <2>5
<1>3. N = Nat
  <2> HIDE DEF P
  <2>1. N \subseteq Nat OBVIOUS
  <2> HIDE DEF N
  <2> QED BY <1>1, <1>2, <2>1, NaturalsBySuccessor
<1> QED BY <1>3

(* The k-th position is the one of rank k. *)
LEMMA NthIsOfRank ==
    ASSUME NEW I, I \subseteq Nat, IsFiniteSet(I), NEW i \in I
    PROVE  Nth(I, Rank(I, i)) = i
<1>1. ASSUME NEW j \in I, Rank(I, j) = Rank(I, i) PROVE j = i
  <2>1. ~ (j < i) /\ ~ (i < j)
    <3>1. Rank(I, j) \in Nat /\ ~ (Rank(I, j) < Rank(I, i)) /\ ~ (Rank(I, i) < Rank(I, j))
      <4>1. Rank(I, i) \in Nat
        BY RankType
      <4> QED BY <1>1, <4>1
    <3> QED BY <1>1, <3>1, RankGrows
  <2> QED BY <2>1
<1>2. Nth(I, Rank(I, i)) \in I /\ Rank(I, Nth(I, Rank(I, i))) = Rank(I, i)
  BY DEF Nth, Rank
<1> QED BY <1>1, <1>2

LEMMA NthExists ==
    ASSUME NEW n \in Nat, NEW I \in SUBSET (1..n), NEW k \in 1..Cardinality(I)
    PROVE  Nth(I, k) \in I /\ Rank(I, Nth(I, k)) = k
<1>1. \E i \in I : Rank(I, i) = k
  BY RankExists
<1> QED BY <1>1 DEF Nth, Rank

(* The positions filter keeps. *)
Kept(s, keep) == {i \in 1..Len(s) : s[i] \in keep}

LEMMA KeptType ==
    ASSUME NEW S, NEW s \in Seq(S), NEW keep
    PROVE  /\ Len(s) \in Nat
           /\ Kept(s, keep) \in SUBSET (1..Len(s))
           /\ IsFiniteSet(Kept(s, keep))
           /\ Cardinality(Kept(s, keep)) \in Nat
<1>1. Len(s) \in Nat /\ Kept(s, keep) \in SUBSET (1..Len(s))
  BY LenProperties DEF Kept
<1>2. IsFiniteSet(Kept(s, keep))
  <2>1. IsFiniteSet(1..Len(s))
    BY <1>1, FS_Interval
  <2> QED BY <1>1, <2>1, FS_Subset
<1> QED BY <1>1, <1>2, FS_CardinalityType

LEMMA FilterIs ==
    ASSUME NEW S, NEW s \in Seq(S), NEW keep
    PROVE  /\ Filter(s, keep) \in Seq(S)
           /\ Len(Filter(s, keep)) = Cardinality(Kept(s, keep))
           /\ \A k \in 1..Cardinality(Kept(s, keep)) :
                 /\ Nth(Kept(s, keep), k) \in Kept(s, keep)
                 /\ Rank(Kept(s, keep), Nth(Kept(s, keep), k)) = k
                 /\ Filter(s, keep)[k] = s[Nth(Kept(s, keep), k)]
<1> DEFINE I == Kept(s, keep)
<1>1. /\ Len(s) \in Nat /\ I \in SUBSET (1..Len(s))
      /\ IsFiniteSet(I) /\ Cardinality(I) \in Nat
  BY KeptType
<1>2. Filter(s, keep) = [k \in 1..Cardinality(I) |-> s[Nth(I, k)]]
  BY DEF Filter, Kept
<1> HIDE DEF I
<1>3. ASSUME NEW k \in 1..Cardinality(I)
      PROVE  Nth(I, k) \in I /\ Rank(I, Nth(I, k)) = k
  BY <1>1, NthExists
<1>4. ASSUME NEW k \in 1..Cardinality(I) PROVE s[Nth(I, k)] \in S
  BY <1>1, <1>3, ElementOfSeq
<1>5. Filter(s, keep) \in Seq(S) /\ Len(Filter(s, keep)) = Cardinality(I)
  BY <1>1, <1>2, <1>4, IsASeq
<1> QED BY <1>2, <1>3, <1>5 DEF I

LEMMA FilterEmpty ==
    ASSUME NEW keep
    PROVE  Filter(<< >>, keep) = << >>
<1>1. {i \in 1..Len(<< >>) : << >>[i] \in keep} = {}
  OBVIOUS
<1>2. Cardinality({}) = 0
  BY FS_EmptySet
<1> QED BY <1>1, <1>2 DEF Filter

LEMMA FilterAppend ==
    ASSUME NEW S, NEW s \in Seq(S), NEW e \in S, NEW keep
    PROVE  Filter(Append(s, e), keep) =
             IF e \in keep THEN Append(Filter(s, keep), e) ELSE Filter(s, keep)
<1> DEFINE a == Append(s, e)
           n == Len(s)
           I == Kept(s, keep)
           J == Kept(a, keep)
           f == Filter(s, keep)
           g == Filter(a, keep)
<1>1. n \in Nat /\ a \in Seq(S) /\ Len(a) = n + 1
  BY AppendProperties, LenProperties
<1>2. (\A i \in 1..n : a[i] = s[i]) /\ a[n + 1] = e
  BY AppendProperties
<1> HIDE DEF a
<1>3. J = IF e \in keep THEN I \cup {n + 1} ELSE I
  <2>1. \A i : i \in 1..n + 1 <=> i \in 1..n \/ i = n + 1
    BY <1>1
  <2> QED BY <1>1, <1>2, <2>1 DEF Kept
<1>4. I \in SUBSET (1..n) /\ IsFiniteSet(I) /\ Cardinality(I) \in Nat
  BY KeptType
<1>5. J \in SUBSET (1..n + 1) /\ IsFiniteSet(J) /\ Cardinality(J) \in Nat
  BY <1>1, KeptType
<1>6. f \in Seq(S) /\ Len(f) = Cardinality(I) /\ \A k \in 1..Cardinality(I) :
         Nth(I, k) \in I /\ Rank(I, Nth(I, k)) = k /\ f[k] = s[Nth(I, k)]
  BY FilterIs
<1>7. g \in Seq(S) /\ Len(g) = Cardinality(J) /\ \A k \in 1..Cardinality(J) :
         Nth(J, k) \in J /\ Rank(J, Nth(J, k)) = k /\ g[k] = a[Nth(J, k)]
  BY <1>1, FilterIs
<1> HIDE DEF f, g, I, J
<1>8. ASSUME NEW k \in 1..Cardinality(I), k \in 1..Cardinality(J) PROVE g[k] = f[k]
  <2> DEFINE i == Nth(I, k)
  <2>1. i \in I /\ i \in 1..n /\ Rank(I, i) = k /\ f[k] = s[i]
    BY <1>4, <1>6
  <2> HIDE DEF i
  <2>2. i \in J
    BY <1>3, <2>1
  <2>3. {j \in J : j <= i} = {j \in I : j <= i}
    BY <1>1, <1>3, <1>4, <2>1
  <2>4. Rank(J, i) = k
    BY <2>1, <2>3 DEF Rank
  <2>5. Nth(J, k) = i
    <3>1. J \subseteq Nat
      BY <1>5
    <3> QED BY <1>5, <2>2, <2>4, <3>1, NthIsOfRank
  <2> QED BY <1>2, <1>7, <1>8, <2>1, <2>5
<1>9. CASE e \in keep
  <2>1. n + 1 \notin I
    BY <1>1, <1>4
  <2>2. Cardinality(J) = Cardinality(I) + 1
    BY <1>3, <1>4, <1>9, <2>1, FS_AddElement
  <2>3. g[Cardinality(J)] = e
    <3>1. n + 1 \in J /\ J \subseteq Nat
      BY <1>3, <1>5, <1>9
    <3>2. {j \in J : j <= n + 1} = J
      <4>1. \A j \in J : j <= n + 1
        BY <1>1, <1>5
      <4> QED BY <4>1
    <3>3. Nth(J, Cardinality(J)) = n + 1
      <4>1. Rank(J, n + 1) = Cardinality(J)
        BY <3>2 DEF Rank
      <4> QED BY <1>5, <3>1, <4>1, NthIsOfRank
    <3>4. Cardinality(J) \in 1..Cardinality(J)
      BY <1>4, <1>5, <2>2
    <3> QED BY <1>2, <1>7, <3>3, <3>4
  <2>4. Append(f, e) \in Seq(S) /\ Len(Append(f, e)) = Cardinality(J)
    BY <1>6, <2>2, AppendProperties
  <2>5. ASSUME NEW k \in 1..Cardinality(J) PROVE g[k] = Append(f, e)[k]
    <3>1. CASE k = Cardinality(J)
      BY <1>6, <2>2, <2>3, <3>1, AppendProperties
    <3>2. CASE k # Cardinality(J)
      <4>1. k \in 1..Cardinality(I)
        BY <1>4, <2>2, <3>2
      <4> QED BY <1>6, <1>8, <4>1, AppendProperties
    <3> QED BY <3>1, <3>2
  <2>6. g = Append(f, e)
    BY <1>7, <2>4, <2>5, SeqEqual
  <2> QED BY <1>9, <2>6 DEF a, f, g
<1>10. CASE e \notin keep
  <2>1. J = I
    BY <1>3, <1>10
  <2>2. g = f
    BY <1>6, <1>7, <1>8, <2>1, SeqEqual
  <2> QED BY <1>10, <2>2 DEF a, f, g
<1> QED BY <1>9, <1>10

(* Appending to the second of two arrays appends to the two together. *)
LEMMA AppendConcat ==
    ASSUME NEW S, NEW p \in Seq(S), NEW q \in Seq(S), NEW e \in S
    PROVE  p \o Append(q, e) = Append(p \o q, e)
<1> DEFINE last == << e >>
<1>1. last \in Seq(S) /\ p \o q \in Seq(S)
  <2>1. last = Append(<< >>, e)
    OBVIOUS
  <2>2. last \in Seq(S)
    BY <2>1, EmptySeq, AppendProperties
  <2> QED BY <2>2, ConcatProperties
<1>2. Append(q, e) = q \o last /\ Append(p \o q, e) = (p \o q) \o last
  BY <1>1, AppendIsConcat
<1>3. (p \o q) \o last = p \o (q \o last)
  BY <1>1, ConcatAssociative
<1> QED BY <1>2, <1>3, Zenon

LEMMA FilterConcat ==
    ASSUME NEW S, NEW s \in Seq(S), NEW t \in Seq(S), NEW keep
    PROVE  Filter(s \o t, keep) = Filter(s, keep) \o Filter(t, keep)
<1> DEFINE T == {r \in Seq(S) : Filter(s \o r, keep) = Filter(s, keep) \o Filter(r, keep)}
<1>a. \A p, q \in Seq(S) : \A x \in S : p \o Append(q, x) = Append(p \o q, x)
  BY AppendConcat
<1>1. << >> \in T
  <2>1. Filter(s, keep) \in Seq(S)
    BY FilterIs
  <2> QED BY <2>1, FilterEmpty, EmptySeq, ConcatEmptySeq
<1>2. ASSUME NEW r \in T, NEW e \in S PROVE Append(r, e) \in T
  <2> DEFINE u == s \o r
  <2>0. r \in Seq(S) /\ Filter(u, keep) = Filter(s, keep) \o Filter(r, keep)
    OBVIOUS
  <2>1. u \in Seq(S) /\ Append(r, e) \in Seq(S)
    BY <2>0, ConcatProperties, AppendProperties
  <2>2. s \o Append(r, e) = Append(u, e)
    BY <1>a, <2>0
  <2>3. Filter(s, keep) \in Seq(S) /\ Filter(r, keep) \in Seq(S)
    BY <2>0, FilterIs
  <2> SUFFICES Filter(Append(u, e), keep) = Filter(s, keep) \o Filter(Append(r, e), keep)
    BY <2>1, <2>2
  <2> HIDE DEF T, u
  <2>4. CASE e \in keep
    <3>1. Filter(Append(u, e), keep) = Append(Filter(u, keep), e)
      BY <2>1, <2>4, FilterAppend
    <3>2. Filter(Append(r, e), keep) = Append(Filter(r, keep), e)
      BY <2>0, <2>4, FilterAppend
    <3>3. Append(Filter(s, keep) \o Filter(r, keep), e)
            = Filter(s, keep) \o Append(Filter(r, keep), e)
      BY <1>a, <2>3
    <3> QED BY <2>0, <3>1, <3>2, <3>3
  <2>5. CASE e \notin keep
    <3>1. Filter(Append(u, e), keep) = Filter(u, keep)
      BY <2>1, <2>5, FilterAppend
    <3>2. Filter(Append(r, e), keep) = Filter(r, keep)
      BY <2>0, <2>5, FilterAppend
    <3> QED BY <2>0, <3>1, <3>2
  <2> QED BY <2>4, <2>5
<1>3. T = Seq(S)
  <2>1. T \subseteq Seq(S)
    OBVIOUS
  <2> HIDE DEF T
  <2> QED BY <1>1, <1>2, <2>1, SequencesByAppend
<1> QED BY <1>3

(* Nothing is left when nothing is kept. *)
LEMMA FilterNone ==
    ASSUME NEW S, NEW s \in Seq(S), NEW keep, \A i \in 1..Len(s) : s[i] \notin keep
    PROVE  Filter(s, keep) = << >>
<1>1. Kept(s, keep) = {}
  BY DEF Kept
<1> QED BY <1>1, FilterIs, FS_EmptySet, EmptySeq

LEMMA FilterTwice ==
    ASSUME NEW S, NEW s \in Seq(S), NEW first, NEW second
    PROVE  Filter(Filter(s, first), second) = Filter(s, first \cap second)
<1> DEFINE T == {r \in Seq(S) : Filter(Filter(r, first), second) = Filter(r, first \cap second)}
<1>1. << >> \in T
  BY FilterEmpty, EmptySeq
<1>2. ASSUME NEW r \in T, NEW e \in S PROVE Append(r, e) \in T
  <2>0. r \in Seq(S) /\ Filter(Filter(r, first), second) = Filter(r, first \cap second)
    OBVIOUS
  <2>1. Append(r, e) \in Seq(S) /\ Filter(r, first) \in Seq(S)
    BY <2>0, FilterIs, AppendProperties
  <2> SUFFICES Filter(Filter(Append(r, e), first), second) = Filter(Append(r, e), first \cap second)
    BY <2>1
  <2> HIDE DEF T
  <2>2. CASE e \in first
    <3>1. Filter(Append(r, e), first) = Append(Filter(r, first), e)
      BY <2>0, <2>2, FilterAppend
    <3>2. Filter(Filter(Append(r, e), first), second) =
            IF e \in second THEN Append(Filter(Filter(r, first), second), e)
                            ELSE Filter(Filter(r, first), second)
      BY <2>1, <3>1, FilterAppend
    <3>3. Filter(Append(r, e), first \cap second) =
            IF e \in second THEN Append(Filter(r, first \cap second), e)
                            ELSE Filter(r, first \cap second)
      BY <2>0, <2>2, FilterAppend
    <3> QED BY <2>0, <3>2, <3>3
  <2>3. CASE e \notin first
    <3>1. Filter(Append(r, e), first) = Filter(r, first)
      BY <2>0, <2>3, FilterAppend
    <3>2. Filter(Append(r, e), first \cap second) = Filter(r, first \cap second)
      BY <2>0, <2>3, FilterAppend
    <3> QED BY <2>0, <3>1, <3>2
  <2> QED BY <2>2, <2>3
<1>3. T = Seq(S)
  <2>1. T \subseteq Seq(S)
    OBVIOUS
  <2> HIDE DEF T
  <2> QED BY <1>1, <1>2, <2>1, SequencesByAppend
<1> QED BY <1>3

(* What splice(i, 1) leaves is the sequence before i and that after it. *)
LEMMA RemoveAtSplits ==
    ASSUME NEW S, NEW s \in Seq(S), NEW i \in 1..Len(s)
    PROVE  /\ s[i] \in S
           /\ SubSeq(s, 1, i - 1) \in Seq(S)
           /\ SubSeq(s, i + 1, Len(s)) \in Seq(S)
           /\ s = Append(SubSeq(s, 1, i - 1), s[i]) \o SubSeq(s, i + 1, Len(s))
           /\ RemoveAt(s, i) \in Seq(S)
           /\ Len(RemoveAt(s, i)) = Len(s) - 1
           /\ \A k \in 1..Len(s) - 1 : RemoveAt(s, i)[k] = IF k < i THEN s[k] ELSE s[k + 1]
<1> DEFINE p == SubSeq(s, 1, i - 1)
           r == SubSeq(s, i + 1, Len(s))
<1>1. p \in Seq(S) /\ Len(p) = i - 1 /\ \A k \in 1..i - 1 : p[k] = s[k]
  OBVIOUS
<1>2. /\ r \in Seq(S) /\ Len(r) = Len(s) - i
      /\ \A k \in 1..Len(s) - i : r[k] = s[i + k]
  OBVIOUS
<1>3. Len(s) \in Nat /\ s[i] \in S
  OBVIOUS
<1> HIDE DEF p, r
<1>4. /\ p \o r \in Seq(S) /\ Len(p \o r) = Len(s) - 1
      /\ \A k \in 1..Len(s) - 1 : (p \o r)[k] = IF k < i THEN s[k] ELSE s[k + 1]
  <2>1. p \o r \in Seq(S) /\ Len(p \o r) = Len(p) + Len(r)
    BY <1>1, <1>2, ConcatProperties
  <2>2. ASSUME NEW k \in 1..Len(s) - 1
        PROVE  (p \o r)[k] = IF k < i THEN s[k] ELSE s[k + 1]
    <3>1. (p \o r)[k] = IF k <= Len(p) THEN p[k] ELSE r[k - Len(p)]
      <4>1. k \in 1..Len(p) + Len(r)
        BY <1>1, <1>2, <1>3
      <4> QED BY <1>1, <1>2, <4>1, ConcatProperties
    <3>2. CASE k < i
      BY <1>1, <1>3, <3>1, <3>2
    <3>3. CASE ~ (k < i)
      BY <1>1, <1>2, <1>3, <3>1, <3>3
    <3> QED BY <3>2, <3>3
  <2>3. Len(p \o r) = Len(s) - 1
    BY <1>1, <1>2, <1>3, <2>1
  <2> QED BY <2>1, <2>2, <2>3
<1>5. s = Append(p, s[i]) \o r
  <2> DEFINE t == Append(p, s[i]) \o r
  <2>1. Append(p, s[i]) \in Seq(S) /\ Len(Append(p, s[i])) = i
    BY <1>1, <1>3
  <2>2. t \in Seq(S) /\ Len(t) = Len(s)
    <3>1. t \in Seq(S) /\ Len(t) = Len(Append(p, s[i])) + Len(r)
      BY <1>2, <2>1, ConcatProperties
    <3> QED BY <1>2, <1>3, <2>1, <3>1
  <2>3. ASSUME NEW k \in 1..Len(s) PROVE t[k] = s[k]
    <3>1. t[k] = IF k <= i THEN Append(p, s[i])[k] ELSE r[k - i]
      BY <1>2, <1>3, <2>1, ConcatProperties
    <3>2. \A j \in 1..i : Append(p, s[i])[j] = s[j]
      BY <1>1, <1>3, AppendProperties
    <3> HIDE DEF t
    <3>3. CASE k <= i
      <4>1. k \in 1..i
        BY <3>3
      <4> QED BY <3>1, <3>2, <3>3, <4>1
    <3>4. CASE ~ (k <= i)
      <4>1. k - i \in 1..Len(s) - i /\ i + (k - i) = k
        BY <1>3, <3>4
      <4> QED BY <1>2, <3>1, <3>4, <4>1
    <3> QED BY <3>3, <3>4
  <2> HIDE DEF t
  <2>4. t = s
    BY <2>2, <2>3, SeqEqual
  <2> QED BY <2>4 DEF t
<1> QED BY <1>1, <1>2, <1>3, <1>4, <1>5 DEF RemoveAt, p, r

(* Removing an element that is not kept does not show. *)
LEMMA FilterRemoveOther ==
    ASSUME NEW S, NEW s \in Seq(S), NEW i \in 1..Len(s), NEW keep, s[i] \notin keep
    PROVE  Filter(RemoveAt(s, i), keep) = Filter(s, keep)
<1> DEFINE p == SubSeq(s, 1, i - 1)
           r == SubSeq(s, i + 1, Len(s))
           e == s[i]
<1>1. p \in Seq(S) /\ r \in Seq(S) /\ e \in S
  BY RemoveAtSplits
<1>s. s = Append(p, e) \o r
  BY RemoveAtSplits
<1>2. RemoveAt(s, i) = p \o r
  BY DEF RemoveAt
<1> HIDE DEF p, r
<1>e. e \notin keep
  OBVIOUS
<1> HIDE DEF e
<1>3. Append(p, e) \in Seq(S) /\ Filter(Append(p, e), keep) = Filter(p, keep)
  BY <1>1, <1>e, FilterAppend, AppendProperties
<1>4. Filter(s, keep) = Filter(p, keep) \o Filter(r, keep)
  <2> DEFINE a == Append(p, e)
  <2>1. a \in Seq(S) /\ Filter(a, keep) = Filter(p, keep)
    BY <1>3
  <2>2. s = a \o r
    BY <1>s
  <2> HIDE DEF a
  <2>3. Filter(a \o r, keep) = Filter(a, keep) \o Filter(r, keep)
    BY <1>1, <2>1, FilterConcat
  <2> QED BY <2>1, <2>2, <2>3
<1> QED BY <1>1, <1>2, <1>4, FilterConcat

(* Removing the first that is kept takes the head off what is kept. *)
LEMMA FilterRemoveFirst ==
    ASSUME NEW S, NEW s \in Seq(S), NEW i \in 1..Len(s), NEW keep, s[i] \in keep,
           \A j \in 1..i - 1 : s[j] \notin keep
    PROVE  /\ Filter(s, keep) # << >>
           /\ Head(Filter(s, keep)) = s[i]
           /\ Tail(Filter(s, keep)) = Filter(RemoveAt(s, i), keep)
<1> DEFINE p == SubSeq(s, 1, i - 1)
           r == SubSeq(s, i + 1, Len(s))
           e == s[i]
<1>c. \A a, b \in Seq(S) : Filter(a \o b, keep) = Filter(a, keep) \o Filter(b, keep)
  BY FilterConcat
<1>1. p \in Seq(S) /\ r \in Seq(S) /\ e \in S
  BY RemoveAtSplits
<1>s. s = Append(p, e) \o r
  BY RemoveAtSplits
<1>2. RemoveAt(s, i) = p \o r
  BY DEF RemoveAt
<1>3. Filter(p, keep) = << >>
  <2>1. \A j \in 1..Len(p) : p[j] \notin keep
    OBVIOUS
  <2> HIDE DEF p
  <2> QED BY <1>1, <2>1, FilterNone
<1>e. e \in keep
  OBVIOUS
<1> HIDE DEF p, r, e
<1>4. Append(p, e) \in Seq(S) /\ Filter(Append(p, e), keep) = << e >>
  <2>1. Filter(Append(p, e), keep) = Append(<< >>, e)
    BY <1>1, <1>3, <1>e, FilterAppend
  <2> QED BY <1>1, <2>1, AppendProperties
<1>5. Filter(s, keep) = << e >> \o Filter(r, keep)
  <2> DEFINE a == Append(p, e)
  <2>1. a \in Seq(S)
    BY <1>4
  <2>2. s = a \o r /\ Filter(a, keep) = << e >>
    BY <1>s, <1>4
  <2> HIDE DEF a
  <2>3. Filter(a \o r, keep) = Filter(a, keep) \o Filter(r, keep)
    BY <1>1, <1>c, <2>1
  <2> QED BY <2>1, <2>2, <2>3
<1>6. Filter(r, keep) \in Seq(S)
  BY <1>1, FilterIs
<1>7. Filter(RemoveAt(s, i), keep) = Filter(r, keep)
  <2>1. Filter(p \o r, keep) = Filter(p, keep) \o Filter(r, keep)
    BY <1>1, <1>c
  <2> QED BY <1>2, <1>3, <1>6, <2>1, ConcatEmptySeq
<1>8. /\ << e >> \o Filter(r, keep) # << >>
      /\ Head(<< e >> \o Filter(r, keep)) = e
      /\ Tail(<< e >> \o Filter(r, keep)) = Filter(r, keep)
  BY <1>1, <1>6
<1> QED BY <1>5, <1>7, <1>8 DEF e

(* What filter leaves: a thinned array, from which nothing kept is missing. *)
LEMMA FilterThins ==
    ASSUME NEW S, NEW s \in Seq(S), NEW keep
    PROVE  \E h \in [1..Len(Filter(s, keep)) -> 1..Len(s)] :
             /\ \A k, l \in 1..Len(Filter(s, keep)) : k < l => h[k] < h[l]
             /\ \A k \in 1..Len(Filter(s, keep)) :
                  Filter(s, keep)[k] = s[h[k]] /\ s[h[k]] \in keep
             /\ \A i \in 1..Len(s) : s[i] \in keep =>
                  \E k \in 1..Len(Filter(s, keep)) : h[k] = i
<1> DEFINE I == Kept(s, keep)
           f == Filter(s, keep)
           h == [k \in 1..Cardinality(I) |-> Nth(I, k)]
<1>1. /\ Len(s) \in Nat /\ I \in SUBSET (1..Len(s)) /\ I \subseteq Nat
      /\ IsFiniteSet(I) /\ Cardinality(I) \in Nat
  BY KeptType
<1>2. Len(f) = Cardinality(I) /\ \A k \in 1..Cardinality(I) :
         Nth(I, k) \in I /\ Rank(I, Nth(I, k)) = k /\ f[k] = s[Nth(I, k)]
  BY FilterIs
<1>3. \A i \in 1..Len(s) : i \in I <=> s[i] \in keep
  BY DEF Kept
<1> HIDE DEF I, f
<1>4. h \in [1..Cardinality(I) -> 1..Len(s)]
  BY <1>1, <1>2
<1>5. ASSUME NEW k \in 1..Cardinality(I), NEW l \in 1..Cardinality(I), k < l
      PROVE  h[k] < h[l]
  <2>1. h[k] \in I /\ h[l] \in I /\ Rank(I, h[k]) = k /\ Rank(I, h[l]) = l
    BY <1>2
  <2>2. h[k] \in Nat /\ h[l] \in Nat
    BY <1>1, <2>1
  <2> HIDE DEF h
  <2>3. ~ (h[l] < h[k])
    <3> SUFFICES ASSUME h[l] < h[k] PROVE FALSE
      OBVIOUS
    <3>1. Rank(I, h[l]) < Rank(I, h[k])
      BY <1>1, <2>1, RankGrows
    <3> QED BY <1>5, <2>1, <3>1
  <2>4. h[l] # h[k]
    BY <1>5, <2>1
  <2> QED BY <2>2, <2>3, <2>4
<1>6. ASSUME NEW i \in 1..Len(s), s[i] \in keep
      PROVE  \E k \in 1..Cardinality(I) : h[k] = i
  <2>1. i \in I
    BY <1>3, <1>6
  <2>2. Rank(I, i) \in 1..Cardinality(I)
    <3>1. Rank(I, i) \in Nat /\ 1 <= Rank(I, i) /\ Rank(I, i) <= Cardinality(I)
      BY <1>1, <2>1, RankType
    <3> QED BY <1>1, <3>1
  <2>3. h[Rank(I, i)] = i
    BY <1>1, <2>1, <2>2, NthIsOfRank
  <2> QED BY <2>2, <2>3
<1>7. ASSUME NEW k \in 1..Cardinality(I) PROVE f[k] = s[h[k]] /\ s[h[k]] \in keep
  BY <1>1, <1>2, <1>3
<1> HIDE DEF h
<1>8. /\ h \in [1..Len(f) -> 1..Len(s)]
      /\ \A k, l \in 1..Len(f) : k < l => h[k] < h[l]
      /\ \A k \in 1..Len(f) : f[k] = s[h[k]] /\ s[h[k]] \in keep
      /\ \A i \in 1..Len(s) : s[i] \in keep => \E k \in 1..Len(f) : h[k] = i
  BY <1>2, <1>4, <1>5, <1>6, <1>7
<1> QED BY <1>8, Zenon DEF f

----------------------------------------------------------------------------
(* The invariant *)

WasSent(msg) == \E i \in 1..Len(sent) : sent[i] = msg

InArray(p) == \E i \in 1..Len(messages) : messages[i].payload = p

Serves(c, p) == ~Idle(c) /\ serving[c].payload = p

(* No payload is sent twice. *)
SentOnce ==
    \A i, j \in 1..Len(sent) : sent[i].payload = sent[j].payload => i = j

(* Everything anywhere was sent. *)
AllWereSent ==
    /\ \A i \in 1..Len(messages) : WasSent(messages[i])
    /\ \A c \in Consumers : ~Idle(c) => WasSent(serving[c])
    /\ \A p \in started \cup handled \cup cleared : IsSent(p)

(* No payload is in two places, *)
OnePlace ==
    /\ \A i, j \in 1..Len(messages) : messages[i].payload = messages[j].payload => i = j
    /\ \A c, d \in Consumers : \A p \in Payloads : Serves(c, p) /\ Serves(d, p) => c = d
    /\ \A c \in Consumers : \A p \in Payloads : Serves(c, p) => ~InArray(p)

(* one that is done with is in none, and any other that was sent is in one. *)
PlaceUnlessSettled ==
    /\ \A p \in handled \cup cleared : ~InArray(p) /\ \A c \in Consumers : ~Serves(c, p)
    /\ \A p \in Payloads : IsSent(p) =>
         p \in handled \cup cleared \/ InArray(p) \/ \E c \in Consumers : Serves(c, p)

(* What is in a handler or came out of one has been in one. *)
StartedFirst ==
    /\ handled \subseteq started
    /\ \A c \in Consumers : ~Idle(c) => serving[c].payload \in started

SentBefore(m, n) ==
    \E j \in 1..Len(sent) : \E i \in 1..j - 1 : sent[i] = m /\ sent[j] = n

(* A message that was never tried is younger than all before it in the array,
   whatever was put back there: only tried ones are, and at its end. *)
UntriedAreYounger ==
    \A l \in 1..Len(messages) : \A k \in 1..l - 1 :
        messages[l].payload \notin started => SentBefore(messages[k], messages[l])

IInv ==
    /\ TypeOK
    /\ SentOnce
    /\ AllWereSent
    /\ OnePlace
    /\ PlaceUnlessSettled
    /\ StartedFirst
    /\ UntriedAreYounger
    /\ TriedInOrder

LEMMA InitEstablishesIInv == Init => IInv
<1> SUFFICES ASSUME Init PROVE IInv
  OBVIOUS
<1>1. TypeOK
  BY EmptySeq, MaxFailuresAssumption DEF Init, TypeOK, Idle
<1>2. Len(messages) = 0 /\ Len(sent) = 0
  BY DEF Init
<1>3. \A c \in Consumers : Idle(c)
  BY DEF Init, Idle
<1> QED BY <1>1, <1>2, <1>3 DEF Init, IInv, SentOnce, AllWereSent, OnePlace, PlaceUnlessSettled,
           StartedFirst, UntriedAreYounger, TriedInOrder, Serves, InArray, IsSent

----------------------------------------------------------------------------
(* What the steps do to the array *)

LEMMA SendMessageStep ==
    ASSUME TypeOK, NEW q \in Queues, NEW p \in Payloads, SendMessage(q, p)
    PROVE  LET msg == [queueName |-> q, payload |-> p]
           IN  /\ msg \in QueueMessage
               /\ ~IsSent(p)
               /\ Len(messages) \in Nat /\ Len(sent) \in Nat
               /\ messages' \in Seq(QueueMessage) /\ Len(messages') = Len(messages) + 1
               /\ \A i \in 1..Len(messages) : messages'[i] = messages[i]
               /\ messages'[Len(messages) + 1] = msg
               /\ sent' \in Seq(QueueMessage) /\ Len(sent') = Len(sent) + 1
               /\ \A i \in 1..Len(sent) : sent'[i] = sent[i]
               /\ sent'[Len(sent) + 1] = msg
BY AppendProperties, LenProperties DEF SendMessage, Enqueue, TypeOK, QueueMessage

LEMMA ConsumeOneStep ==
    ASSUME TypeOK, NEW c \in Consumers, ConsumeOne(c)
    PROVE  \E i \in 1..Len(messages) :
             /\ i = FirstIndex(QueueOf[c])
             /\ messages[i] \in QueueMessage
             /\ messages[i].queueName = QueueOf[c]
             /\ \A j \in 1..i - 1 : messages[j].queueName # QueueOf[c]
             /\ messages' = RemoveAt(messages, i)
             /\ messages' \in Seq(QueueMessage)
             /\ Len(messages') = Len(messages) - 1
             /\ \A k \in 1..Len(messages) - 1 :
                  messages'[k] = IF k < i THEN messages[k] ELSE messages[k + 1]
             /\ serving' = [serving EXCEPT ![c] = messages[i]]
             /\ started' = started \cup {messages[i].payload}
<1> DEFINE i == FirstIndex(QueueOf[c])
<1>1. messages \in Seq(QueueMessage)
  BY DEF TypeOK
<1>2. /\ i \in 1..Len(messages)
      /\ messages[i].queueName = QueueOf[c]
      /\ \A j \in 1..i - 1 : messages[j].queueName # QueueOf[c]
  BY <1>1, FirstIndexFinds DEF ConsumeOne
<1>3. /\ messages' = RemoveAt(messages, i)
      /\ serving' = [serving EXCEPT ![c] = messages[i]]
      /\ started' = started \cup {messages[i].payload}
  BY DEF ConsumeOne, TakeOut
<1> HIDE DEF i
<1>4. /\ messages[i] \in QueueMessage
      /\ RemoveAt(messages, i) \in Seq(QueueMessage)
      /\ Len(RemoveAt(messages, i)) = Len(messages) - 1
      /\ \A k \in 1..Len(messages) - 1 :
           RemoveAt(messages, i)[k] = IF k < i THEN messages[k] ELSE messages[k + 1]
  BY <1>1, <1>2, RemoveAtSplits
<1> QED BY <1>2, <1>3, <1>4 DEF i

LEMMA HandlerThrowsStep ==
    ASSUME TypeOK, NEW c \in Consumers, HandlerThrows(c)
    PROVE  /\ ~Idle(c) /\ serving[c] \in QueueMessage
           /\ Len(messages) \in Nat
           /\ messages' = Append(messages, serving[c])
           /\ messages' \in Seq(QueueMessage) /\ Len(messages') = Len(messages) + 1
           /\ \A i \in 1..Len(messages) : messages'[i] = messages[i]
           /\ messages'[Len(messages) + 1] = serving[c]
<1>1. ~Idle(c) /\ messages' = Append(messages, serving[c]) /\ messages \in Seq(QueueMessage)
  BY DEF HandlerThrows, PutBack, Enqueue, TypeOK
<1>2. serving[c] \in QueueMessage
  BY <1>1 DEF TypeOK, Idle
<1> QED BY <1>1, <1>2, AppendProperties, LenProperties

LEMMA ClearQueueStep ==
    ASSUME TypeOK, NEW q \in Queues, ClearQueue(q)
    PROVE  /\ messages' = Filter(messages, QueueMessage \ OfQueue(q))
           /\ messages' \in Seq(QueueMessage)
           /\ \E h \in [1..Len(messages') -> 1..Len(messages)] :
                /\ \A k, l \in 1..Len(messages') : k < l => h[k] < h[l]
                /\ \A k \in 1..Len(messages') :
                     messages'[k] = messages[h[k]] /\ messages[h[k]].queueName # q
                /\ \A i \in 1..Len(messages) : messages[i].queueName # q =>
                     \E k \in 1..Len(messages') : h[k] = i
<1> DEFINE keep == QueueMessage \ OfQueue(q)
<1>1. messages \in Seq(QueueMessage) /\ messages' = Filter(messages, keep)
  BY DEF TypeOK, ClearQueue, Without
<1>2. \A i \in 1..Len(messages) : messages[i] \in keep <=> messages[i].queueName # q
  BY <1>1 DEF OfQueue
<1> HIDE DEF keep
<1>3. messages' \in Seq(QueueMessage)
  BY <1>1, FilterIs
<1>4. \E h \in [1..Len(messages') -> 1..Len(messages)] :
        /\ \A k, l \in 1..Len(messages') : k < l => h[k] < h[l]
        /\ \A k \in 1..Len(messages') :
             messages'[k] = messages[h[k]] /\ messages[h[k]] \in keep
        /\ \A i \in 1..Len(messages) : messages[i] \in keep =>
             \E k \in 1..Len(messages') : h[k] = i
  BY <1>1, FilterThins
<1>5. PICK h \in [1..Len(messages') -> 1..Len(messages)] :
        /\ \A k, l \in 1..Len(messages') : k < l => h[k] < h[l]
        /\ \A k \in 1..Len(messages') :
             messages'[k] = messages[h[k]] /\ messages[h[k]] \in keep
        /\ \A i \in 1..Len(messages) : messages[i] \in keep =>
             \E k \in 1..Len(messages') : h[k] = i
  BY <1>4, Zenon
<1>6. \A k \in 1..Len(messages') : h[k] \in 1..Len(messages)
  BY <1>5, Zenon
<1>7. /\ \A k \in 1..Len(messages') :
            messages'[k] = messages[h[k]] /\ messages[h[k]].queueName # q
      /\ \A i \in 1..Len(messages) : messages[i].queueName # q =>
            \E k \in 1..Len(messages') : h[k] = i
  BY <1>2, <1>5, <1>6
<1> SUFFICES \E g \in [1..Len(messages') -> 1..Len(messages)] :
        /\ \A k, l \in 1..Len(messages') : k < l => g[k] < g[l]
        /\ \A k \in 1..Len(messages') :
             messages'[k] = messages[g[k]] /\ messages[g[k]].queueName # q
        /\ \A i \in 1..Len(messages) : messages[i].queueName # q =>
             \E k \in 1..Len(messages') : g[k] = i
  BY <1>1, <1>3 DEF keep
<1> WITNESS h \in [1..Len(messages') -> 1..Len(messages)]
<1> QED BY <1>5, <1>7

----------------------------------------------------------------------------
(* The steps preserve the invariant. *)

(* An array some messages were taken from is as tidy as before. *)
LEMMA ThinnedArray ==
    ASSUME IInv, sent' = sent, started \subseteq started',
           NEW h \in [1..Len(messages') -> 1..Len(messages)],
           messages' \in Seq(QueueMessage),
           \A k, l \in 1..Len(messages') : k < l => h[k] < h[l],
           \A k \in 1..Len(messages') : messages'[k] = messages[h[k]]
    PROVE  /\ \A k \in 1..Len(messages') : WasSent(messages'[k])
           /\ \A k, l \in 1..Len(messages') :
                messages'[k].payload = messages'[l].payload => k = l
           /\ \A p : InArray(p)' => InArray(p)
           /\ UntriedAreYounger'
<1>1. Len(messages') \in Nat /\ Len(messages) \in Nat
  BY LenProperties DEF IInv, TypeOK
<1>2. \A k \in 1..Len(messages') : h[k] \in 1..Len(messages)
  OBVIOUS
<1>3. \A k, l \in 1..Len(messages') : h[k] = h[l] => k = l
  <2> SUFFICES ASSUME NEW k \in 1..Len(messages'), NEW l \in 1..Len(messages'), k # l
               PROVE  h[k] # h[l]
    OBVIOUS
  <2>1. CASE k < l
    BY <1>2, <2>1
  <2>2. CASE l < k
    BY <1>2, <2>2
  <2> QED BY <1>1, <2>1, <2>2
<1>4. \A k \in 1..Len(messages') : WasSent(messages'[k])
  BY <1>2 DEF IInv, AllWereSent
<1>5. \A k, l \in 1..Len(messages') : messages'[k].payload = messages'[l].payload => k = l
  <2> SUFFICES ASSUME NEW k \in 1..Len(messages'), NEW l \in 1..Len(messages'),
                      messages'[k].payload = messages'[l].payload
               PROVE  k = l
    OBVIOUS
  <2>1. h[k] \in 1..Len(messages) /\ h[l] \in 1..Len(messages)
    BY <1>2
  <2>2. messages[h[k]].payload = messages[h[l]].payload
    OBVIOUS
  <2>3. h[k] = h[l]
    BY <2>1, <2>2 DEF IInv, OnePlace
  <2> QED BY <1>3, <2>3
<1>6. \A p : InArray(p)' => InArray(p)
  BY <1>2 DEF InArray
<1>7. UntriedAreYounger'
  <2> SUFFICES ASSUME NEW l \in 1..Len(messages'), NEW k \in 1..l - 1,
                      messages'[l].payload \notin started'
               PROVE  SentBefore(messages[k], messages[l])'
    BY DEF UntriedAreYounger
  <2>1. k \in 1..Len(messages') /\ k < l
    BY <1>1
  <2>2. h[l] \in 1..Len(messages) /\ h[k] \in 1..h[l] - 1
    BY <1>2, <2>1
  <2>3. SentBefore(messages[h[k]], messages[h[l]])
    BY <2>2 DEF IInv, UntriedAreYounger
  <2> QED BY <2>1, <2>3 DEF SentBefore
<1> QED BY <1>4, <1>5, <1>6, <1>7

LEMMA SendMessagePreserves ==
    ASSUME IInv, NEW q \in Queues, NEW p \in Payloads, SendMessage(q, p)
    PROVE  IInv'
<1> DEFINE msg == [queueName |-> q, payload |-> p]
           n == Len(messages)
           m == Len(sent)
<1>1. /\ msg \in QueueMessage
      /\ ~IsSent(p)
      /\ n \in Nat /\ m \in Nat
      /\ messages' \in Seq(QueueMessage) /\ Len(messages') = n + 1
      /\ \A i \in 1..n : messages'[i] = messages[i]
      /\ messages'[n + 1] = msg
      /\ sent' \in Seq(QueueMessage) /\ Len(sent') = m + 1
      /\ \A i \in 1..m : sent'[i] = sent[i]
      /\ sent'[m + 1] = msg
  BY SendMessageStep DEF IInv
<1>2. UNCHANGED <<serving, started, handled, cleared, failures>>
  BY DEF SendMessage
<1>p. msg.payload = p
  OBVIOUS
<1> HIDE DEF msg, n, m
<1>3. TypeOK'
  BY <1>1, <1>2 DEF IInv, TypeOK, Idle
<1>4. /\ \A i \in 1..Len(messages') : i \in 1..n \/ i = n + 1
      /\ \A i \in 1..Len(sent') : i \in 1..m \/ i = m + 1
      /\ n + 1 \in 1..Len(messages') /\ m + 1 \in 1..Len(sent')
      /\ 1..n \subseteq 1..Len(messages') /\ 1..m \subseteq 1..Len(sent')
  BY <1>1
<1>5. /\ \A r : WasSent(r)' <=> WasSent(r) \/ r = msg
      /\ \A x : IsSent(x)' <=> IsSent(x) \/ x = p
      /\ \A x : InArray(x)' <=> InArray(x) \/ x = p
  BY <1>1, <1>4, <1>p DEF WasSent, IsSent, InArray, m, n
<1>6. \A c \in Consumers : \A x : Serves(c, x)' <=> Serves(c, x)
  BY <1>2 DEF Serves, Idle
<1>7. /\ \A r : WasSent(r) => IsSent(r.payload)
      /\ \A x : InArray(x) => IsSent(x)
      /\ \A c \in Consumers : \A x : Serves(c, x) => IsSent(x)
  <2>1. \A r : WasSent(r) => IsSent(r.payload)
    BY DEF WasSent, IsSent
  <2> QED BY <2>1 DEF IInv, AllWereSent, InArray, Serves
<1>8. SentOnce'
  BY <1>1, <1>4, <1>p DEF IInv, SentOnce, IsSent, m
<1>9. AllWereSent'
  <2>1. \A i \in 1..Len(messages') : WasSent(messages[i])'
    <3> SUFFICES ASSUME NEW i \in 1..Len(messages') PROVE WasSent(messages[i])'
      OBVIOUS
    <3>1. CASE i = n + 1
      BY <1>1, <1>4, <3>1 DEF WasSent
    <3>2. CASE i \in 1..n
      <4>1. PICK j \in 1..m : sent[j] = messages[i]
        BY <3>2 DEF IInv, AllWereSent, WasSent, n, m
      <4> QED BY <1>1, <1>4, <3>2, <4>1 DEF WasSent
    <3> QED BY <1>4, <3>1, <3>2
  <2>2. \A c \in Consumers : ~Idle(c)' => WasSent(serving[c])'
    <3> SUFFICES ASSUME NEW c \in Consumers, ~Idle(c) PROVE WasSent(serving[c])'
      BY <1>2 DEF Idle
    <3>1. PICK j \in 1..m : sent[j] = serving[c]
      BY DEF IInv, AllWereSent, WasSent, m
    <3> QED BY <1>1, <1>2, <1>4, <3>1 DEF WasSent
  <2>3. \A x \in started' \cup handled' \cup cleared' : IsSent(x)'
    BY <1>2, <1>5 DEF IInv, AllWereSent
  <2> QED BY <2>1, <2>2, <2>3 DEF AllWereSent
<1>10. OnePlace'
  <2>1. \A i, j \in 1..Len(messages') : messages'[i].payload = messages'[j].payload => i = j
    BY <1>1, <1>4, <1>7, <1>p DEF IInv, OnePlace, InArray, n
  <2> QED BY <1>1, <1>5, <1>6, <1>7, <2>1 DEF IInv, OnePlace
<1>11. PlaceUnlessSettled'
  <2>1. \A x \in handled \cup cleared : x # p
    BY <1>1 DEF IInv, AllWereSent
  <2>2. \A x \in handled' \cup cleared' : ~InArray(x)' /\ \A c \in Consumers : ~Serves(c, x)'
    BY <1>2, <1>5, <1>6, <2>1 DEF IInv, PlaceUnlessSettled
  <2>3. \A x \in Payloads : IsSent(x)' =>
          x \in handled' \cup cleared' \/ InArray(x)' \/ \E c \in Consumers : Serves(c, x)'
    BY <1>2, <1>5, <1>6 DEF IInv, PlaceUnlessSettled
  <2> QED BY <2>2, <2>3 DEF PlaceUnlessSettled
<1>12. StartedFirst'
  BY <1>2 DEF IInv, StartedFirst, Idle
<1>13. UntriedAreYounger'
  <2> SUFFICES ASSUME NEW l \in 1..Len(messages'), NEW k \in 1..l - 1,
                      messages'[l].payload \notin started'
               PROVE  SentBefore(messages[k], messages[l])'
    BY DEF UntriedAreYounger
  <2>1. k \in 1..n /\ messages'[k] = messages[k]
    BY <1>1
  <2>2. CASE l = n + 1
    <3>1. PICK i \in 1..m : sent[i] = messages[k]
      BY <2>1 DEF IInv, AllWereSent, WasSent, n, m
    <3>2. i \in 1..(m + 1) - 1 /\ sent'[i] = messages'[k]
      BY <1>1, <2>1, <3>1
    <3> QED BY <1>1, <1>4, <2>2, <3>2 DEF SentBefore
  <2>3. CASE l \in 1..n
    <3>1. SentBefore(messages[k], messages[l])
      BY <1>1, <1>2, <2>3 DEF IInv, UntriedAreYounger, n
    <3>2. PICK j \in 1..m : \E i \in 1..j - 1 : sent[i] = messages[k] /\ sent[j] = messages[l]
      BY <3>1 DEF SentBefore, m
    <3>3. PICK i \in 1..j - 1 : sent[i] = messages[k] /\ sent[j] = messages[l]
      BY <3>2
    <3>4. j \in 1..Len(sent') /\ sent'[j] = messages'[l] /\ sent'[i] = messages'[k]
      BY <1>1, <2>1, <2>3, <3>3
    <3> QED BY <3>4 DEF SentBefore
  <2> QED BY <1>4, <2>2, <2>3
<1>14. TriedInOrder'
  <2> SUFFICES ASSUME NEW j \in 1..Len(sent'), NEW i \in 1..j - 1,
                      sent'[i].queueName = sent'[j].queueName, sent'[j].payload \in started'
               PROVE  sent'[i].payload \in started' \cup cleared'
    BY DEF TriedInOrder
  <2>1. j # m + 1
    BY <1>1, <1>2, <1>p DEF IInv, AllWereSent
  <2>2. j \in 1..m /\ i \in 1..m
    BY <1>1, <2>1
  <2> QED BY <1>1, <1>2, <2>2 DEF IInv, TriedInOrder, m
<1> QED BY <1>3, <1>8, <1>9, <1>10, <1>11, <1>12, <1>13, <1>14 DEF IInv

LEMMA ConsumeOnePreserves ==
    ASSUME IInv, NEW c \in Consumers, ConsumeOne(c)
    PROVE  IInv'
<1>1. PICK i \in 1..Len(messages) :
        /\ messages[i] \in QueueMessage
        /\ messages[i].queueName = QueueOf[c]
        /\ \A j \in 1..i - 1 : messages[j].queueName # QueueOf[c]
        /\ messages' \in Seq(QueueMessage)
        /\ Len(messages') = Len(messages) - 1
        /\ \A k \in 1..Len(messages) - 1 :
             messages'[k] = IF k < i THEN messages[k] ELSE messages[k + 1]
        /\ serving' = [serving EXCEPT ![c] = messages[i]]
        /\ started' = started \cup {messages[i].payload}
  BY ConsumeOneStep DEF IInv
<1>2. Idle(c) /\ UNCHANGED <<sent, handled, cleared, failures>>
  BY DEF ConsumeOne
<1> DEFINE n == Len(messages)
           msg == messages[i]
           p == messages[i].payload
<1>3. n \in Nat /\ p \in Payloads /\ msg # Nothing
  BY <1>1, LenProperties, NothingAssumption DEF IInv, TypeOK, QueueMessage
<1>4. /\ \A d \in Consumers : d # c => (Idle(d)' <=> Idle(d)) /\ serving'[d] = serving[d]
      /\ ~Idle(c)' /\ serving'[c] = msg
  BY <1>1, <1>3 DEF IInv, TypeOK, Idle
<1>5. TypeOK'
  <2>1. \A d \in Consumers : ~Idle(d)' => serving'[d].queueName = QueueOf[d]
    BY <1>1, <1>2, <1>4 DEF IInv, TypeOK
  <2>2. serving' \in [Consumers -> QueueMessage \cup {Nothing}]
    BY <1>1 DEF IInv, TypeOK
  <2> QED BY <1>1, <1>2, <1>3, <2>1, <2>2 DEF IInv, TypeOK
<1> DEFINE h == [k \in 1..n - 1 |-> IF k < i THEN k ELSE k + 1]
<1>6. /\ h \in [1..Len(messages') -> 1..Len(messages)]
      /\ \A k, l \in 1..Len(messages') : k < l => h[k] < h[l]
      /\ \A k \in 1..Len(messages') : messages'[k] = messages[h[k]] /\ h[k] # i
      /\ \A k \in 1..n : k # i => \E l \in 1..Len(messages') : h[l] = k
  <2>1. \A k \in 1..n - 1 : h[k] \in 1..n /\ h[k] # i /\ messages'[k] = messages[h[k]]
    BY <1>1, <1>3
  <2>2. h \in [1..Len(messages') -> 1..Len(messages)]
    BY <1>1, <2>1
  <2>3. \A k, l \in 1..Len(messages') : k < l => h[k] < h[l]
    BY <1>1, <1>3
  <2>4. ASSUME NEW k \in 1..n, k # i PROVE \E l \in 1..Len(messages') : h[l] = k
    <3>1. CASE k < i
      <4>1. k \in 1..Len(messages') /\ h[k] = k
        BY <1>1, <1>3, <3>1
      <4> QED BY <4>1
    <3>2. CASE ~ (k < i)
      <4>1. k - 1 \in 1..Len(messages') /\ h[k - 1] = k
        BY <1>1, <1>3, <2>4, <3>2
      <4> QED BY <4>1
    <3> QED BY <3>1, <3>2
  <2> QED BY <1>1, <2>1, <2>2, <2>3, <2>4
<1> HIDE DEF h
<1>7. /\ \A k \in 1..Len(messages') : WasSent(messages'[k])
      /\ \A k, l \in 1..Len(messages') : messages'[k].payload = messages'[l].payload => k = l
      /\ \A x : InArray(x)' => InArray(x)
      /\ UntriedAreYounger'
  BY <1>1, <1>2, <1>6, ThinnedArray
<1>8. \A x : InArray(x)' <=> InArray(x) /\ x # p
  <2>1. ASSUME NEW x, InArray(x)', x = p PROVE FALSE
    <3>0. PICK k \in 1..Len(messages') : messages'[k].payload = p
      BY <2>1 DEF InArray
    <3>1. h[k] \in 1..n /\ h[k] # i /\ messages[h[k]].payload = p
      BY <1>6, <3>0
    <3> QED BY <3>1 DEF IInv, OnePlace
  <2>2. ASSUME NEW x, InArray(x), x # p PROVE InArray(x)'
    <3>1. PICK k \in 1..n : messages[k].payload = x
      BY <2>2 DEF InArray
    <3>2. PICK l \in 1..Len(messages') : h[l] = k
      BY <1>6, <2>2, <3>1
    <3> QED BY <1>6, <3>1, <3>2 DEF InArray
  <2> QED BY <1>7, <2>1, <2>2
<1>9. \A d \in Consumers : \A x : Serves(d, x)' <=> Serves(d, x) \/ (d = c /\ x = p)
  BY <1>2, <1>4 DEF Serves
<1>10. InArray(p) /\ WasSent(msg)
  BY <1>1 DEF InArray, IInv, AllWereSent
<1>11. IsSent(p)
  BY <1>10 DEF WasSent, IsSent
<1>12. \A x : IsSent(x)' <=> IsSent(x)
  BY <1>2 DEF IsSent
<1> HIDE DEF p, msg
<1>13. SentOnce'
  BY <1>2 DEF IInv, SentOnce
<1>14. AllWereSent'
  <2>1. \A k \in 1..Len(messages') : WasSent(messages[k])'
    BY <1>2, <1>7 DEF WasSent
  <2>2. ASSUME NEW d \in Consumers, ~Idle(d)' PROVE WasSent(serving[d])'
    <3>1. WasSent(serving'[d])
      BY <1>4, <1>10, <2>2 DEF IInv, AllWereSent
    <3> QED BY <1>2, <3>1 DEF WasSent
  <2>3. \A x \in started' \cup handled' \cup cleared' : IsSent(x)'
    BY <1>1, <1>2, <1>11, <1>12 DEF IInv, AllWereSent, p
  <2> QED BY <2>1, <2>2, <2>3 DEF AllWereSent
<1>15. OnePlace'
  <2>1. \A d \in Consumers : ~Serves(d, p)
    BY <1>3, <1>10 DEF IInv, OnePlace
  <2> QED BY <1>7, <1>8, <1>9, <2>1 DEF IInv, OnePlace
<1>16. PlaceUnlessSettled'
  <2>1. p \notin handled \cup cleared
    BY <1>10 DEF IInv, PlaceUnlessSettled
  <2>2. \A x \in handled' \cup cleared' : ~InArray(x)' /\ \A d \in Consumers : ~Serves(d, x)'
    BY <1>2, <1>8, <1>9, <2>1 DEF IInv, PlaceUnlessSettled
  <2>3. \A x \in Payloads : IsSent(x)' =>
          x \in handled' \cup cleared' \/ InArray(x)' \/ \E d \in Consumers : Serves(d, x)'
    BY <1>2, <1>8, <1>9, <1>12 DEF IInv, PlaceUnlessSettled
  <2> QED BY <2>2, <2>3 DEF PlaceUnlessSettled
<1>17. StartedFirst'
  BY <1>1, <1>2, <1>4 DEF IInv, StartedFirst, p, msg
<1>18. TriedInOrder'
  <2> SUFFICES ASSUME NEW j \in 1..Len(sent), NEW e \in 1..j - 1,
                      sent[e].queueName = sent[j].queueName, sent[j].payload \in started'
               PROVE  sent[e].payload \in started' \cup cleared'
    BY <1>2 DEF TriedInOrder
  <2>0. j \in Nat /\ e \in Nat /\ e < j /\ e \in 1..Len(sent)
    BY LenProperties DEF IInv, TypeOK
  <2>1. CASE sent[j].payload \in started
    BY <1>1, <1>2, <2>1 DEF IInv, TriedInOrder
  <2>2. CASE sent[j].payload = p
    <3> DEFINE x == sent[e].payload
    <3> SUFFICES ASSUME x \notin started \cup cleared PROVE FALSE
      BY <1>1, <1>2
    <3>1. sent[j] = msg
      <4>1. PICK b \in 1..Len(sent) : sent[b] = msg
        BY <1>10 DEF WasSent
      <4>2. b = j
        BY <2>2, <4>1 DEF IInv, SentOnce, p, msg
      <4> QED BY <4>1, <4>2
    <3>2. x \in Payloads /\ IsSent(x)
      <4>1. sent[e] \in QueueMessage
        BY <2>0, ElementOfSeq DEF IInv, TypeOK
      <4> QED BY <2>0, <4>1 DEF IsSent, QueueMessage
    <3>3. x \notin handled /\ \A d \in Consumers : ~Serves(d, x)
      BY DEF IInv, StartedFirst, Serves
    <3>4. PICK k \in 1..n : messages[k].payload = x
      BY <3>2, <3>3 DEF IInv, PlaceUnlessSettled, InArray
    <3>5. messages[k] = sent[e]
      <4>1. PICK b \in 1..Len(sent) : sent[b] = messages[k]
        BY <3>4 DEF IInv, AllWereSent, WasSent
      <4>2. b = e
        BY <2>0, <3>4, <4>1 DEF IInv, SentOnce
      <4> QED BY <4>1, <4>2
    <3>6. messages[k].queueName = QueueOf[c]
      BY <1>1, <3>1, <3>5 DEF msg
    <3>7. ~ (k < i)
      BY <1>1, <1>3, <3>6
    <3>8. k # i
      <4>1. sent[e] # sent[j]
        BY <2>0 DEF IInv, SentOnce
      <4> QED BY <3>1, <3>5, <4>1 DEF msg
    <3>9. i \in 1..k - 1
      BY <1>3, <3>7, <3>8
    <3>10. SentBefore(messages[i], messages[k])
      BY <3>4, <3>9 DEF IInv, UntriedAreYounger
    <3>11. PICK b \in 1..Len(sent) : \E a \in 1..b - 1 : sent[a] = messages[i] /\ sent[b] = messages[k]
      BY <3>10 DEF SentBefore
    <3>12. PICK a \in 1..b - 1 : sent[a] = msg /\ sent[b] = sent[e]
      BY <3>5, <3>11 DEF msg
    <3>13. a \in 1..Len(sent) /\ a < b /\ a \in Nat /\ b \in Nat
      BY LenProperties DEF IInv, TypeOK
    <3>14. a = j /\ b = e
      BY <2>0, <3>1, <3>12, <3>13 DEF IInv, SentOnce
    <3> QED BY <2>0, <3>13, <3>14
  <2> QED BY <1>1, <2>1, <2>2 DEF p
<1> QED BY <1>5, <1>7, <1>13, <1>14, <1>15, <1>16, <1>17, <1>18 DEF IInv

LEMMA HandlerReturnsPreserves ==
    ASSUME IInv, NEW c \in Consumers, HandlerReturns(c)
    PROVE  IInv'
<1> DEFINE p == serving[c].payload
<1>1. /\ ~Idle(c)
      /\ serving' = [serving EXCEPT ![c] = Nothing]
      /\ handled' = handled \cup {p}
      /\ UNCHANGED <<messages, sent, started, cleared, failures>>
  BY DEF HandlerReturns
<1>2. p \in Payloads /\ serving[c] \in QueueMessage
  BY <1>1 DEF IInv, TypeOK, Idle, QueueMessage
<1>3. Serves(c, p) /\ WasSent(serving[c]) /\ p \in started
  BY <1>1 DEF Serves, IInv, AllWereSent, StartedFirst
<1>4. IsSent(p)
  BY <1>3 DEF WasSent, IsSent
<1>5. /\ \A d \in Consumers : d # c => (Idle(d)' <=> Idle(d)) /\ serving'[d] = serving[d]
      /\ Idle(c)'
  BY <1>1 DEF IInv, TypeOK, Idle
<1>6. TypeOK'
  BY <1>1, <1>2, <1>5 DEF IInv, TypeOK
<1> HIDE DEF p
<1>7. /\ \A x : InArray(x)' <=> InArray(x)
      /\ \A x : IsSent(x)' <=> IsSent(x)
      /\ \A d \in Consumers : \A x : Serves(d, x)' <=> Serves(d, x) /\ d # c
  BY <1>1, <1>5 DEF InArray, IsSent, Serves
<1>8. SentOnce' /\ UntriedAreYounger' /\ TriedInOrder'
  BY <1>1 DEF IInv, SentOnce, UntriedAreYounger, SentBefore, TriedInOrder
<1>9. AllWereSent'
  BY <1>1, <1>4, <1>5, <1>7 DEF IInv, AllWereSent, WasSent
<1>10. OnePlace'
  BY <1>1, <1>7 DEF IInv, OnePlace
<1>11. PlaceUnlessSettled'
  <2>1. ~InArray(p) /\ \A d \in Consumers : d # c => ~Serves(d, p)
    BY <1>2, <1>3 DEF IInv, OnePlace
  <2>2. \A x \in handled' \cup cleared' : ~InArray(x)' /\ \A d \in Consumers : ~Serves(d, x)'
    BY <1>1, <1>7, <2>1 DEF IInv, PlaceUnlessSettled
  <2>3. \A x : Serves(c, x) => x = p
    BY DEF Serves, p
  <2>4. \A x \in Payloads : IsSent(x)' =>
          x \in handled' \cup cleared' \/ InArray(x)' \/ \E d \in Consumers : Serves(d, x)'
    BY <1>1, <1>7, <2>3 DEF IInv, PlaceUnlessSettled
  <2> QED BY <2>2, <2>4 DEF PlaceUnlessSettled
<1>12. StartedFirst'
  BY <1>1, <1>3, <1>5 DEF IInv, StartedFirst
<1> QED BY <1>6, <1>8, <1>9, <1>10, <1>11, <1>12 DEF IInv

LEMMA HandlerThrowsPreserves ==
    ASSUME IInv, NEW c \in Consumers, HandlerThrows(c)
    PROVE  IInv'
<1> DEFINE p == serving[c].payload
           msg == serving[c]
           n == Len(messages)
<1>1. /\ ~Idle(c) /\ msg \in QueueMessage
      /\ n \in Nat
      /\ messages' \in Seq(QueueMessage) /\ Len(messages') = n + 1
      /\ \A i \in 1..n : messages'[i] = messages[i]
      /\ messages'[n + 1] = msg
  BY HandlerThrowsStep DEF IInv
<1>2. /\ serving' = [serving EXCEPT ![c] = Nothing]
      /\ UNCHANGED historyVars
      /\ failures' = failures \/ (failures < MaxFailures /\ failures' = failures + 1)
  BY DEF HandlerThrows
<1>3. UNCHANGED <<sent, started, handled, cleared>>
  BY <1>2 DEF historyVars
<1>4. /\ \A d \in Consumers : d # c => (Idle(d)' <=> Idle(d)) /\ serving'[d] = serving[d]
      /\ Idle(c)'
  BY <1>2 DEF IInv, TypeOK, Idle
<1>5. TypeOK'
  <2>1. failures' \in 0..MaxFailures
    BY <1>2, MaxFailuresAssumption DEF IInv, TypeOK
  <2>2. serving' \in [Consumers -> QueueMessage \cup {Nothing}]
    BY <1>2 DEF IInv, TypeOK
  <2> QED BY <1>1, <1>3, <1>4, <2>1, <2>2 DEF IInv, TypeOK
<1>6. p \in Payloads /\ Serves(c, p) /\ WasSent(msg) /\ p \in started
  BY <1>1 DEF Serves, IInv, AllWereSent, StartedFirst, QueueMessage
<1> HIDE DEF p, msg, n
<1>7. /\ \A i \in 1..Len(messages') : i \in 1..n \/ i = n + 1
      /\ n + 1 \in 1..Len(messages') /\ 1..n \subseteq 1..Len(messages')
  BY <1>1
<1>8. /\ \A x : InArray(x)' <=> InArray(x) \/ x = p
      /\ \A x : IsSent(x)' <=> IsSent(x)
      /\ \A d \in Consumers : \A x : Serves(d, x)' <=> Serves(d, x) /\ d # c
  BY <1>1, <1>3, <1>4, <1>7 DEF InArray, IsSent, Serves, n, p, msg
<1>9. ~InArray(p) /\ \A d \in Consumers : d # c => ~Serves(d, p)
  BY <1>6 DEF IInv, OnePlace
<1>10. SentOnce' /\ TriedInOrder'
  BY <1>3 DEF IInv, SentOnce, TriedInOrder
<1>11. AllWereSent'
  <2>1. ASSUME NEW i \in 1..Len(messages') PROVE WasSent(messages[i])'
    <3>1. WasSent(messages'[i])
      BY <1>1, <1>6, <1>7 DEF IInv, AllWereSent, n
    <3> QED BY <1>3, <3>1 DEF WasSent
  <2>2. \A d \in Consumers : ~Idle(d)' => WasSent(serving[d])'
    BY <1>3, <1>4 DEF IInv, AllWereSent, WasSent
  <2>3. \A x \in started' \cup handled' \cup cleared' : IsSent(x)'
    BY <1>3, <1>8 DEF IInv, AllWereSent
  <2> QED BY <2>1, <2>2, <2>3 DEF AllWereSent
<1>12. OnePlace'
  <2>1. \A i \in 1..n : messages[i].payload # p
    BY <1>9 DEF InArray, n
  <2>2. \A i, j \in 1..Len(messages') : messages'[i].payload = messages'[j].payload => i = j
    BY <1>1, <1>7, <2>1 DEF IInv, OnePlace, n, p, msg
  <2> QED BY <1>8, <1>9, <2>2 DEF IInv, OnePlace
<1>13. PlaceUnlessSettled'
  <2>1. p \notin handled \cup cleared
    BY <1>6 DEF IInv, PlaceUnlessSettled
  <2>2. \A x : Serves(c, x) => x = p
    BY DEF Serves, p
  <2>3. \A x \in handled' \cup cleared' : ~InArray(x)' /\ \A d \in Consumers : ~Serves(d, x)'
    BY <1>3, <1>8, <2>1 DEF IInv, PlaceUnlessSettled
  <2>4. \A x \in Payloads : IsSent(x)' =>
          x \in handled' \cup cleared' \/ InArray(x)' \/ \E d \in Consumers : Serves(d, x)'
    BY <1>3, <1>8, <2>2 DEF IInv, PlaceUnlessSettled
  <2> QED BY <2>3, <2>4 DEF PlaceUnlessSettled
<1>14. StartedFirst'
  BY <1>3, <1>4 DEF IInv, StartedFirst
<1>15. UntriedAreYounger'
  <2> SUFFICES ASSUME NEW l \in 1..Len(messages'), NEW k \in 1..l - 1,
                      messages'[l].payload \notin started'
               PROVE  SentBefore(messages[k], messages[l])'
    BY DEF UntriedAreYounger
  <2>1. l \in 1..n
    BY <1>1, <1>3, <1>6, <1>7 DEF p, msg
  <2>2. messages'[l] = messages[l] /\ messages'[k] = messages[k]
    BY <1>1, <2>1
  <2>3. SentBefore(messages[k], messages[l])
    BY <1>3, <2>1, <2>2 DEF IInv, UntriedAreYounger, n
  <2> QED BY <1>3, <2>2, <2>3 DEF SentBefore
<1> QED BY <1>5, <1>10, <1>11, <1>12, <1>13, <1>14, <1>15 DEF IInv

LEMMA ClearQueuePreserves ==
    ASSUME IInv, NEW q \in Queues, ClearQueue(q)
    PROVE  IInv'
<1>1. messages' \in Seq(QueueMessage) /\ messages \in Seq(QueueMessage)
  BY ClearQueueStep DEF IInv, TypeOK
<1>2. PICK h \in [1..Len(messages') -> 1..Len(messages)] :
        /\ \A k, l \in 1..Len(messages') : k < l => h[k] < h[l]
        /\ \A k \in 1..Len(messages') :
             messages'[k] = messages[h[k]] /\ messages[h[k]].queueName # q
        /\ \A i \in 1..Len(messages) : messages[i].queueName # q =>
             \E k \in 1..Len(messages') : h[k] = i
  BY ClearQueueStep DEF IInv
<1>3. UNCHANGED <<serving, sent, started, handled, failures>>
  BY DEF ClearQueue
<1>4. \A x : x \in cleared' <=>
        x \in cleared \/ \E i \in 1..Len(messages) : messages[i].queueName = q /\ messages[i].payload = x
  BY DEF ClearQueue
<1>5. /\ \A k \in 1..Len(messages') : WasSent(messages'[k])
      /\ \A k, l \in 1..Len(messages') : messages'[k].payload = messages'[l].payload => k = l
      /\ \A x : InArray(x)' => InArray(x)
      /\ UntriedAreYounger'
  BY <1>1, <1>2, <1>3, ThinnedArray
<1>6. /\ \A x : IsSent(x)' <=> IsSent(x)
      /\ \A d \in Consumers : \A x : Serves(d, x)' <=> Serves(d, x)
      /\ \A d \in Consumers : Idle(d)' <=> Idle(d)
  BY <1>3 DEF IsSent, Serves, Idle
<1>7. \A x : x \in cleared' => x \in cleared \/ InArray(x)
  BY <1>4 DEF InArray
<1>8. \A x : InArray(x) => IsSent(x) /\ x \in Payloads
  <2> SUFFICES ASSUME NEW i \in 1..Len(messages)
               PROVE  IsSent(messages[i].payload) /\ messages[i].payload \in Payloads
    BY DEF InArray
  <2>1. WasSent(messages[i]) /\ messages[i] \in QueueMessage
    BY <1>1, ElementOfSeq DEF IInv, AllWereSent
  <2> QED BY <2>1 DEF WasSent, IsSent, QueueMessage
<1>9. TypeOK'
  <2>1. cleared' \in SUBSET Payloads
    BY <1>7, <1>8 DEF IInv, TypeOK
  <2> QED BY <1>1, <1>3, <1>6, <2>1 DEF IInv, TypeOK
<1>10. SentOnce'
  BY <1>3 DEF IInv, SentOnce
<1>11. AllWereSent'
  <2>1. \A k \in 1..Len(messages') : WasSent(messages[k])'
    BY <1>3, <1>5 DEF WasSent
  <2>2. \A d \in Consumers : ~Idle(d)' => WasSent(serving[d])'
    BY <1>3, <1>6 DEF IInv, AllWereSent, WasSent
  <2>3. \A x \in started' \cup handled' \cup cleared' : IsSent(x)'
    BY <1>3, <1>6, <1>7, <1>8 DEF IInv, AllWereSent
  <2> QED BY <2>1, <2>2, <2>3 DEF AllWereSent
<1>12. OnePlace'
  BY <1>5, <1>6 DEF IInv, OnePlace
<1>13. PlaceUnlessSettled'
  <2>1. ASSUME NEW x, x \in cleared', InArray(x)' PROVE FALSE
    <3>1. PICK k \in 1..Len(messages') : messages'[k].payload = x
      BY <2>1 DEF InArray
    <3>2. h[k] \in 1..Len(messages) /\ messages[h[k]].payload = x /\ messages[h[k]].queueName # q
      BY <1>2, <3>1
    <3>3. x \notin cleared
      BY <3>2 DEF IInv, PlaceUnlessSettled, InArray
    <3>4. PICK i \in 1..Len(messages) : messages[i].queueName = q /\ messages[i].payload = x
      BY <1>4, <2>1, <3>3
    <3>5. i = h[k]
      BY <3>2, <3>4 DEF IInv, OnePlace
    <3> QED BY <3>2, <3>4, <3>5
  <2>2. \A x : x \in cleared' => \A d \in Consumers : ~Serves(d, x)'
    BY <1>6, <1>7, <1>8 DEF IInv, PlaceUnlessSettled, OnePlace
  <2>3. \A x \in handled' \cup cleared' : ~InArray(x)' /\ \A d \in Consumers : ~Serves(d, x)'
    BY <1>3, <1>5, <1>6, <2>1, <2>2 DEF IInv, PlaceUnlessSettled
  <2>4. ASSUME NEW x, InArray(x) PROVE InArray(x)' \/ x \in cleared'
    <3>1. PICK i \in 1..Len(messages) : messages[i].payload = x
      BY <2>4 DEF InArray
    <3>2. CASE messages[i].queueName = q
      BY <1>4, <3>1, <3>2
    <3>3. CASE messages[i].queueName # q
      BY <1>2, <3>1, <3>3 DEF InArray
    <3> QED BY <3>2, <3>3
  <2>5. \A x \in Payloads : IsSent(x)' =>
          x \in handled' \cup cleared' \/ InArray(x)' \/ \E d \in Consumers : Serves(d, x)'
    BY <1>3, <1>4, <1>6, <2>4 DEF IInv, PlaceUnlessSettled
  <2> QED BY <2>3, <2>5 DEF PlaceUnlessSettled
<1>14. StartedFirst'
  BY <1>3, <1>6 DEF IInv, StartedFirst
<1>15. TriedInOrder'
  BY <1>3, <1>4 DEF IInv, TriedInOrder
<1> QED BY <1>5, <1>9, <1>10, <1>11, <1>12, <1>13, <1>14, <1>15 DEF IInv

LEMMA StutterPreserves ==
    ASSUME IInv, UNCHANGED vars
    PROVE  IInv'
BY DEF IInv, TypeOK, SentOnce, AllWereSent, OnePlace, PlaceUnlessSettled, StartedFirst,
       UntriedAreYounger, TriedInOrder, WasSent, IsSent, InArray, Serves, Idle, SentBefore,
       vars, historyVars

LEMMA StepPreservesIInv == IInv /\ [Next]_vars => IInv'
BY SendMessagePreserves, ConsumeOnePreserves, HandlerReturnsPreserves, HandlerThrowsPreserves,
   ClearQueuePreserves, StutterPreserves DEF Next

LEMMA IInvIsInvariant == Spec => []IInv
BY InitEstablishesIInv, StepPreservesIInv, PTL DEF Spec

(* Whatever the consumers, failing handlers and clears do, the array holds sent
   messages, and a consumer one of its own queue. *)
THEOREM TypeCorrect == Spec => []TypeOK
BY IInvIsInvariant, PTL DEF IInv

LEMMA PlacesAreCopies == IInv => EachMessageOnce
<1> SUFFICES ASSUME IInv, NEW i \in 1..Len(sent)
             PROVE  Copies(sent[i].payload) =
                      IF sent[i].payload \in handled \cup cleared THEN 0 ELSE 1
  BY DEF EachMessageOnce
<1> DEFINE p == sent[i].payload
           A == {k \in 1..Len(messages) : messages[k].payload = p}
           C == {c \in Consumers : ~Idle(c) /\ serving[c].payload = p}
<1>1. Copies(p) = Cardinality(A) + Cardinality(C)
  BY DEF Copies
<1>2. p \in Payloads /\ IsSent(p)
  <2>1. sent[i] \in QueueMessage
    BY ElementOfSeq DEF IInv, TypeOK
  <2> QED BY <2>1 DEF IsSent, QueueMessage
<1>3. /\ InArray(p) <=> A # {}
      /\ \A c \in Consumers : Serves(c, p) <=> c \in C
      /\ \A k, l \in A : k = l
      /\ \A c, d \in C : c = d
  BY <1>2 DEF InArray, Serves, IInv, OnePlace
<1>s. C \subseteq Consumers
  OBVIOUS
<1>c. Cardinality({}) = 0 /\ \A x : Cardinality({x}) = 1
  BY FS_EmptySet, FS_Singleton
<1> HIDE DEF p, A, C
<1>4. CASE p \in handled \cup cleared
  <2>1. A = {} /\ C = {}
    BY <1>3, <1>4, <1>s DEF IInv, PlaceUnlessSettled
  <2> QED BY <1>1, <1>4, <1>c, <2>1 DEF p
<1>5. CASE p \notin handled \cup cleared /\ A # {}
  <2>1. PICK k \in A : A = {k}
    BY <1>3, <1>5
  <2>2. C = {}
    BY <1>2, <1>3, <1>5, <1>s DEF IInv, OnePlace
  <2>3. Cardinality(A) = 1 /\ Cardinality(C) = 0
    BY <1>c, <2>1, <2>2
  <2> QED BY <1>1, <1>5, <2>3 DEF p
<1>6. CASE p \notin handled \cup cleared /\ A = {}
  <2>1. PICK c \in Consumers : Serves(c, p)
    BY <1>2, <1>3, <1>6 DEF IInv, PlaceUnlessSettled
  <2>2. C = {c}
    BY <1>3, <2>1
  <2>3. Cardinality(A) = 0 /\ Cardinality(C) = 1
    BY <1>6, <1>c, <2>2
  <2> QED BY <1>1, <1>6, <2>3 DEF p
<1> QED BY <1>4, <1>5, <1>6

(* A sent message is in the array or in one handler, once, until it is handled or
   its own queue is cleared, and in neither after that, for any number of queues,
   overlapping consumers, failures and clears. *)
THEOREM EachMessageOnceHolds == Spec => []EachMessageOnce
BY IInvIsInvariant, PlacesAreCopies, PTL

(* No message of a queue reaches a handler before an older one of the same queue
   that was neither tried nor discarded. *)
THEOREM TriedInOrderHolds == Spec => []TriedInOrder
BY IInvIsInvariant, PTL DEF IInv

----------------------------------------------------------------------------
(* The array implements the queues *)

PayloadSeq(s) == [i \in 1..Len(s) |-> s[i].payload]

LEMMA PayloadSeqType ==
    ASSUME NEW s \in Seq(QueueMessage)
    PROVE  PayloadSeq(s) \in Seq(Payloads) /\ Len(PayloadSeq(s)) = Len(s)
<1>1. Len(s) \in Nat /\ \A i \in 1..Len(s) : s[i].payload \in Payloads
  <2>1. \A i \in 1..Len(s) : s[i] \in QueueMessage
    BY ElementOfSeq
  <2>2. \A m \in QueueMessage : m.payload \in Payloads
    BY DEF QueueMessage
  <2> QED BY <2>1, <2>2, LenProperties
<1> QED BY <1>1, IsASeq DEF PayloadSeq

LEMMA PayloadSeqAppend ==
    ASSUME NEW s \in Seq(QueueMessage), NEW e \in QueueMessage
    PROVE  PayloadSeq(Append(s, e)) = Append(PayloadSeq(s), e.payload)
<1> DEFINE a == Append(s, e)
           u == PayloadSeq(a)
           v == Append(PayloadSeq(s), e.payload)
<1>1. /\ a \in Seq(QueueMessage) /\ Len(a) = Len(s) + 1 /\ Len(s) \in Nat
      /\ \A i \in 1..Len(s) : a[i] = s[i]
      /\ a[Len(s) + 1] = e
  BY AppendProperties, LenProperties
<1>2. e.payload \in Payloads
  BY DEF QueueMessage
<1> HIDE DEF a
<1>3. /\ u \in Seq(Payloads) /\ Len(u) = Len(s) + 1
      /\ \A i \in 1..Len(s) + 1 : u[i] = a[i].payload
  BY <1>1, PayloadSeqType DEF PayloadSeq
<1>4. PayloadSeq(s) \in Seq(Payloads) /\ Len(PayloadSeq(s)) = Len(s)
  BY PayloadSeqType
<1>5. \A i \in 1..Len(s) : PayloadSeq(s)[i] = s[i].payload
  BY DEF PayloadSeq
<1>6. /\ v \in Seq(Payloads) /\ Len(v) = Len(s) + 1
      /\ \A i \in 1..Len(s) : v[i] = s[i].payload
      /\ v[Len(s) + 1] = e.payload
  BY <1>2, <1>4, <1>5, AppendProperties
<1> HIDE DEF u, v
<1>7. \A i \in 1..Len(s) + 1 : u[i] = v[i]
  <2>1. \A i \in 1..Len(s) + 1 : i \in 1..Len(s) \/ i = Len(s) + 1
    BY <1>1
  <2> QED BY <1>1, <1>3, <1>6, <2>1
<1>8. u = v
  BY <1>3, <1>6, <1>7, SeqEqual
<1> QED BY <1>8 DEF u, v, a

LEMMA PayloadSeqTail ==
    ASSUME NEW s \in Seq(QueueMessage), s # << >>
    PROVE  /\ PayloadSeq(s) # << >>
           /\ Head(PayloadSeq(s)) = Head(s).payload
           /\ Tail(PayloadSeq(s)) = PayloadSeq(Tail(s))
<1>1. /\ Len(s) \in Nat /\ Len(s) > 0 /\ Head(s) = s[1]
      /\ Tail(s) \in Seq(QueueMessage) /\ Len(Tail(s)) = Len(s) - 1
      /\ \A i \in 1..Len(s) - 1 : Tail(s)[i] = s[i + 1]
  OBVIOUS
<1> DEFINE u == PayloadSeq(s)
           v == PayloadSeq(Tail(s))
<1>2. u \in Seq(Payloads) /\ Len(u) = Len(s) /\ \A i \in 1..Len(s) : u[i] = s[i].payload
  BY PayloadSeqType DEF PayloadSeq
<1>3. /\ v \in Seq(Payloads) /\ Len(v) = Len(s) - 1
      /\ \A i \in 1..Len(s) - 1 : v[i] = Tail(s)[i].payload
  BY <1>1, PayloadSeqType DEF PayloadSeq
<1> HIDE DEF u, v
<1>4. u # << >> /\ Head(u) = u[1] /\ Tail(u) \in Seq(Payloads) /\ Len(Tail(u)) = Len(s) - 1
  BY <1>1, <1>2
<1>5. \A i \in 1..Len(s) - 1 : Tail(u)[i] = u[i + 1]
  BY <1>1, <1>2, <1>4
<1>6. \A i \in 1..Len(s) - 1 : Tail(u)[i] = v[i]
  BY <1>1, <1>2, <1>3, <1>5
<1>7. Tail(u) = v
  BY <1>3, <1>4, <1>6, SeqEqual
<1> QED BY <1>1, <1>2, <1>4, <1>7 DEF u, v

LEMMA PayloadsOfIs ==
    \A q : PayloadsOf(q) = PayloadSeq(Filter(messages, OfQueue(q)))
BY DEF PayloadsOf, PayloadSeq

(* The abstract state. *)
queueOf == [q \in Queues |-> PayloadsOf(q)]

LEMMA OfQueueIs ==
    ASSUME NEW msg \in QueueMessage, NEW q
    PROVE  msg \in OfQueue(q) <=> msg.queueName = q
BY DEF OfQueue

(* Appending a message to the array appends its payload to its own queue. *)
LEMMA AppendToQueue ==
    ASSUME TypeOK, NEW msg \in QueueMessage, messages' = Append(messages, msg)
    PROVE  queueOf' = [queueOf EXCEPT ![msg.queueName] =
                          Append(queueOf[msg.queueName], msg.payload)]
<1>1. messages \in Seq(QueueMessage)
  BY DEF TypeOK
<1>2. ASSUME NEW q \in Queues
      PROVE  PayloadsOf(q)' = IF msg.queueName = q THEN Append(PayloadsOf(q), msg.payload)
                                                   ELSE PayloadsOf(q)
  <2> DEFINE own == Filter(messages, OfQueue(q))
  <2>1. own \in Seq(QueueMessage)
    BY <1>1, FilterIs
  <2>2. Filter(Append(messages, msg), OfQueue(q)) =
          IF msg \in OfQueue(q) THEN Append(own, msg) ELSE own
    BY <1>1, FilterAppend
  <2>3. PayloadsOf(q)' = PayloadSeq(Filter(Append(messages, msg), OfQueue(q)))
    BY DEF PayloadsOf, PayloadSeq
  <2> HIDE DEF own
  <2>4. CASE msg.queueName = q
    <3>1. PayloadsOf(q)' = PayloadSeq(Append(own, msg))
      BY <2>2, <2>3, <2>4, OfQueueIs
    <3>2. PayloadSeq(Append(own, msg)) = Append(PayloadSeq(own), msg.payload)
      BY <2>1, PayloadSeqAppend
    <3> QED BY <2>4, <3>1, <3>2, PayloadsOfIs DEF own
  <2>5. CASE msg.queueName # q
    <3>1. PayloadsOf(q)' = PayloadSeq(own)
      BY <2>2, <2>3, <2>5, OfQueueIs
    <3> QED BY <2>5, <3>1, PayloadsOfIs DEF own
  <2> QED BY <2>4, <2>5
<1>3. msg.queueName \in Queues
  BY DEF QueueMessage
<1> QED BY <1>2, <1>3 DEF queueOf

(* What a consumer takes out is the head of its queue. *)
LEMMA TakeFromQueue ==
    ASSUME TypeOK, NEW c \in Consumers, ConsumeOne(c)
    PROVE  /\ queueOf[QueueOf[c]] # << >>
           /\ queueOf' = [queueOf EXCEPT ![QueueOf[c]] = Tail(queueOf[QueueOf[c]])]
           /\ serving' = [serving EXCEPT ![c] =
                              [queueName |-> QueueOf[c], payload |-> Head(queueOf[QueueOf[c]])]]
<1>1. messages \in Seq(QueueMessage) /\ QueueOf[c] \in Queues
  BY QueueOfAssumption DEF TypeOK
<1>2. PICK i \in 1..Len(messages) :
        /\ messages[i] \in QueueMessage
        /\ messages[i].queueName = QueueOf[c]
        /\ \A j \in 1..i - 1 : messages[j].queueName # QueueOf[c]
        /\ messages' = RemoveAt(messages, i)
        /\ serving' = [serving EXCEPT ![c] = messages[i]]
  BY ConsumeOneStep
<1> DEFINE mine == QueueOf[c]
           own == Filter(messages, OfQueue(mine))
<1>3. /\ own # << >> /\ own \in Seq(QueueMessage)
      /\ Head(own) = messages[i]
      /\ Tail(own) = Filter(RemoveAt(messages, i), OfQueue(mine))
  <2>1. messages[i] \in OfQueue(mine)
    BY <1>2, OfQueueIs
  <2>2. \A j \in 1..i - 1 : messages[j] \notin OfQueue(mine)
    BY <1>2 DEF OfQueue
  <2> HIDE DEF mine
  <2> QED BY <1>1, <2>1, <2>2, FilterIs, FilterRemoveFirst
<1>4. /\ PayloadsOf(mine) # << >>
      /\ Head(PayloadsOf(mine)) = messages[i].payload
      /\ PayloadsOf(mine)' = Tail(PayloadsOf(mine))
  <2>1. PayloadsOf(mine) = PayloadSeq(own)
    BY PayloadsOfIs
  <2>2. PayloadsOf(mine)' = PayloadSeq(Tail(own))
    BY <1>2, <1>3 DEF PayloadsOf, PayloadSeq
  <2> HIDE DEF own
  <2> QED BY <1>3, <2>1, <2>2, PayloadSeqTail
<1>5. ASSUME NEW q \in Queues, q # mine PROVE PayloadsOf(q)' = PayloadsOf(q)
  <2>1. messages[i] \notin OfQueue(q)
    BY <1>2, <1>5, OfQueueIs
  <2>2. Filter(RemoveAt(messages, i), OfQueue(q)) = Filter(messages, OfQueue(q))
    BY <1>1, <2>1, FilterRemoveOther
  <2> QED BY <1>2, <2>2 DEF PayloadsOf
<1> HIDE DEF own
<1>6. queueOf[mine] = PayloadsOf(mine)
  BY <1>1 DEF queueOf
<1>7. queueOf' = [queueOf EXCEPT ![mine] = Tail(queueOf[mine])]
  BY <1>1, <1>4, <1>5, <1>6 DEF queueOf
<1>8. serving' = [serving EXCEPT ![c] = [queueName |-> mine, payload |-> Head(queueOf[mine])]]
  <2>1. messages[i] = [queueName |-> mine, payload |-> messages[i].payload]
    BY <1>2 DEF QueueMessage
  <2> QED BY <1>2, <1>4, <1>6, <2>1
<1> QED BY <1>4, <1>6, <1>7, <1>8

(* clearQueue empties the one queue and leaves the others. *)
LEMMA ClearsQueue ==
    ASSUME TypeOK, NEW q \in Queues, ClearQueue(q)
    PROVE  queueOf' = [queueOf EXCEPT ![q] = << >>]
<1> DEFINE others == QueueMessage \ OfQueue(q)
<1>1. messages \in Seq(QueueMessage) /\ messages' = Filter(messages, others)
  BY ClearQueueStep DEF TypeOK
<1>2. ASSUME NEW r PROVE PayloadsOf(r)' = PayloadSeq(Filter(messages, others \cap OfQueue(r)))
  <2>1. Filter(Filter(messages, others), OfQueue(r)) = Filter(messages, others \cap OfQueue(r))
    BY <1>1, FilterTwice
  <2> QED BY <1>1, <2>1 DEF PayloadsOf, PayloadSeq
<1>3. PayloadsOf(q)' = << >>
  <2>1. others \cap OfQueue(q) = {}
    OBVIOUS
  <2>2. Filter(messages, {}) = << >>
    BY <1>1, FilterNone
  <2>3. PayloadSeq(<< >>) = << >>
    BY DEF PayloadSeq
  <2> QED BY <1>2, <2>1, <2>2, <2>3
<1>4. ASSUME NEW r \in Queues, r # q PROVE PayloadsOf(r)' = PayloadsOf(r)
  <2>1. others \cap OfQueue(r) = OfQueue(r)
    BY <1>4 DEF OfQueue
  <2> QED BY <1>2, <2>1, PayloadsOfIs
<1> QED BY <1>3, <1>4 DEF queueOf

LEMMA QueuedInitially == Init => Queued!Init
<1> SUFFICES ASSUME Init PROVE Queued!Init
  OBVIOUS
<1>1. \A q : PayloadsOf(q) = << >>
  <2>1. \A q : Filter(messages, OfQueue(q)) = << >>
    BY FilterEmpty DEF Init
  <2> QED BY <2>1 DEF PayloadsOf
<1> QED BY <1>1 DEF Init, Queued!Init

LEMMA QueuedStep ==
    TypeOK /\ [Next]_vars => [Queued!Next]_<<queueOf, serving>>
<1> SUFFICES ASSUME TypeOK, [Next]_vars
             PROVE  Queued!Next \/ UNCHANGED <<queueOf, serving>>
  OBVIOUS
<1>1. ASSUME NEW q \in Queues, NEW p \in Payloads, SendMessage(q, p)
      PROVE  Queued!Next
  <2> DEFINE msg == [queueName |-> q, payload |-> p]
  <2>1. msg \in QueueMessage /\ msg.queueName = q /\ msg.payload = p
    BY DEF QueueMessage
  <2>2. messages' = Append(messages, msg) /\ serving' = serving
    BY <1>1 DEF SendMessage, Enqueue
  <2> HIDE DEF msg
  <2>3. queueOf' = [queueOf EXCEPT ![q] = Append(queueOf[q], p)]
    BY <2>1, <2>2, AppendToQueue
  <2>4. Queued!Send(q, p)
    BY <2>2, <2>3 DEF Queued!Send, queueOf
  <2> QED BY <2>4 DEF Queued!Next
<1>2. ASSUME NEW c \in Consumers, ConsumeOne(c)
      PROVE  Queued!Next
  <2>1. QueueOf[c] \in Queues /\ serving[c] = Nothing
    BY <1>2, QueueOfAssumption DEF ConsumeOne, Idle
  <2>2. Queued!Take(c, QueueOf[c])
    BY <1>2, <2>1, TakeFromQueue DEF Queued!Take, queueOf
  <2> QED BY <2>1, <2>2 DEF Queued!Next
<1>3. ASSUME NEW c \in Consumers, HandlerReturns(c)
      PROVE  Queued!Next
  <2>1. ~Idle(c) /\ serving' = [serving EXCEPT ![c] = Nothing] /\ messages' = messages
    BY <1>3 DEF HandlerReturns
  <2>2. queueOf' = queueOf
    BY <2>1 DEF queueOf, PayloadsOf
  <2>3. Queued!Done(c)
    BY <2>1, <2>2 DEF Idle, Queued!Done, queueOf
  <2> QED BY <2>3 DEF Queued!Next
<1>4. ASSUME NEW c \in Consumers, HandlerThrows(c)
      PROVE  Queued!Next
  <2>1. ~Idle(c) /\ serving' = [serving EXCEPT ![c] = Nothing]
    BY <1>4 DEF HandlerThrows
  <2>2. serving[c] \in QueueMessage /\ messages' = Append(messages, serving[c])
    BY <1>4, HandlerThrowsStep
  <2>3. queueOf' = [queueOf EXCEPT ![serving[c].queueName] =
                       Append(queueOf[serving[c].queueName], serving[c].payload)]
    BY <2>2, AppendToQueue
  <2>4. Queued!PutBack(c)
    BY <2>1, <2>3 DEF Idle, Queued!PutBack, queueOf
  <2> QED BY <2>4 DEF Queued!Next
<1>5. ASSUME NEW q \in Queues, ClearQueue(q)
      PROVE  Queued!Next
  <2>1. serving' = serving
    BY <1>5 DEF ClearQueue
  <2>2. Queued!Clear(q)
    BY <1>5, <2>1, ClearsQueue DEF Queued!Clear, queueOf
  <2> QED BY <2>2 DEF Queued!Next
<1>6. CASE UNCHANGED vars
  BY <1>6 DEF vars, queueOf, PayloadsOf, Idle
<1> QED BY <1>1, <1>2, <1>3, <1>4, <1>5, <1>6 DEF Next

(* The one array behind both queues behaves as an independent FIFO queue per
   name, with a failed message at the back of the queue it came from. *)
THEOREM FifoQueuesImplemented == Spec => ImplementsFifoQueues
<1>1. Init => Queued!Init
  BY QueuedInitially
<1>2. TypeOK /\ [Next]_vars => [Queued!Next]_<<queueOf, serving>>
  BY QueuedStep
<1> QED BY <1>1, <1>2, TypeCorrect, PTL
        DEF Spec, ImplementsFifoQueues, Queued!Spec, queueOf
============================================================================

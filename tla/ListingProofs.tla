---------------------------- MODULE ListingProofs ----------------------------
(***************************************************************************)
(* What holds of lists for any tables, queries and changes: types, and how *)
(* far a client who walks through the pages may be led astray by rows that *)
(* enter and leave the list meanwhile.                                     *)
(***************************************************************************)
EXTENDS Listing, FiniteSetTheorems, SequenceTheorems, TLAPS

(***************************************************************************)
(* Ranks. The place of an id in a list in the order of the ids, from the   *)
(* least up or from the greatest down.                                     *)
(***************************************************************************)

Precedes(d, i, j) == IF d = "ASC" THEN i <= j ELSE i >= j
Upto(d, S, i) == {j \in S : Precedes(d, j, i)}
Rank(d, S, i) == Cardinality(Upto(d, S, i))

LEMMA SubsetCardinality ==
    ASSUME NEW S, IsFiniteSet(S), NEW T, T \subseteq S
    PROVE  /\ IsFiniteSet(T)
           /\ Cardinality(T) \in Nat /\ Cardinality(S) \in Nat
           /\ Cardinality(T) <= Cardinality(S)
           /\ Cardinality(T) = Cardinality(S) => T = S
BY FS_Subset, FS_CardinalityType

LEMMA OneMore ==
    ASSUME NEW S, IsFiniteSet(S), NEW T, NEW x, T \subseteq S \cup {x}
    PROVE  /\ IsFiniteSet(T) /\ Cardinality(T) \in Nat /\ Cardinality(S) \in Nat
           /\ Cardinality(T) <= Cardinality(S) + 1
<1>1. Cardinality(S) \in Nat
  BY FS_CardinalityType
<1>2. /\ IsFiniteSet(S \cup {x}) /\ Cardinality(S) \in Nat
      /\ Cardinality(S \cup {x}) <= Cardinality(S) + 1
  <2>1. /\ IsFiniteSet(S \cup {x})
        /\ Cardinality(S \cup {x}) \in {Cardinality(S), Cardinality(S) + 1}
    BY FS_AddElement
  <2> QED
    BY <1>1, <2>1
<1>3. /\ IsFiniteSet(T) /\ Cardinality(T) \in Nat /\ Cardinality(S \cup {x}) \in Nat
      /\ Cardinality(T) <= Cardinality(S \cup {x})
  BY <1>2, SubsetCardinality
<1> QED
  BY <1>2, <1>3

LEMMA RankType ==
    ASSUME NEW d, NEW S \in SUBSET Nat, IsFiniteSet(S), NEW i
    PROVE  /\ IsFiniteSet(Upto(d, S, i))
           /\ Rank(d, S, i) \in 0..Cardinality(S) /\ Cardinality(S) \in Nat
           /\ i \in S => Rank(d, S, i) >= 1
<1>1. Upto(d, S, i) \subseteq S
  BY DEF Upto
<1>2. IsFiniteSet(Upto(d, S, i)) /\ Rank(d, S, i) \in Nat /\ Rank(d, S, i) <= Cardinality(S)
      /\ Cardinality(S) \in Nat
  BY <1>1, SubsetCardinality DEF Rank
<1>3. ASSUME i \in S PROVE Rank(d, S, i) # 0
  <2>1. i \in Upto(d, S, i)
    BY <1>3 DEF Upto, Precedes
  <2> QED
    BY <2>1, <1>2, FS_EmptySet DEF Rank
<1> QED
  BY <1>2, <1>3

\* Whoever comes later has the greater rank.
LEMMA RankGrows ==
    ASSUME NEW d, NEW S \in SUBSET Nat, IsFiniteSet(S), NEW i \in S, NEW j \in S,
           i # j, Precedes(d, i, j)
    PROVE  Rank(d, S, i) < Rank(d, S, j)
<1>1. Upto(d, S, i) \subseteq Upto(d, S, j) /\ j \notin Upto(d, S, i) /\ j \in Upto(d, S, j)
  <2>1. i \in Int /\ j \in Int /\ \A k \in S : k \in Int
    OBVIOUS
  <2>2. \A k \in S : Precedes(d, k, i) => Precedes(d, k, j)
    BY <2>1 DEF Precedes
  <2>3. /\ \A k : k \in Upto(d, S, i) <=> k \in S /\ Precedes(d, k, i)
        /\ \A k : k \in Upto(d, S, j) <=> k \in S /\ Precedes(d, k, j)
    BY DEF Upto
  <2>4. Upto(d, S, i) \subseteq Upto(d, S, j)
    BY <2>2, <2>3
  <2>5. j \notin Upto(d, S, i)
    BY <2>1, <2>3 DEF Precedes
  <2>6. j \in Upto(d, S, j)
    BY <2>1, <2>3 DEF Precedes
  <2> QED
    BY <2>4, <2>5, <2>6
<1>2. IsFiniteSet(Upto(d, S, j))
  BY RankType
<1>3. /\ Cardinality(Upto(d, S, i)) \in Nat /\ Cardinality(Upto(d, S, j)) \in Nat
      /\ Cardinality(Upto(d, S, i)) <= Cardinality(Upto(d, S, j))
      /\ Cardinality(Upto(d, S, i)) # Cardinality(Upto(d, S, j))
  BY <1>1, <1>2, SubsetCardinality
<1> QED
  BY <1>3 DEF Rank

LEMMA RanksDiffer ==
    ASSUME NEW d, NEW S \in SUBSET Nat, IsFiniteSet(S), NEW i \in S, NEW j \in S,
           Rank(d, S, i) = Rank(d, S, j)
    PROVE  i = j
<1>1. i \in Int /\ j \in Int /\ (Precedes(d, i, j) \/ Precedes(d, j, i))
  BY DEF Precedes
<1>2. Rank(d, S, i) \in Int /\ Rank(d, S, j) \in Int
  BY RankType
<1> QED
  BY <1>1, <1>2, RankGrows

\* Every rank up to the number of ids is the rank of one of them.
LEMMA RanksAll ==
    ASSUME NEW d, NEW S \in SUBSET Nat, IsFiniteSet(S), NEW n \in 1..Cardinality(S)
    PROVE  \E i \in S : Rank(d, S, i) = n
<1> DEFINE f == [i \in S |-> Rank(d, S, i)]
           T == {f[i] : i \in S}
<1>1. f \in [S -> 1..Cardinality(S)]
  BY RankType
<1>2. \A i, j \in S : f[i] = f[j] => i = j
  BY RanksDiffer
<1>3. f \in Surjection(S, T) /\ f \in Injection(S, T)
  BY <1>2 DEF Surjection, Injection, Range, IsInjective
<1>4. IsFiniteSet(T) /\ Cardinality(T) = Cardinality(S)
  BY <1>3, FS_Surjection
<1>5. T \subseteq 1..Cardinality(S) /\ Cardinality(S) \in Nat
  BY <1>1, FS_CardinalityType
<1>6. IsFiniteSet(1..Cardinality(S)) /\ Cardinality(1..Cardinality(S)) = Cardinality(S)
  BY <1>5, FS_Interval
<1>7. T = 1..Cardinality(S)
  BY <1>4, <1>5, <1>6, SubsetCardinality
<1> QED
  BY <1>7

\* A new id moves those after it by one.
LEMMA RankMoves ==
    ASSUME NEW d, NEW S \in SUBSET Nat, IsFiniteSet(S), NEW x \in Nat \ S, NEW i
    PROVE  /\ Rank(d, S, i) \in Nat
           /\ Rank(d, S \cup {x}, i) \in {Rank(d, S, i), Rank(d, S, i) + 1}
           /\ ~Precedes(d, x, i) => Rank(d, S \cup {x}, i) = Rank(d, S, i)
<1>1. IsFiniteSet(Upto(d, S, i)) /\ x \notin Upto(d, S, i) /\ Rank(d, S, i) \in Nat
  BY RankType DEF Upto
<1>2. CASE Precedes(d, x, i)
  <2>1. Upto(d, S \cup {x}, i) = Upto(d, S, i) \cup {x}
    BY <1>2 DEF Upto
  <2> QED
    BY <1>1, <1>2, <2>1, FS_AddElement DEF Rank
<1>3. CASE ~Precedes(d, x, i)
  <2>1. Upto(d, S \cup {x}, i) = Upto(d, S, i)
    BY <1>3 DEF Upto
  <2> QED
    BY <1>1, <1>3, <2>1 DEF Rank
<1> QED
  BY <1>2, <1>3

(***************************************************************************)
(* A client has the first p places of the list S behind it. Of the ids in  *)
(* U, some are still ahead and some are behind.                            *)
(***************************************************************************)

Ahead(d, S, p, U) == {i \in S \cap U : Rank(d, S, i) > p}
Behind(d, S, p, U) == {i \in U : Rank(d, S, i) <= p}

\* A row that enters pushes at most one row ahead again, or is ahead itself.
LEMMA EntryPushes ==
    ASSUME NEW d, NEW S \in SUBSET Nat, IsFiniteSet(S), NEW x \in Nat \ S,
           NEW p \in Nat, NEW U
    PROVE  /\ Cardinality(Ahead(d, S \cup {x}, p, U)) \in Nat
           /\ Cardinality(Ahead(d, S, p, U)) \in Nat
           /\ Cardinality(Ahead(d, S \cup {x}, p, U)) <= Cardinality(Ahead(d, S, p, U)) + 1
<1> DEFINE New == Ahead(d, S \cup {x}, p, U)
           Old == Ahead(d, S, p, U)
<1>1. \A i \in S :
         /\ Rank(d, S, i) \in Nat
         /\ Rank(d, S \cup {x}, i) \in {Rank(d, S, i), Rank(d, S, i) + 1}
         /\ ~Precedes(d, x, i) => Rank(d, S \cup {x}, i) = Rank(d, S, i)
  BY RankMoves
<1>2. \E y : New \subseteq Old \cup {y}
  <2>1. CASE x \in New
    <3>1. S \cup {x} \in SUBSET Nat /\ IsFiniteSet(S \cup {x})
      BY FS_AddElement
    <3>2. ASSUME NEW i \in New, i # x PROVE i \in Old
      <4>1. i \in S /\ i \in U /\ Rank(d, S \cup {x}, i) > p
        BY <3>2 DEF Ahead
      <4>2. CASE Precedes(d, x, i)
        <5>1. Rank(d, S \cup {x}, x) < Rank(d, S \cup {x}, i)
          BY <3>1, <3>2, <4>1, <4>2, RankGrows
        <5>2. Rank(d, S \cup {x}, x) > p /\ Rank(d, S \cup {x}, x) \in Nat
          BY <2>1, <3>1, RankType DEF Ahead
        <5> QED
          BY <1>1, <4>1, <4>2, <5>1, <5>2 DEF Ahead
      <4>3. CASE ~Precedes(d, x, i)
        BY <1>1, <4>1, <4>3 DEF Ahead
      <4> QED
        BY <4>2, <4>3
    <3> QED
      BY <3>2
  <2>2. CASE x \notin New
    <3>1. \A i \in New : i \in S /\ (i \in Old \/ Rank(d, S, i) = p)
      BY <1>1, <2>2 DEF Ahead
    <3>2. CASE \E y \in New : y \notin Old
      <4>1. PICK y \in New : y \notin Old
        BY <3>2
      <4>2. ASSUME NEW i \in New, i \notin Old PROVE i = y
        <5>1. i \in S /\ y \in S /\ Rank(d, S, i) = Rank(d, S, y)
          BY <3>1, <4>1, <4>2
        <5> QED
          BY <5>1, RanksDiffer
      <4> QED
        BY <4>2
    <3> QED
      BY <3>2
  <2> QED
    BY <2>1, <2>2
<1>3. IsFiniteSet(Old)
  BY SubsetCardinality, Old \subseteq S DEF Ahead
<1> QED
  BY <1>2, <1>3, OneMore

\* And puts none behind that was not.
LEMMA EntryKeepsBehind ==
    ASSUME NEW d, NEW S \in SUBSET Nat, IsFiniteSet(S), NEW x \in Nat \ S,
           NEW p \in Nat, NEW U \in SUBSET S
    PROVE  Behind(d, S \cup {x}, p, U) \subseteq Behind(d, S, p, U)
<1>1. \A i \in S :
         /\ Rank(d, S, i) \in Nat
         /\ Rank(d, S \cup {x}, i) \in {Rank(d, S, i), Rank(d, S, i) + 1}
  BY RankMoves
<1>2. ASSUME NEW i \in S, Rank(d, S \cup {x}, i) <= p PROVE Rank(d, S, i) <= p
  BY <1>1, <1>2
<1> QED
  BY <1>2 DEF Behind

\* A row that leaves lets at most one row slip behind.
LEMMA LeavingPulls ==
    ASSUME NEW d, NEW S \in SUBSET Nat, IsFiniteSet(S), NEW x \in Nat \ S,
           NEW p \in Nat, NEW U \in SUBSET (S \cup {x})
    PROVE  /\ Cardinality(Behind(d, S, p, U \cap S)) \in Nat
           /\ Cardinality(Behind(d, S \cup {x}, p, U)) \in Nat
           /\ Cardinality(Behind(d, S, p, U \cap S))
                <= Cardinality(Behind(d, S \cup {x}, p, U)) + 1
<1> DEFINE New == Behind(d, S, p, U \cap S)
           Old == Behind(d, S \cup {x}, p, U)
<1>1. \A i \in S :
         /\ Rank(d, S, i) \in Nat
         /\ Rank(d, S \cup {x}, i) \in {Rank(d, S, i), Rank(d, S, i) + 1}
  BY RankMoves
<1>2. \A i \in New : i \in S /\ (i \in Old \/ Rank(d, S, i) = p)
  BY <1>1 DEF Behind
<1>3. \E y : New \subseteq Old \cup {y}
  <2>1. CASE \E y \in New : y \notin Old
    <3>1. PICK y \in New : y \notin Old
      BY <2>1
    <3>2. ASSUME NEW i \in New, i \notin Old PROVE i = y
      <4>1. i \in S /\ y \in S /\ Rank(d, S, i) = Rank(d, S, y)
        BY <1>2, <3>1, <3>2
      <4> QED
        BY <4>1, RanksDiffer
    <3> QED
      BY <3>2
  <2> QED
    BY <2>1
<1>4. IsFiniteSet(Old)
  <2>1. IsFiniteSet(S \cup {x}) /\ Old \subseteq S \cup {x}
    BY FS_AddElement DEF Behind
  <2> QED
    BY <2>1, SubsetCardinality
<1> QED
  BY <1>3, <1>4, OneMore

\* And puts none ahead that was not.
LEMMA LeavingKeepsAhead ==
    ASSUME NEW d, NEW S \in SUBSET Nat, IsFiniteSet(S), NEW x \in Nat \ S,
           NEW p \in Nat, NEW U
    PROVE  Ahead(d, S, p, U) \subseteq Ahead(d, S \cup {x}, p, U)
<1>1. \A i \in S :
         /\ Rank(d, S, i) \in Nat
         /\ Rank(d, S \cup {x}, i) \in {Rank(d, S, i), Rank(d, S, i) + 1}
  BY RankMoves
<1>2. ASSUME NEW i \in S, i \in U, Rank(d, S, i) > p PROVE Rank(d, S \cup {x}, i) > p
  BY <1>1, <1>2
<1> QED
  BY <1>2 DEF Ahead

(***************************************************************************)
(* The orders of a list and their pages.                                   *)
(***************************************************************************)

LEMMA AscendingByRank ==
    ASSUME NEW S \in SUBSET Nat, IsFiniteSet(S)
    PROVE  /\ ascending(S) \in Seq(S) /\ Len(ascending(S)) = Cardinality(S)
           /\ \A n \in 1..Cardinality(S) :
                 ascending(S)[n] \in S /\ Rank("ASC", S, ascending(S)[n]) = n
<1> DEFINE c == Cardinality(S)
<1>1. c \in Nat
  BY FS_CardinalityType
<1>2. \A i : Rank("ASC", S, i) = Cardinality({j \in S : j <= i})
  BY DEF Rank, Upto, Precedes
<1>3. \A n \in 1..c : \E i \in S : Cardinality({j \in S : j <= i}) = n
  BY <1>2, RanksAll
<1>4. \A n \in 1..c : ascending(S)[n] \in S /\ Cardinality({j \in S : j <= ascending(S)[n]}) = n
  BY <1>3 DEF ascending
<1>5. ascending(S) \in [1..c -> S]
  BY <1>4 DEF ascending
<1>6. \A n \in 1..c : Rank("ASC", S, ascending(S)[n]) = n
  BY <1>2, <1>4
<1>7. ascending(S) \in Seq(S) /\ Len(ascending(S)) = c
  BY <1>1, <1>5
<1> QED
  BY <1>4, <1>6, <1>7

LEMMA RanksOpposite ==
    ASSUME NEW S \in SUBSET Nat, IsFiniteSet(S), NEW i \in S, NEW d, d # "ASC"
    PROVE  Rank("ASC", S, i) + Rank(d, S, i) = Cardinality(S) + 1
<1> DEFINE A == Upto("ASC", S, i)
           B == Upto(d, S, i)
<1>1. IsFiniteSet(A) /\ IsFiniteSet(B) /\ Cardinality(A) \in Nat /\ Cardinality(B) \in Nat
  BY RankType, FS_CardinalityType
<1>2. i \in Int /\ \A k \in S : k \in Int
  OBVIOUS
<1>3. \A k : (k \in A <=> k \in S /\ k <= i) /\ (k \in B <=> k \in S /\ k >= i)
  BY DEF Upto, Precedes
<1>4. Rank("ASC", S, i) = Cardinality(A) /\ Rank(d, S, i) = Cardinality(B)
  BY DEF Rank
<1> HIDE DEF A, B
<1>5. A \cup B = S
  <2>1. ASSUME NEW k \in S PROVE k \in A \/ k \in B
    <3>1. k \in Int /\ (k <= i \/ k >= i)
      BY <1>2
    <3> QED
      BY <1>3, <3>1
  <2>2. A \subseteq S /\ B \subseteq S
    BY <1>3
  <2> QED
    BY <2>1, <2>2
<1>6. A \cap B = {i}
  <2>1. i \in A /\ i \in B
    BY <1>2, <1>3
  <2>2. ASSUME NEW k \in A, k \in B PROVE k = i
    <3>1. k \in S /\ k <= i /\ k >= i
      BY <1>3, <2>2
    <3> QED
      BY <1>2, <3>1
  <2> QED
    BY <2>1, <2>2
<1>7. Cardinality(A \cap B) = 1
  BY <1>6, FS_Singleton
<1>8. Cardinality(A \cup B) = Cardinality(A) + Cardinality(B) - Cardinality(A \cap B)
  BY <1>1, FS_Union
<1> QED
  <2>1. Cardinality(S) = Cardinality(A) + Cardinality(B) - 1
    BY <1>5, <1>7, <1>8
  <2> QED
    BY <1>1, <1>4, <2>1

LEMMA OrderByRank ==
    ASSUME NEW S \in SUBSET Nat, IsFiniteSet(S), NEW q, q.order_by = "id", NEW r,
           NEW s \in orderBy(S, q, r)
    PROVE  /\ s \in Seq(S) /\ Len(s) = Cardinality(S)
           /\ \A n \in 1..Cardinality(S) : s[n] \in S /\ Rank(q.direction, S, s[n]) = n
<1> DEFINE c == Cardinality(S)
           d == q.direction
<1>1. s = IF d = "ASC" THEN ascending(S) ELSE Reverse(ascending(S))
  BY DEF orderBy
<1>2. CASE d = "ASC"
  BY <1>1, <1>2, AscendingByRank
<1>3. CASE d # "ASC"
  <2>1. c \in Nat
    BY FS_CardinalityType
  <2>2. s = [n \in 1..c |-> ascending(S)[(c - n) + 1]]
    BY <1>1, <1>3, AscendingByRank DEF Reverse
  <2>3. ASSUME NEW n \in 1..c PROVE s[n] \in S /\ Rank(d, S, s[n]) = n
    <3>1. (c - n) + 1 \in 1..c /\ s[n] = ascending(S)[(c - n) + 1]
      BY <2>1, <2>2
    <3>2. s[n] \in S /\ Rank("ASC", S, s[n]) = (c - n) + 1
      BY <3>1, AscendingByRank
    <3>3. Rank(d, S, s[n]) \in Nat
      BY <3>2, RankType
    <3>4. Rank("ASC", S, s[n]) + Rank(d, S, s[n]) = c + 1
      BY <1>3, <3>2, RanksOpposite
    <3> QED
      BY <2>1, <3>2, <3>3, <3>4
  <2>4. s \in [1..c -> S]
    BY <2>2, <2>3
  <2> QED
    BY <1>3, <2>1, <2>3, <2>4
<1> QED
  BY <1>2, <1>3

\* In any order, a list shows each id once.
LEMMA OrderOnce ==
    ASSUME NEW S \in SUBSET Nat, IsFiniteSet(S), NEW q, NEW r, NEW s \in orderBy(S, q, r)
    PROVE  s \in Seq(S) /\ Len(s) = Cardinality(S)
<1>1. CASE q.order_by = "id"
  BY <1>1, OrderByRank
<1>2. CASE q.order_by # "id"
  <2>1. s \in [1..Cardinality(S) -> S] /\ Cardinality(S) \in Nat
    BY <1>2, FS_CardinalityType DEF orderBy, SetToSeqs
  <2> QED
    BY <2>1
<1> QED
  BY <1>1, <1>2

LEMMA PageOf ==
    ASSUME NEW S, NEW s \in Seq(S), NEW skip \in Nat, NEW take \in Nat
    PROVE  LET page == SkipTake(s, skip, take)
           IN  /\ page \in Seq(S) /\ Len(page) \in 0..take
               /\ DOMAIN page = 1..Len(page)
               /\ \A m \in DOMAIN page : skip + m \in 1..Len(s) /\ page[m] = s[skip + m]
               /\ \A n \in 1..Len(s) : skip < n /\ n <= skip + take => n - skip \in DOMAIN page
<1> DEFINE page == SkipTake(s, skip, take)
           end == IF skip + take < Len(s) THEN skip + take ELSE Len(s)
<1>1. Len(s) \in Nat /\ end \in Nat /\ end <= Len(s) /\ end <= skip + take
  BY LenProperties
<1>2. \A n \in skip + 1..end : s[n] \in S
  BY <1>1, ElementOfSeq
<1>3. page = SubSeq(s, skip + 1, end)
  BY DEF SkipTake
<1>4. /\ page \in Seq(S)
      /\ Len(page) = IF skip + 1 <= end THEN end - skip ELSE 0
      /\ \A m \in 1..(end - (skip + 1) + 1) : page[m] = s[(skip + 1) + m - 1]
  <2> HIDE DEF end
  <2>1. skip + 1 \in Int /\ end \in Int
    BY <1>1
  <2> QED
    BY <1>2, <1>3, <1>1, <2>1, SubSeqProperties
<1>5. DOMAIN page = 1..Len(page)
  BY <1>4, LenProperties
<1> HIDE DEF page
<1> QED
  BY <1>1, <1>4, <1>5 DEF page

\* In the order of the ids, a page is the rows whose ranks are its places.
Between(d, S, skip, take) ==
    {i \in S : skip < Rank(d, S, i) /\ Rank(d, S, i) <= skip + take}

LEMMA PageByRank ==
    ASSUME NEW S \in SUBSET Nat, IsFiniteSet(S), NEW q, q.order_by = "id", NEW r,
           NEW s \in orderBy(S, q, r), NEW skip \in Nat, NEW take \in Nat
    PROVE  LET page == SkipTake(s, skip, take)
           IN  /\ ToSet(page) = Between(q.direction, S, skip, take)
               /\ IsFiniteSet(DOMAIN page)
               /\ Cardinality(DOMAIN page) = Cardinality(ToSet(page))
<1> DEFINE page == SkipTake(s, skip, take)
           d == q.direction
<1>1. /\ s \in Seq(S) /\ Len(s) = Cardinality(S) /\ Cardinality(S) \in Nat
      /\ \A n \in 1..Len(s) : s[n] \in S /\ Rank(d, S, s[n]) = n
  BY OrderByRank, FS_CardinalityType
<1>2. /\ page \in Seq(S) /\ Len(page) \in 0..take /\ DOMAIN page = 1..Len(page)
      /\ \A m \in DOMAIN page : skip + m \in 1..Len(s) /\ page[m] = s[skip + m]
      /\ \A n \in 1..Len(s) : skip < n /\ n <= skip + take => n - skip \in DOMAIN page
  BY <1>1, PageOf
<1> HIDE DEF page, d
<1>3. ToSet(page) = {page[m] : m \in DOMAIN page}
  BY DEF ToSet
<1>4. \A m \in DOMAIN page : page[m] \in S /\ Rank(d, S, page[m]) = skip + m /\ m \in 1..take
  BY <1>1, <1>2
<1>5. ToSet(page) \subseteq Between(d, S, skip, take)
  BY <1>3, <1>4 DEF Between
<1>6. ASSUME NEW i \in Between(d, S, skip, take) PROVE i \in ToSet(page)
  <2>1. PICK n : n = Rank(d, S, i)
    OBVIOUS
  <2>2. i \in S /\ n \in 1..Len(s) /\ skip < n /\ n <= skip + take
    BY <1>1, <2>1, RankType DEF Between
  <2>3. PICK j \in S : j = s[n] /\ Rank(d, S, j) = Rank(d, S, i)
    BY <1>1, <2>1, <2>2
  <2>4. j = i
    BY <2>2, <2>3, RanksDiffer
  <2>5. n - skip \in DOMAIN page /\ page[n - skip] = s[n]
    BY <1>2, <2>2
  <2> QED
    BY <1>3, <2>3, <2>4, <2>5
<1>7. IsFiniteSet(DOMAIN page)
  BY <1>2, FS_Interval
<1>8. Cardinality(DOMAIN page) = Cardinality(ToSet(page))
  <2>1. \A m, n \in DOMAIN page : page[m] = page[n] => m = n
    BY <1>4
  <2>2. page \in [DOMAIN page -> ToSet(page)]
    BY <1>2, <1>3, LenProperties
  <2>3. /\ page \in Surjection(DOMAIN page, ToSet(page))
        /\ page \in Injection(DOMAIN page, ToSet(page))
    BY <2>1, <2>2, <1>3 DEF Surjection, Injection, IsInjective
  <2> QED
    BY <1>7, <2>3, FS_Surjection
<1> QED
  BY <1>5, <1>6, <1>7, <1>8 DEF page, d

(***************************************************************************)
(* Types.                                                                  *)
(***************************************************************************)

RowOK(i, row) == {"id", "deleted"} \subseteq DOMAIN row /\ row.id = i /\ row.deleted \in BOOLEAN
Table(r) ==
    /\ IsFiniteSet(DOMAIN r) /\ DOMAIN r = 1..Cardinality(DOMAIN r)
    /\ \A i \in DOMAIN r : RowOK(i, r[i])
Answer == [page : Nat, shown : Seq(DOMAIN rows)]
TypeInv ==
    /\ feature \in Features /\ Table(rows)
    /\ IF Walking
       THEN /\ query \in Queries(feature) /\ pages # <<>>
            /\ stayed \subseteq Selected(feature, query, rows)
       ELSE pages = <<>> /\ stayed = {}
    /\ pages \in Seq(Answer) /\ total \in Nat \cup {None}
    /\ \A n \in DOMAIN pages : pages[n].page = n /\ Len(pages[n].shown) <= query.limit
    /\ changes \in 0..MaxChanges /\ entered \in 0..changes /\ left \in 0..changes

LEMMA TypeInvIs == TypeInv => TypeOK
<1> SUFFICES ASSUME TypeInv PROVE TypeOK
  OBVIOUS
<1>1. \A i \in DOMAIN rows : rows[i].id = i /\ rows[i].deleted \in BOOLEAN
  BY DEF TypeInv, Table, RowOK
<1>2. Walking => DOMAIN query.filter = Fields[feature] /\ query.limit \in Nat \ {0}
  BY ListingAssumption DEF TypeInv
<1>3. \A n \in DOMAIN pages :
         /\ pages[n].page = n
         /\ pages[n].shown \in Seq(DOMAIN rows) /\ Len(pages[n].shown) <= query.limit
  <2>1. \A n \in DOMAIN pages : pages[n] \in Answer
    BY LenProperties DEF TypeInv
  <2> QED
    BY <2>1 DEF TypeInv, Answer
<1>4. changes \in 0..MaxChanges /\ entered \in 0..MaxChanges /\ left \in 0..MaxChanges
  BY ListingAssumption DEF TypeInv
<1>5. stayed \subseteq DOMAIN rows
  BY DEF TypeInv, Selected
<1> QED
  BY <1>1, <1>2, <1>3, <1>4, <1>5 DEF TypeOK, TypeInv

LEMMA TypeStarts == Init => TypeInv
<1> SUFFICES ASSUME Init PROVE TypeInv
  OBVIOUS
<1>1. Table(rows)
  BY ListingAssumption DEF Init, Table, RowOK
<1>2. pages \in Seq(Answer) /\ DOMAIN pages = {}
  BY DEF Init
<1> QED
  BY <1>1, <1>2, ListingAssumption DEF Init, TypeInv, Walking

\* What a page of the rows adds to the pages.
LEMMA AnswerIs ==
    ASSUME Table(rows), NEW q, q.limit \in Nat \ {0}, NEW page \in Nat \ {0},
           pages \in Seq(Answer), findByFilter(q, page)
    PROVE  LET S == Selected(feature, q, rows)
               skip == (page - 1) * q.limit
           IN  /\ S \in SUBSET Nat /\ IsFiniteSet(S) /\ Cardinality(S) \in Nat /\ skip \in Nat
               /\ \E s \in orderBy(S, q, rows) :
                     LET a == [page |-> page, shown |-> SkipTake(s, skip, q.limit)]
                     IN  /\ pages' = Append(pages, a) /\ a \in Answer
                         /\ Len(a.shown) <= q.limit
<1> DEFINE S == Selected(feature, q, rows)
           skip == (page - 1) * q.limit
<1>1. S \subseteq DOMAIN rows
  BY DEF Selected
<1>2. IsFiniteSet(DOMAIN rows) /\ DOMAIN rows \subseteq Nat
  BY FS_CardinalityType DEF Table
<1>3. S \in SUBSET Nat /\ IsFiniteSet(S) /\ Cardinality(S) \in Nat
  BY <1>1, <1>2, SubsetCardinality
<1>4. skip \in Nat
  <2>1. page - 1 \in Nat
    OBVIOUS
  <2> QED
    BY <2>1
<1>5. PICK s \in orderBy(S, q, rows) :
         pages' = Append(pages, [page |-> page, shown |-> SkipTake(s, skip, q.limit)])
  BY DEF findByFilter, pagination
<1> HIDE DEF S, skip
<1>6. SkipTake(s, skip, q.limit) \in Seq(S) /\ Len(SkipTake(s, skip, q.limit)) \in 0..q.limit
  <2>1. s \in Seq(S)
    BY <1>3, OrderOnce
  <2> QED
    BY <1>4, <2>1, PageOf
<1>7. SkipTake(s, skip, q.limit) \in Seq(DOMAIN rows)
  BY <1>1, <1>6 DEF S
<1> QED
  BY <1>3, <1>4, <1>5, <1>6, <1>7 DEF Answer, S, skip

LEMMA Appended ==
    ASSUME NEW T, NEW ps \in Seq(T), NEW a \in T
    PROVE  LET qs == Append(ps, a)
           IN  /\ qs \in Seq(T) /\ qs # <<>> /\ Len(qs) = Len(ps) + 1 /\ Last(qs) = a
               /\ DOMAIN qs = 1..Len(ps) + 1 /\ DOMAIN ps = 1..Len(ps) /\ Len(ps) \in Nat
               /\ \A n \in 1..Len(ps) : qs[n] = ps[n]
               /\ qs[Len(ps) + 1] = a
BY AppendProperties, LenProperties DEF Last

(***************************************************************************)
(* A change of the table touches one row, so that one row at most enters   *)
(* or leaves a list.                                                       *)
(***************************************************************************)

OneRow(r, x) ==
    /\ DOMAIN rows \subseteq DOMAIN r /\ DOMAIN r \subseteq DOMAIN rows \cup {x}
    /\ \A i \in DOMAIN rows : i # x => r[i] = rows[i]

LEMMA ChangeIs ==
    ASSUME Table(rows), Insert \/ Delete \/ Restore
    PROVE  \E r : Change(r) /\ Table(r) /\ \E x \in Nat : OneRow(r, x)
<1> DEFINE D == DOMAIN rows
           c == Cardinality(D)
<1>1. IsFiniteSet(D) /\ D = 1..c /\ c \in Nat
  BY FS_CardinalityType DEF Table
<1>2. CASE Insert
  <2> DEFINE n == c + 1
             new(i) == [rows[i] EXCEPT !.id = n, !.deleted = FALSE]
             with(i) == [j \in D \cup {n} |-> IF j = n THEN new(i) ELSE rows[j]]
  <2>1. PICK i \in D : Change(with(i))
    BY <1>2 DEF Insert
  <2>2. RowOK(n, new(i))
    <3>1. {"id", "deleted"} \subseteq DOMAIN rows[i]
      BY DEF Table, RowOK
    <3> QED
      BY <3>1 DEF RowOK
  <2>3. PICK r : r = with(i)
    OBVIOUS
  <2>4. /\ DOMAIN r = D \cup {n} /\ r[n] = new(i)
        /\ \A j \in D : j # n => r[j] = rows[j]
    BY <2>3
  <2>5. n \notin D /\ D \cup {n} = 1..n /\ n \in Nat
    BY <1>1
  <2>6. IsFiniteSet(D \cup {n}) /\ Cardinality(D \cup {n}) = n
    BY <1>1, <2>5, FS_AddElement
  <2>7. \A j \in DOMAIN r : RowOK(j, r[j])
    BY <2>2, <2>4 DEF Table
  <2>8. Table(r)
    BY <2>4, <2>5, <2>6, <2>7 DEF Table
  <2>9. OneRow(r, n)
    BY <2>4 DEF OneRow
  <2> QED
    BY <2>1, <2>3, <2>5, <2>8, <2>9
<1>3. ASSUME NEW i \in D, NEW r,
             r = [rows EXCEPT ![i].deleted = TRUE] \/ r = [rows EXCEPT ![i].deleted = FALSE]
      PROVE  Table(r) /\ OneRow(r, i)
  <2>1. PICK b \in BOOLEAN : r = [rows EXCEPT ![i].deleted = b]
    BY <1>3
  <2>2. /\ DOMAIN r = D /\ r[i] = [rows[i] EXCEPT !.deleted = b]
        /\ \A j \in D : j # i => r[j] = rows[j]
    BY <2>1
  <2>3. \A j \in D : RowOK(j, rows[j])
    BY DEF Table
  <2>4. RowOK(i, r[i])
    BY <2>2, <2>3 DEF RowOK
  <2>5. Table(r)
    BY <1>1, <2>2, <2>3, <2>4 DEF Table
  <2> QED
    BY <2>2, <2>5 DEF OneRow
<1>4. CASE Delete
  <2>1. PICK i \in D : Change([rows EXCEPT ![i].deleted = TRUE])
    BY <1>4 DEF Delete
  <2> QED
    BY <1>1, <1>3, <2>1
<1>5. CASE Restore
  <2>1. PICK i \in D : Change([rows EXCEPT ![i].deleted = FALSE])
    BY <1>5 DEF Restore
  <2> QED
    BY <1>1, <1>3, <2>1
<1> QED
  BY <1>2, <1>4, <1>5

LEMMA OneEntersOrLeaves ==
    ASSUME NEW r, NEW x \in Nat, OneRow(r, x), NEW f, NEW q
    PROVE  LET was == Selected(f, q, rows)
               is == Selected(f, q, r)
           IN  \/ is = was /\ Cardinality(is \ was) = 0 /\ Cardinality(was \ is) = 0
               \/ /\ x \notin was /\ is = was \cup {x}
                  /\ Cardinality(is \ was) = 1 /\ Cardinality(was \ is) = 0
               \/ /\ x \notin is /\ was = is \cup {x}
                  /\ Cardinality(is \ was) = 0 /\ Cardinality(was \ is) = 1
<1> DEFINE was == Selected(f, q, rows)
           is == Selected(f, q, r)
<1>1. \A i : i # x => (i \in was <=> i \in is)
  BY DEF Selected, OneRow
<1> HIDE DEF was, is
<1>2. CASE x \in was <=> x \in is
  <2>1. is = was /\ is \ was = {} /\ was \ is = {}
    BY <1>1, <1>2
  <2> QED
    BY <2>1, FS_EmptySet DEF was, is
<1>3. CASE x \notin was /\ x \in is
  <2>1. is = was \cup {x} /\ is \ was = {x} /\ was \ is = {}
    BY <1>1, <1>3
  <2> QED
    BY <1>3, <2>1, FS_EmptySet, FS_Singleton DEF was, is
<1>4. CASE x \in was /\ x \notin is
  <2>1. was = is \cup {x} /\ is \ was = {} /\ was \ is = {x}
    BY <1>1, <1>4
  <2> QED
    BY <1>4, <2>1, FS_EmptySet, FS_Singleton DEF was, is
<1> QED
  BY <1>2, <1>3, <1>4

LEMMA QueryIs ==
    ASSUME feature \in Features, NEW q \in Queries(feature)
    PROVE  q.limit \in Nat \ {0} /\ q # None
BY ListingAssumption

LEMMA TypeAnswers ==
    ASSUME TypeInv, NEW q \in Queries(feature), NEW page \in Nat \ {0}, page = Len(pages) + 1,
           Walking => q = query, findByFilter(q, page), query' = q,
           UNCHANGED <<feature, rows, changes, entered, left>>,
           stayed' \subseteq Selected(feature, q, rows)
    PROVE  TypeInv'
<1>1. q.limit \in Nat \ {0} /\ q # None
  BY QueryIs DEF TypeInv
<1>2. PICK a \in Answer : pages' = Append(pages, a) /\ a.page = page /\ Len(a.shown) <= q.limit
  <2>1. pages \in Seq(Answer) /\ Table(rows)
    BY DEF TypeInv
  <2> QED
    BY <1>1, <2>1, AnswerIs
<1>3. /\ pages' \in Seq(Answer) /\ pages' # <<>>
      /\ DOMAIN pages' = 1..page /\ DOMAIN pages = 1..Len(pages)
      /\ \A n \in DOMAIN pages : pages'[n] = pages[n]
      /\ pages'[page] = a /\ Len(pages) \in Nat
  BY <1>2, Appended DEF TypeInv
<1>4. \A n \in DOMAIN pages' : pages'[n].page = n /\ Len(pages'[n].shown) <= q.limit
  <2>1. ASSUME NEW n \in DOMAIN pages'
        PROVE  pages'[n].page = n /\ Len(pages'[n].shown) <= q.limit
    <3>1. CASE n = page
      BY <1>2, <1>3, <3>1
    <3>2. CASE n # page
      <4>1. n \in DOMAIN pages
        BY <1>3, <3>2
      <4>2. q = query
        BY <4>1 DEF TypeInv
      <4> QED
        BY <1>3, <4>1, <4>2 DEF TypeInv
    <3> QED
      BY <3>1, <3>2
  <2> QED
    BY <2>1
<1>5. Answer' = Answer /\ Walking' /\ Table(rows)' /\ total' = None
  BY <1>1 DEF Answer, Walking, Table, TypeInv, RowOK, findByFilter
<1>6. stayed' \subseteq Selected(feature', query', rows')
  OBVIOUS
<1> QED
  BY <1>3, <1>4, <1>5, <1>6 DEF TypeInv

LEMMA TypeChanges ==
    ASSUME TypeInv, NEW r, NEW x \in Nat, Change(r), Table(r), OneRow(r, x)
    PROVE  TypeInv'
<1> DEFINE was == Selected(feature, query, rows)
           is == Selected(feature, query, r)
<1>1. /\ Cardinality(is \ was) \in 0..1 /\ Cardinality(was \ is) \in 0..1
  BY OneEntersOrLeaves
<1>2. /\ rows' = r /\ changes' = changes + 1 /\ changes < MaxChanges
      /\ stayed' = stayed \cap is
      /\ entered' = entered + Cardinality(is \ was) /\ left' = left + Cardinality(was \ is)
      /\ feature' = feature /\ query' = query /\ pages' = pages /\ total' = total /\ Walking
  BY DEF Change
<1>3. changes' \in 0..MaxChanges /\ entered' \in 0..changes' /\ left' \in 0..changes'
  <2> HIDE DEF was, is
  <2> QED
    BY <1>1, <1>2, ListingAssumption DEF TypeInv
<1>4. pages' \in Seq(Answer')
  <2>1. DOMAIN rows \subseteq DOMAIN rows'
    BY <1>2 DEF OneRow
  <2>2. Seq(DOMAIN rows) \subseteq Seq(DOMAIN rows')
    BY <2>1
  <2>3. Answer \subseteq Answer'
    BY <2>2 DEF Answer
  <2>4. pages \in Seq(Answer)
    BY DEF TypeInv
  <2> QED
    BY <1>2, <2>3, <2>4
<1>5. Table(rows)'
  BY <1>2 DEF Table, RowOK
<1>6. stayed' \subseteq Selected(feature', query', rows')
  BY <1>2
<1> QED
  BY <1>2, <1>3, <1>4, <1>5, <1>6 DEF TypeInv, Walking

\* Whatever starts or goes on with a walk reads a page or a number, and all else is one
\* change.
LEMMA Kinds ==
    ASSUME TypeInv, Next
    PROVE  \/ Ask \/ Count \/ NextPage
           \/ \E r : \E x \in Nat : Change(r) /\ Table(r) /\ OneRow(r, x)
BY ChangeIs DEF Next, TypeInv

LEMMA TypeSteps == TypeInv /\ [Next]_vars => TypeInv'
<1> SUFFICES ASSUME TypeInv, [Next]_vars PROVE TypeInv'
  OBVIOUS
<1>1. CASE Ask
  <2>1. pages = <<>> /\ Len(pages) = 0 /\ ~Walking
    BY <1>1 DEF Ask, TypeInv
  <2>2. PICK q \in Queries(feature) : query' = q /\ findByFilter(q, 1)
                                      /\ stayed' = Selected(feature, q, rows)
    BY <1>1 DEF Ask
  <2> QED
    BY <1>1, <2>1, <2>2, TypeAnswers DEF Ask
<1>2. CASE NextPage
  <2>1. /\ Walking /\ findByFilter(query, Len(pages) + 1) /\ Len(pages) + 1 \in Nat \ {0}
        /\ query' = query /\ UNCHANGED <<feature, rows, changes, entered, left>>
        /\ stayed' = stayed
    BY <1>2, LenProperties DEF NextPage, TypeInv
  <2>2. query \in Queries(feature) /\ stayed \subseteq Selected(feature, query, rows)
    BY <2>1 DEF TypeInv
  <2> QED
    BY <2>1, <2>2, TypeAnswers
<1>3. CASE \E r : \E x \in Nat : Change(r) /\ Table(r) /\ OneRow(r, x)
  BY <1>3, TypeChanges
<1>4. CASE Count
  <2>1. total' \in Nat
    <3>1. Selected(feature, query, rows) \subseteq DOMAIN rows /\ IsFiniteSet(DOMAIN rows)
      BY DEF Selected, TypeInv, Table
    <3> QED
      BY <1>4, <3>1, SubsetCardinality DEF Count
  <2> QED
    BY <1>4, <2>1 DEF Count, TypeInv, Walking, Table, RowOK, Answer, Selected
<1>5. CASE UNCHANGED vars
  BY <1>5 DEF vars, TypeInv, Walking, Table, RowOK, Answer, Selected
<1> QED
  BY <1>1, <1>2, <1>3, <1>4, <1>5, Kinds

\* The tables keep the ids they gave, no page has more rows than were asked for,
\* and all that was shown is there.
THEOREM TypeCorrect == Spec => []TypeOK
<1> QED
  BY TypeStarts, TypeSteps, TypeInvIs, PTL DEF Spec

(***************************************************************************)
(* The walk. What was shown twice, and what was shown and is ahead again,  *)
(* entered; what was not shown and is behind follows a row that left.      *)
(***************************************************************************)

Passed(q) == Len(pages) * q.limit
Repeats(q) ==
    Cardinality(Places) - Cardinality(Seen)
        + Cardinality(Ahead(q.direction, Selected(feature, q, rows), Passed(q), Seen)) <= entered
Misses(q, here) ==
    Cardinality(Behind(q.direction, Selected(feature, q, rows), Passed(q), here \ Seen)) <= left
Drift ==
    /\ Finished => Cardinality(Selected(feature, query, rows)) <= Passed(query)
    /\ Walking /\ query.order_by = "id" => Repeats(query) /\ Misses(query, stayed)

LEMMA SeenIs ==
    ASSUME TypeInv
    PROVE  /\ IsFiniteSet(Places) /\ Cardinality(Places) \in Nat
           /\ IsFiniteSet(Seen) /\ Cardinality(Seen) \in Nat
           /\ DOMAIN pages = 1..Len(pages) /\ Len(pages) \in Nat
<1>1. /\ DOMAIN pages = 1..Len(pages) /\ Len(pages) \in Nat
      /\ \A n \in DOMAIN pages : pages[n] \in Answer
  BY LenProperties DEF TypeInv
<1>2. \A n \in DOMAIN pages : /\ pages[n].shown \in Seq(DOMAIN rows)
                              /\ Len(pages[n].shown) <= query.limit
  BY <1>1 DEF Answer, TypeInv
<1>3. Seen \subseteq DOMAIN rows
  BY <1>2, LenProperties DEF Seen, ToSet
<1>4. IsFiniteSet(Seen)
  BY <1>3, SubsetCardinality DEF TypeInv, Table
<1>5. IsFiniteSet(Places)
  <2>1. CASE DOMAIN pages = {}
    <3>1. Places = {}
      BY <2>1 DEF Places
    <3> QED
      BY <3>1, FS_EmptySet
  <2>2. CASE DOMAIN pages # {}
    <3>1. Walking
      BY <2>2 DEF TypeInv
    <3>2. query.limit \in Nat
      BY <3>1, QueryIs DEF TypeInv
    <3>3. ASSUME NEW n \in DOMAIN pages
          PROVE  {n} \X DOMAIN pages[n].shown \subseteq (1..Len(pages)) \X (1..query.limit)
      <4>1. DOMAIN pages[n].shown = 1..Len(pages[n].shown) /\ Len(pages[n].shown) \in Nat
        BY <1>2, LenProperties
      <4>2. Len(pages[n].shown) <= query.limit
        BY <1>2
      <4>3. DOMAIN pages[n].shown \subseteq 1..query.limit
        <5>1. PICK k \in Nat : k = Len(pages[n].shown) /\ k <= query.limit
          BY <4>1, <4>2
        <5>2. 1..k \subseteq 1..query.limit
          BY <3>2, <5>1
        <5> QED
          BY <4>1, <5>1, <5>2
      <4> QED
        BY <1>1, <4>3
    <3>4. Places \subseteq (1..Len(pages)) \X (1..query.limit)
      BY <3>3 DEF Places
    <3>5. IsFiniteSet((1..Len(pages)) \X (1..query.limit))
      <4>1. 1 \in Int /\ Len(pages) \in Int /\ query.limit \in Int
        BY <1>1, <3>2
      <4>2. IsFiniteSet(1..Len(pages))
        BY <4>1, FS_Interval
      <4>3. IsFiniteSet(1..query.limit)
        BY <4>1, FS_Interval
      <4> QED
        BY <4>2, <4>3, FS_Product
    <3> QED
      BY <3>4, <3>5, SubsetCardinality
  <2> QED
    BY <2>1, <2>2
<1> QED
  BY <1>1, <1>4, <1>5, FS_CardinalityType

\* The pages and what they show grow by one page.
LEMMA PageAdds ==
    ASSUME TypeInv, NEW a \in Answer, pages' = Append(pages, a), IsFiniteSet(DOMAIN a.shown)
    PROVE  /\ Seen' = Seen \cup ToSet(a.shown)
           /\ Cardinality(Places') = Cardinality(Places) + Cardinality(DOMAIN a.shown)
<1> DEFINE n == Len(pages) + 1
           D == DOMAIN a.shown
<1>1. /\ DOMAIN pages' = 1..n /\ DOMAIN pages = 1..Len(pages) /\ Len(pages) \in Nat
      /\ pages'[n] = a /\ \A k \in 1..Len(pages) : pages'[k] = pages[k]
  BY Appended DEF TypeInv
<1>2. 1..n = (1..Len(pages)) \cup {n} /\ n \notin 1..Len(pages)
  BY <1>1
<1>3. Seen' = Seen \cup ToSet(a.shown)
  BY <1>1, <1>2 DEF Seen
<1>4. Places' = Places \cup ({n} \X D)
  BY <1>1, <1>2 DEF Places
<1>5. Places \cap ({n} \X D) = {}
  BY <1>1, <1>2 DEF Places
<1>6. IsFiniteSet({n}) /\ Cardinality({n}) = 1
  BY FS_Singleton
<1>7. Cardinality(D) \in Nat
  BY FS_CardinalityType
<1>8. IsFiniteSet({n} \X D) /\ Cardinality({n} \X D) = Cardinality(D)
  <2>1. IsFiniteSet({n} \X D) /\ Cardinality({n} \X D) = Cardinality({n}) * Cardinality(D)
    BY <1>6, FS_Product
  <2> QED
    BY <1>6, <1>7, <2>1
<1>9. Cardinality(Places') = Cardinality(Places) + Cardinality({n} \X D) - 0
  <2>1. Cardinality(Places \cap ({n} \X D)) = 0
    BY <1>5, FS_EmptySet
  <2> QED
    BY <1>4, <1>8, <2>1, SeenIs, FS_Union
<1> QED
  BY <1>3, <1>7, <1>8, <1>9, SeenIs

\* The step from one page to the next takes as many from those ahead as it repeats,
\* and puts nothing behind that was not shown.
LEMMA WalkOn ==
    ASSUME NEW d, NEW S \in SUBSET Nat, IsFiniteSet(S), NEW p \in Nat, NEW take \in Nat,
           NEW U, IsFiniteSet(U), NEW W \in SUBSET S
    PROVE  LET T == Between(d, S, p, take)
           IN  /\ IsFiniteSet(T) /\ Cardinality(T) \in Nat
               /\ Cardinality(U \cup T) \in Nat
               /\ Cardinality(Ahead(d, S, p, U)) \in Nat
               /\ Cardinality(Ahead(d, S, p + take, U \cup T)) \in Nat
               /\ Cardinality(T) - Cardinality(U \cup T)
                    + Cardinality(Ahead(d, S, p + take, U \cup T))
                  = Cardinality(Ahead(d, S, p, U)) - Cardinality(U)
               /\ Cardinality(Behind(d, S, p + take, W \ (U \cup T))) \in Nat
               /\ Cardinality(Behind(d, S, p, W \ U)) \in Nat
               /\ Cardinality(Behind(d, S, p + take, W \ (U \cup T)))
                    <= Cardinality(Behind(d, S, p, W \ U))
<1> DEFINE T == Between(d, S, p, take)
           Old == Ahead(d, S, p, U)
           New == Ahead(d, S, p + take, U \cup T)
<1>1. \A i \in S : Rank(d, S, i) \in Nat
  BY RankType
<1>2. T \subseteq S /\ Old \subseteq S /\ New \subseteq S
  BY DEF Between, Ahead
<1>3. /\ IsFiniteSet(T) /\ Cardinality(T) \in Nat /\ IsFiniteSet(New) /\ Cardinality(New) \in Nat
      /\ IsFiniteSet(Old) /\ Cardinality(Old) \in Nat
  BY <1>2, SubsetCardinality
<1>4. /\ Cardinality(U) \in Nat /\ IsFiniteSet(U \cup T) /\ Cardinality(U \cup T) \in Nat
      /\ Cardinality(U \cup T) = Cardinality(U) + Cardinality(T) - Cardinality(U \cap T)
  BY <1>3, FS_Union, FS_CardinalityType
<1>5. Old = New \cup (U \cap T) /\ New \cap (U \cap T) = {}
  <2>1. ASSUME NEW i \in S
        PROVE  /\ Rank(d, S, i) > p + take => Rank(d, S, i) > p
               /\ Rank(d, S, i) > p => Rank(d, S, i) > p + take \/ Rank(d, S, i) <= p + take
               /\ ~(Rank(d, S, i) > p + take /\ Rank(d, S, i) <= p + take)
               /\ p < Rank(d, S, i) <=> Rank(d, S, i) > p
    BY <1>1
  <2>2. \A i : i \in Old <=> i \in S /\ i \in U /\ Rank(d, S, i) > p
    BY DEF Ahead
  <2>3. \A i : i \in New <=> i \in S /\ (i \in U \/ i \in T) /\ Rank(d, S, i) > p + take
    BY DEF Ahead
  <2>4. \A i : i \in T <=> i \in S /\ p < Rank(d, S, i) /\ Rank(d, S, i) <= p + take
    BY DEF Between
  <2> HIDE DEF Old, New, T
  <2> QED
    BY <2>1, <2>2, <2>3, <2>4, Zenon
<1>6. Cardinality(New \cap (U \cap T)) = 0
  BY <1>5, FS_EmptySet
<1>7. IsFiniteSet(U \cap T) /\ Cardinality(U \cap T) \in Nat
  BY <1>3, SubsetCardinality, U \cap T \subseteq T
<1>8. Cardinality(Old) = Cardinality(New) + Cardinality(U \cap T)
  <2>1. Cardinality(New \cup (U \cap T))
          = Cardinality(New) + Cardinality(U \cap T) - Cardinality(New \cap (U \cap T))
    BY <1>3, <1>7, FS_Union
  <2> QED
    BY <1>3, <1>5, <1>6, <1>7, <2>1
<1>9. Cardinality(T) - Cardinality(U \cup T) + Cardinality(New) = Cardinality(Old) - Cardinality(U)
  BY <1>3, <1>4, <1>7, <1>8
<1>10. Behind(d, S, p + take, W \ (U \cup T)) \subseteq Behind(d, S, p, W \ U)
  <2>1. ASSUME NEW i \in S, Rank(d, S, i) <= p + take, i \notin T PROVE Rank(d, S, i) <= p
    <3>1. ~(p < Rank(d, S, i))
      BY <2>1 DEF Between
    <3> QED
      BY <1>1, <3>1
  <2> HIDE DEF T
  <2> QED
    BY <2>1 DEF Behind
<1>11. Behind(d, S, p, W \ U) \subseteq S
  BY DEF Behind
<1>12. /\ Cardinality(Behind(d, S, p + take, W \ (U \cup T))) \in Nat
       /\ Cardinality(Behind(d, S, p, W \ U)) \in Nat
       /\ Cardinality(Behind(d, S, p + take, W \ (U \cup T)))
            <= Cardinality(Behind(d, S, p, W \ U))
  BY <1>10, <1>11, SubsetCardinality
<1> QED
  BY <1>3, <1>4, <1>9, <1>12

LEMMA Balance ==
    ASSUME NEW places \in Nat, NEW seen \in Nat, NEW shown \in Nat, NEW all \in Nat,
           NEW was \in Nat, NEW is \in Nat, NEW bound \in Nat,
           shown - all + is = was - seen, places - seen + was <= bound
    PROVE  (places + shown) - all + is <= bound
OBVIOUS

LEMMA DriftAnswers ==
    ASSUME TypeInv, TypeInv', NEW q \in Queries(feature), NEW page \in Nat \ {0},
           page = Len(pages) + 1, findByFilter(q, page), query' = q,
           UNCHANGED <<feature, rows, entered, left>>,
           stayed' \subseteq Selected(feature, q, rows),
           q.order_by = "id" => Repeats(q) /\ Misses(q, stayed')
    PROVE  Drift'
<1> DEFINE S == Selected(feature, q, rows)
           d == q.direction
           take == q.limit
           p == Passed(q)
<1>1. take \in Nat \ {0} /\ q # None
  BY QueryIs DEF TypeInv
<1>2. /\ S \in SUBSET Nat /\ IsFiniteSet(S) /\ Cardinality(S) \in Nat /\ (page - 1) * take \in Nat
      /\ \E s \in orderBy(S, q, rows) :
            LET a == [page |-> page, shown |-> SkipTake(s, (page - 1) * take, take)]
            IN  pages' = Append(pages, a) /\ a \in Answer
  <2>1. pages \in Seq(Answer) /\ Table(rows)
    BY DEF TypeInv
  <2> QED
    BY <1>1, <2>1, AnswerIs
<1>3. Len(pages) \in Nat /\ (page - 1) * take = p /\ p \in Nat
  <2>1. Len(pages) \in Nat /\ page - 1 = Len(pages)
    BY SeenIs
  <2> QED
    BY <1>2, <2>1 DEF Passed
<1>4. PICK s \in orderBy(S, q, rows), a \in Answer :
         /\ pages' = Append(pages, a)
         /\ a = [page |-> page, shown |-> SkipTake(s, p, take)]
  BY <1>2, <1>3
<1>5. Len(pages') = page /\ Last(pages') = a
  BY <1>4, Appended DEF TypeInv
<1>6. Passed(q)' = p + take
  <2>1. Passed(q)' = page * take
    BY <1>5 DEF Passed
  <2>2. page * take = (page - 1) * take + take
    BY <1>1
  <2> QED
    BY <1>3, <2>1, <2>2
<1>7. Selected(feature, query, rows)' = S
  BY DEF Selected
<1>8. ~Finished'
  BY DEF findByFilter, Finished
<1>9. ASSUME q.order_by = "id" PROVE Repeats(q)' /\ Misses(q, stayed)'
  <2> DEFINE T == Between(d, S, p, take)
  <2>1. /\ ToSet(a.shown) = T /\ IsFiniteSet(DOMAIN a.shown)
        /\ Cardinality(DOMAIN a.shown) = Cardinality(T)
    BY <1>1, <1>2, <1>3, <1>4, <1>9, PageByRank
  <2>2. Seen' = Seen \cup T /\ Cardinality(Places') = Cardinality(Places) + Cardinality(T)
    BY <1>4, <2>1, PageAdds
  <2>3. /\ Cardinality(T) \in Nat /\ Cardinality(Seen \cup T) \in Nat
        /\ Cardinality(Ahead(d, S, p, Seen)) \in Nat
        /\ Cardinality(Ahead(d, S, p + take, Seen \cup T)) \in Nat
        /\ Cardinality(T) - Cardinality(Seen \cup T)
             + Cardinality(Ahead(d, S, p + take, Seen \cup T))
           = Cardinality(Ahead(d, S, p, Seen)) - Cardinality(Seen)
        /\ Cardinality(Behind(d, S, p + take, stayed' \ (Seen \cup T))) \in Nat
        /\ Cardinality(Behind(d, S, p, stayed' \ Seen)) \in Nat
        /\ Cardinality(Behind(d, S, p + take, stayed' \ (Seen \cup T)))
             <= Cardinality(Behind(d, S, p, stayed' \ Seen))
    <3>1. /\ S \in SUBSET Nat /\ IsFiniteSet(S) /\ p \in Nat /\ take \in Nat
          /\ IsFiniteSet(Seen) /\ stayed' \in SUBSET S
      BY <1>1, <1>2, <1>3, SeenIs
    <3> HIDE DEF S, p, take, d
    <3>2. PICK L, U, W : L = S /\ U = Seen /\ W = stayed'
      OBVIOUS
    <3>3. /\ L \in SUBSET Nat /\ IsFiniteSet(L) /\ IsFiniteSet(U) /\ W \in SUBSET L
      BY <3>1, <3>2
    <3>4. LET B == Between(d, L, p, take)
          IN  /\ IsFiniteSet(B) /\ Cardinality(B) \in Nat
              /\ Cardinality(U \cup B) \in Nat
              /\ Cardinality(Ahead(d, L, p, U)) \in Nat
              /\ Cardinality(Ahead(d, L, p + take, U \cup B)) \in Nat
              /\ Cardinality(B) - Cardinality(U \cup B)
                   + Cardinality(Ahead(d, L, p + take, U \cup B))
                 = Cardinality(Ahead(d, L, p, U)) - Cardinality(U)
              /\ Cardinality(Behind(d, L, p + take, W \ (U \cup B))) \in Nat
              /\ Cardinality(Behind(d, L, p, W \ U)) \in Nat
              /\ Cardinality(Behind(d, L, p + take, W \ (U \cup B)))
                   <= Cardinality(Behind(d, L, p, W \ U))
      BY <3>1, <3>3, WalkOn
    <3> QED
      BY <3>2, <3>4
  <2>4. entered \in Nat /\ left \in Nat /\ Cardinality(Places) \in Nat /\ Cardinality(Seen) \in Nat
    BY SeenIs DEF TypeInv
  <2>5. /\ Cardinality(Places) - Cardinality(Seen) + Cardinality(Ahead(d, S, p, Seen)) <= entered
        /\ Cardinality(Behind(d, S, p, stayed' \ Seen)) <= left
    BY <1>9 DEF Repeats, Misses
  <2> HIDE DEF T, S, p, take, d
  <2>6. Cardinality(Places') - Cardinality(Seen')
          + Cardinality(Ahead(d, S, p + take, Seen')) <= entered
    <3>1. PICK shown \in Nat, all \in Nat, was \in Nat, is \in Nat :
             /\ shown = Cardinality(T) /\ all = Cardinality(Seen \cup T)
             /\ was = Cardinality(Ahead(d, S, p, Seen))
             /\ is = Cardinality(Ahead(d, S, p + take, Seen \cup T))
      BY <2>3
    <3>2. shown - all + is = was - Cardinality(Seen)
      BY <2>3, <3>1
    <3>3. Cardinality(Places) - Cardinality(Seen) + was <= entered
      BY <2>5, <3>1
    <3>4. (Cardinality(Places) + shown) - all + is <= entered
      BY <2>4, <3>2, <3>3, Balance
    <3> QED
      BY <2>2, <3>1, <3>4
  <2>7. Cardinality(Behind(d, S, p + take, stayed' \ Seen')) <= left
    BY <2>2, <2>3, <2>4, <2>5
  <2>8. Repeats(q)'
    BY <1>6, <1>7, <2>6 DEF Repeats, d, S, Selected
  <2>9. Misses(q, stayed)'
    BY <1>6, <1>7, <2>7 DEF Misses, d, S, Selected
  <2> QED
    BY <2>8, <2>9
<1> QED
  BY <1>7, <1>8, <1>9 DEF Drift

LEMMA DriftChanges ==
    ASSUME TypeInv, Drift, NEW r, NEW x \in Nat, Change(r), Table(r), OneRow(r, x)
    PROVE  Drift'
<1> DEFINE was == Selected(feature, query, rows)
           is == Selected(feature, query, r)
           d == query.direction
           p == Passed(query)
<1>1. /\ rows' = r /\ stayed' = stayed \cap is
      /\ entered' = entered + Cardinality(is \ was) /\ left' = left + Cardinality(was \ is)
      /\ feature' = feature /\ query' = query /\ pages' = pages /\ Walking
      /\ total' = total /\ ~Finished
      /\ Places' = Places /\ Seen' = Seen /\ Passed(query)' = p
  BY DEF Change, Places, Seen, Passed
<1>2. ~Finished'
  BY <1>1 DEF Finished, Walking
<1>3. is \subseteq Nat /\ was \subseteq Nat /\ IsFiniteSet(is) /\ IsFiniteSet(was)
  <2>1. is \subseteq DOMAIN r /\ was \subseteq DOMAIN rows
    BY DEF Selected
  <2>2. IsFiniteSet(DOMAIN r) /\ IsFiniteSet(DOMAIN rows) /\ DOMAIN r \subseteq Nat
        /\ DOMAIN rows \subseteq Nat
    BY FS_CardinalityType DEF Table, TypeInv
  <2> QED
    BY <2>1, <2>2, SubsetCardinality
<1>4. p \in Nat /\ entered \in Nat /\ left \in Nat /\ stayed \subseteq was
  <2>1. query.limit \in Nat
    BY <1>1, QueryIs DEF TypeInv
  <2> QED
    BY <1>1, <2>1, SeenIs DEF TypeInv, Passed
<1>5. Cardinality(Places) \in Nat /\ Cardinality(Seen) \in Nat
  BY SeenIs
<1> DEFINE AheadWas == Cardinality(Ahead(d, was, p, Seen))
           AheadIs == Cardinality(Ahead(d, is, p, Seen))
           BehindWas == Cardinality(Behind(d, was, p, stayed \ Seen))
           BehindIs == Cardinality(Behind(d, is, p, (stayed \cap is) \ Seen))
<1>6. /\ AheadWas \in Nat /\ AheadIs \in Nat /\ BehindWas \in Nat /\ BehindIs \in Nat
      /\ Ahead(d, was, p, Seen) \subseteq was /\ Behind(d, was, p, stayed \ Seen) \subseteq was
      /\ IsFiniteSet(Ahead(d, was, p, Seen)) /\ IsFiniteSet(Behind(d, was, p, stayed \ Seen))
  <2>1. /\ Ahead(d, was, p, Seen) \subseteq was /\ Ahead(d, is, p, Seen) \subseteq is
        /\ Behind(d, was, p, stayed \ Seen) \subseteq was
        /\ Behind(d, is, p, (stayed \cap is) \ Seen) \subseteq is
    BY <1>4 DEF Ahead, Behind
  <2> HIDE DEF was, is, d, p
  <2> QED
    BY <1>3, <2>1, SubsetCardinality
<1>7. /\ AheadIs <= AheadWas + Cardinality(is \ was)
      /\ BehindIs <= BehindWas + Cardinality(was \ is)
      /\ Cardinality(is \ was) \in Nat /\ Cardinality(was \ is) \in Nat
  <2>1. \/ is = was /\ Cardinality(is \ was) = 0 /\ Cardinality(was \ is) = 0
        \/ /\ x \notin was /\ is = was \cup {x}
           /\ Cardinality(is \ was) = 1 /\ Cardinality(was \ is) = 0
        \/ /\ x \notin is /\ was = is \cup {x}
           /\ Cardinality(is \ was) = 0 /\ Cardinality(was \ is) = 1
    BY OneEntersOrLeaves
  <2> HIDE DEF was, is, d, p
  <2>2. CASE is = was /\ Cardinality(is \ was) = 0 /\ Cardinality(was \ is) = 0
    <3>1. stayed \cap is = stayed
      BY <1>4, <2>2
    <3>2. AheadIs = AheadWas
      BY <2>2
    <3>3. BehindIs = BehindWas
      BY <2>2, <3>1
    <3> QED
      BY <1>6, <2>2, <3>2, <3>3
  <2>3. CASE /\ x \notin was /\ is = was \cup {x}
             /\ Cardinality(is \ was) = 1 /\ Cardinality(was \ is) = 0
    <3>1. AheadIs <= AheadWas + 1
      BY <1>3, <1>4, <2>3, EntryPushes
    <3>2. stayed \cap is = stayed /\ stayed \ Seen \in SUBSET was
      BY <1>4, <2>3
    <3>3. Behind(d, is, p, stayed \ Seen) \subseteq Behind(d, was, p, stayed \ Seen)
      BY <1>3, <1>4, <2>3, <3>2, EntryKeepsBehind
    <3>4. BehindIs <= BehindWas
      BY <1>6, <3>2, <3>3, SubsetCardinality
    <3> QED
      BY <1>6, <2>3, <3>1, <3>4
  <2>4. CASE /\ x \notin is /\ was = is \cup {x}
             /\ Cardinality(is \ was) = 0 /\ Cardinality(was \ is) = 1
    <3>1. Ahead(d, is, p, Seen) \subseteq Ahead(d, was, p, Seen)
      BY <1>3, <1>4, <2>4, LeavingKeepsAhead
    <3>2. AheadIs <= AheadWas
      BY <1>6, <3>1, SubsetCardinality
    <3>3. (stayed \cap is) \ Seen = (stayed \ Seen) \cap is /\ stayed \ Seen \in SUBSET was
      BY <1>4
    <3>4. BehindIs <= BehindWas + 1
      BY <1>3, <1>4, <2>4, <3>3, LeavingPulls
    <3> QED
      BY <1>6, <2>4, <3>2, <3>4
  <2> QED
    BY <2>1, <2>2, <2>3, <2>4
<1>8. ASSUME query.order_by = "id" PROVE Repeats(query)' /\ Misses(query, stayed)'
  <2>1. /\ Cardinality(Places) - Cardinality(Seen) + AheadWas <= entered
        /\ BehindWas <= left
    BY <1>1, <1>8 DEF Drift, Repeats, Misses
  <2>2. Selected(feature, query, rows)' = is
    BY <1>1 DEF Selected
  <2> HIDE DEF was, is, d, p, AheadWas, AheadIs, BehindWas, BehindIs
  <2>3. /\ Cardinality(Places) - Cardinality(Seen) + AheadIs <= entered'
        /\ BehindIs <= left'
    BY <1>1, <1>4, <1>5, <1>6, <1>7, <2>1
  <2>4. Repeats(query)'
    BY <1>1, <2>2, <2>3 DEF Repeats, AheadIs, d, p
  <2>5. Misses(query, stayed)'
    BY <1>1, <2>2, <2>3 DEF Misses, BehindIs, d, p
  <2> QED
    BY <2>4, <2>5
<1> QED
  BY <1>1, <1>2, <1>8 DEF Drift

LEMMA DriftStarts == Init => Drift
BY DEF Init, Drift, Finished, Walking

LEMMA DriftSteps == TypeInv /\ Drift /\ [Next]_vars => Drift'
<1> SUFFICES ASSUME TypeInv, Drift, [Next]_vars PROVE Drift'
  OBVIOUS
<1>1. TypeInv'
  BY TypeSteps
<1>2. CASE Ask
  <2>1. pages = <<>> /\ Len(pages) = 0
    BY <1>2 DEF Ask, TypeInv
  <2>2. PICK q \in Queries(feature) : query' = q /\ findByFilter(q, 1)
                                      /\ stayed' = Selected(feature, q, rows)
    BY <1>2 DEF Ask
  <2> DEFINE S == Selected(feature, q, rows)
             d == q.direction
  <2>3. S \in SUBSET Nat /\ IsFiniteSet(S)
    <3>1. pages \in Seq(Answer) /\ Table(rows) /\ q.limit \in Nat \ {0}
      BY QueryIs DEF TypeInv
    <3> QED
      BY <2>2, <3>1, AnswerIs
  <2>4. Places = {} /\ Seen = {} /\ Passed(q) = 0
    <3>1. q.limit \in Nat
      BY QueryIs DEF TypeInv
    <3> QED
      BY <2>1, <3>1 DEF Places, Seen, Passed
  <2>5. Ahead(d, S, 0, {}) = {} /\ Behind(d, S, 0, S \ {}) = {}
    <3>1. \A i \in S : Rank(d, S, i) \in Nat /\ Rank(d, S, i) >= 1
      BY <2>3, RankType
    <3>2. \A i \in S : ~(Rank(d, S, i) <= 0)
      BY <3>1
    <3> QED
      BY <3>2 DEF Ahead, Behind
  <2>6. Repeats(q) /\ Misses(q, stayed')
    <3>1. Cardinality({}) = 0 /\ entered \in Nat /\ left \in Nat
      BY FS_EmptySet DEF TypeInv
    <3> QED
      BY <2>2, <2>4, <2>5, <3>1 DEF Repeats, Misses
  <2> QED
    BY <1>1, <1>2, <2>1, <2>2, <2>6, DriftAnswers DEF Ask
<1>3. CASE NextPage
  <2>1. /\ Walking /\ findByFilter(query, Len(pages) + 1) /\ Len(pages) + 1 \in Nat \ {0}
        /\ query' = query /\ UNCHANGED <<feature, rows, entered, left>>
        /\ stayed' = stayed
    BY <1>3, LenProperties DEF NextPage, TypeInv
  <2>2. query \in Queries(feature) /\ stayed \subseteq Selected(feature, query, rows)
    BY <2>1 DEF TypeInv
  <2>3. query.order_by = "id" => Repeats(query) /\ Misses(query, stayed)
    BY <2>1 DEF Drift
  <2> QED
    BY <1>1, <2>1, <2>2, <2>3, DriftAnswers
<1>4. CASE \E r : \E x \in Nat : Change(r) /\ Table(r) /\ OneRow(r, x)
  BY <1>4, DriftChanges
<1>5. CASE Count
  <2>1. /\ UNCHANGED <<feature, rows, query, pages, stayed, entered, left>> /\ Walking
        /\ total' = Cardinality(Selected(feature, query, rows))
    BY <1>5 DEF Count
  <2>2. Last(pages).page = Len(pages)
    <3>1. Len(pages) \in DOMAIN pages /\ Last(pages) = pages[Len(pages)]
      BY <2>1, LenProperties, EmptySeq DEF TypeInv, Last
    <3> QED
      BY <3>1 DEF TypeInv
  <2>3. Finished' => Cardinality(Selected(feature, query, rows)) <= Passed(query)
    <3>1. query.limit \in Nat /\ Len(pages) \in Nat
      BY <2>1, QueryIs, LenProperties DEF TypeInv
    <3>2. Cardinality(Selected(feature, query, rows)) \in Nat
      <4>1. Selected(feature, query, rows) \subseteq DOMAIN rows /\ IsFiniteSet(DOMAIN rows)
        BY DEF Selected, TypeInv, Table
      <4> QED
        BY <4>1, SubsetCardinality
    <3>3. PICK l \in Nat, n \in Nat, c \in Nat :
             /\ l = query.limit /\ n = Len(pages)
             /\ c = Cardinality(Selected(feature, query, rows))
      BY <3>1, <3>2
    <3>4. Finished' => n * l >= c
      BY <2>1, <2>2, <3>3 DEF Finished
    <3>5. n * l \in Nat
      BY <3>3
    <3> QED
      BY <3>3, <3>4, <3>5 DEF Passed
  <2> QED
    BY <2>1, <2>3 DEF Drift, Walking, Repeats, Misses, Passed, Places, Seen, Selected
<1>6. CASE UNCHANGED vars
  BY <1>6 DEF vars, Drift, Walking, Finished, Repeats, Misses, Passed, Places, Seen, Selected
<1> QED
  BY <1>2, <1>3, <1>4, <1>5, <1>6, Kinds

LEMMA DriftBounds == TypeInv /\ Drift => WalkDrifts
<1> SUFFICES ASSUME TypeInv, Drift, Walking, query.order_by = "id"
             PROVE  /\ Cardinality(Places) - Cardinality(Seen) <= entered
                    /\ Finished => Cardinality(stayed \ Seen) <= left
  BY DEF WalkDrifts
<1> DEFINE S == Selected(feature, query, rows)
           d == query.direction
           p == Passed(query)
<1>1. S \in SUBSET Nat /\ IsFiniteSet(S) /\ stayed \subseteq S
  <2>1. S \subseteq DOMAIN rows /\ IsFiniteSet(DOMAIN rows) /\ DOMAIN rows \subseteq Nat
    BY FS_CardinalityType DEF Selected, Table, TypeInv
  <2> QED
    BY <2>1, SubsetCardinality DEF TypeInv
<1>2. /\ Cardinality(Places) - Cardinality(Seen) + Cardinality(Ahead(d, S, p, Seen)) <= entered
      /\ Cardinality(Behind(d, S, p, stayed \ Seen)) <= left
      /\ Finished => Cardinality(S) <= p
  BY DEF Drift, Repeats, Misses
<1>3. Cardinality(Ahead(d, S, p, Seen)) \in Nat
  <2>1. Ahead(d, S, p, Seen) \subseteq S
    BY DEF Ahead
  <2> QED
    BY <1>1, <2>1, SubsetCardinality
<1>4. Cardinality(Places) \in Nat /\ Cardinality(Seen) \in Nat /\ entered \in Nat
  BY SeenIs DEF TypeInv
<1>5. ASSUME Finished PROVE Behind(d, S, p, stayed \ Seen) = stayed \ Seen
  <2>1. p \in Nat /\ Cardinality(S) \in Nat /\ \A i \in S : Rank(d, S, i) \in 0..Cardinality(S)
    <3>1. query.limit \in Nat
      BY QueryIs DEF TypeInv
    <3> QED
      BY <1>1, <3>1, SeenIs, RankType, FS_CardinalityType DEF Passed
  <2>2. \A i \in S : Rank(d, S, i) <= p
    BY <1>2, <1>5, <2>1
  <2> QED
    BY <1>1, <2>2 DEF Behind
<1> HIDE DEF S, d, p
<1>6. Cardinality(Places) - Cardinality(Seen) <= entered
  BY <1>2, <1>3, <1>4
<1>7. ASSUME Finished PROVE Cardinality(stayed \ Seen) <= left
  BY <1>2, <1>5, <1>7
<1> QED
  BY <1>6, <1>7

\* A client who walks through all pages in the order of the ids sees no more rows
\* twice than have entered the list meanwhile, and misses no more of those that
\* were there all the time than have left it, with any limit and any filter.
THEOREM WalksDriftLittle == Spec => []WalkDrifts
<1> QED
  BY TypeStarts, TypeSteps, DriftStarts, DriftSteps, DriftBounds, PTL DEF Spec
=============================================================================

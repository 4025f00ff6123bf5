--------------------------- MODULE CsvText_proofs ---------------------------
(***************************************************************************)
(* Lemmas about texts and the parity of their escapes, for the proofs      *)
(* about the parsers.                                                      *)
(***************************************************************************)
EXTENDS CsvText, TLAPS, SequenceTheorems, FiniteSetTheorems

(* The escapes before a byte can be counted.                              *)
LEMMA EscapesFinite ==
    ASSUME NEW s, NEW i \in Nat
    PROVE  IsFiniteSet(Escapes(s, i)) /\ Cardinality(Escapes(s, i)) \in Nat
<1>1. IsFiniteSet(1..i - 1)
  BY FS_Interval
<1>2. Escapes(s, i) \subseteq 1..i - 1
  BY DEF Escapes
<1>3. QED
  BY <1>1, <1>2, FS_Subset, FS_CardinalityType

(* One byte further, the parity changes if and only if it is an escape. *)
LEMMA ParityStep ==
    ASSUME NEW s \in Seq(Byte), NEW i \in 1..Len(s)
    PROVE  Quoted(s, i + 1) = IF s[i] = Escape THEN ~Quoted(s, i) ELSE Quoted(s, i)
<1>1. CASE s[i] = Escape
  <2>1. Escapes(s, i + 1) = Escapes(s, i) \cup {i}
    BY <1>1 DEF Escapes
  <2>2. i \notin Escapes(s, i)
    BY DEF Escapes
  <2>3. Cardinality(Escapes(s, i + 1)) = Cardinality(Escapes(s, i)) + 1
    BY <2>1, <2>2, EscapesFinite, FS_AddElement
  <2>4. Cardinality(Escapes(s, i)) \in Nat
    BY EscapesFinite
  <2>5. QED
    BY <1>1, <2>3, <2>4 DEF Quoted
<1>2. CASE s[i] # Escape
  <2>1. Escapes(s, i + 1) = Escapes(s, i)
    BY <1>2 DEF Escapes
  <2>2. QED
    BY <1>2, <2>1 DEF Quoted
<1>3. QED
  BY <1>1, <1>2

(* Bytes appended to a text do not change what was quoted in it.          *)
LEMMA ParityPrefix ==
    ASSUME NEW s \in Seq(Byte), NEW c \in Seq(Byte), NEW i \in 1..Len(s) + 1
    PROVE  Quoted(s \o c, i) = Quoted(s, i)
<1>1. \A j \in 1..i - 1 : (s \o c)[j] = s[j]
  BY ConcatProperties
<1>2. Escapes(s \o c, i) = Escapes(s, i)
  BY <1>1 DEF Escapes
<1>3. QED
  BY <1>2 DEF Quoted

(* A text starts outside quotes.                                          *)
LEMMA ParityEmpty == ~Quoted(<<>>, 1)
<1>1. Escapes(<<>>, 1) = {}
  BY DEF Escapes
<1>2. QED
  BY <1>1, FS_EmptySet DEF Quoted

-----------------------------------------------------------------------------
(* Finite sets of numbers in their order. *)

(* How many of the numbers in S are at most i. *)
Rank(S, i) == Cardinality({j \in S : j <= i})

(* The rank of a number in a finite set is a count.                       *)
LEMMA RankType ==
    ASSUME NEW S \in SUBSET Int, IsFiniteSet(S), NEW i \in Int
    PROVE  /\ IsFiniteSet({j \in S : j <= i})
           /\ Rank(S, i) \in Nat /\ Cardinality(S) \in Nat
           /\ Rank(S, i) <= Cardinality(S)
<1>1. {j \in S : j <= i} \in SUBSET S
  OBVIOUS
<1>2. QED
  BY <1>1, FS_Subset, FS_CardinalityType DEF Rank

(* A number of S has a greater rank than any number below it. *)
LEMMA RankStrict ==
    ASSUME NEW S \in SUBSET Int, IsFiniteSet(S), NEW i \in Int, NEW k \in S, i < k
    PROVE  Rank(S, i) < Rank(S, k)
<1> DEFINE A == {j \in S : j <= i}
           B == {j \in S : j <= k}
<1>1. k \in B /\ k \notin A
  OBVIOUS
<1>2. A \in SUBSET B
  <2>1. \A j \in S : j <= i => j <= k
    OBVIOUS
  <2>2. QED
    BY <2>1, Zenon
<1>3. /\ IsFiniteSet(B) /\ Cardinality(A) \in Nat /\ Cardinality(B) \in Nat
  BY RankType DEF Rank
<1> HIDE DEF A, B
<1>4. Cardinality(A) <= Cardinality(B) /\ Cardinality(A) # Cardinality(B)
  BY <1>1, <1>2, <1>3, FS_Subset
<1>5. Rank(S, i) = Cardinality(A) /\ Rank(S, k) = Cardinality(B)
  BY DEF Rank, A, B
<1>6. QED
  BY <1>3, <1>4, <1>5

(* A larger number has no smaller rank.                                   *)
LEMMA RankMonotone ==
    ASSUME NEW S \in SUBSET Int, IsFiniteSet(S), NEW i \in Int, NEW k \in Int, i <= k
    PROVE  Rank(S, i) <= Rank(S, k)
<1>1. \A j \in S : j <= i => j <= k
  OBVIOUS
<1>2. {j \in S : j <= i} \in SUBSET {j \in S : j <= k}
  BY <1>1, Zenon
<1>3. QED
  BY <1>2, RankType, FS_Subset DEF Rank

(* The ranks of the numbers of S are 1 to Cardinality(S). *)
LEMMA RankOfElement ==
    ASSUME NEW S \in SUBSET Int, IsFiniteSet(S), NEW k \in S
    PROVE  Rank(S, k) \in 1..Cardinality(S)
<1>0. k \in Int /\ k - 1 \in Int /\ k - 1 < k
  OBVIOUS
<1>1. Rank(S, k - 1) < Rank(S, k)
  BY <1>0, RankStrict
<1>2. Rank(S, k - 1) \in Nat /\ Rank(S, k) \in Nat /\ Rank(S, k) <= Cardinality(S)
      /\ Cardinality(S) \in Nat
  BY <1>0, RankType
<1>3. QED
  BY <1>0, <1>1, <1>2

(* Two elements of a set have different ranks.                            *)
LEMMA RankInjective ==
    ASSUME NEW S \in SUBSET Int, IsFiniteSet(S), NEW i \in S, NEW k \in S,
           Rank(S, i) = Rank(S, k)
    PROVE  i = k
<1>1. Rank(S, i) \in Nat /\ Rank(S, k) \in Nat
  BY RankType
<1>2. ~(i < k)
  BY <1>1, RankStrict
<1>3. ~(k < i)
  BY <1>1, RankStrict
<1>4. QED
  BY <1>2, <1>3

(* Every rank is that of some element.                                    *)
LEMMA RankSurjective ==
    ASSUME NEW S \in SUBSET Int, IsFiniteSet(S), NEW n \in 1..Cardinality(S)
    PROVE  \E k \in S : Rank(S, k) = n
<1> DEFINE T == 1..Cardinality(S)
           f == [k \in S |-> Rank(S, k)]
<1>1. f \in [S -> T]
  BY RankOfElement
<1>2. \A i, k \in S : f[i] = f[k] => i = k
  BY RankInjective
<1>3. f \in Injection(S, T)
  BY <1>1, <1>2, Zenon DEF Injection, IsInjective
<1>4. Cardinality(S) \in Nat
  BY FS_CardinalityType
<1>5. IsFiniteSet(T) /\ Cardinality(T) = Cardinality(S)
  BY <1>4, FS_Interval
<1> HIDE DEF T
<1>6. f \in Surjection(S, T)
  BY <1>3, <1>5, FS_Injection
<1>7. n \in T
  BY DEF T
<1>8. QED
  BY <1>6, <1>7 DEF Surjection

(* Nth finds the number of a rank. *)
LEMMA NthOfRank ==
    ASSUME NEW S \in SUBSET Int, IsFiniteSet(S), NEW n \in 1..Cardinality(S)
    PROVE  Nth(S, n) \in S /\ Rank(S, Nth(S, n)) = n
BY RankSurjective, Zenon DEF Nth, Rank

(* Counting the elements in order finds each at its rank.                 *)
LEMMA NthOfElement ==
    ASSUME NEW S \in SUBSET Int, IsFiniteSet(S), NEW k \in S
    PROVE  Nth(S, Rank(S, k)) = k
<1> DEFINE n == Rank(S, k)
<1>1. n \in 1..Cardinality(S)
  BY RankOfElement
<1> HIDE DEF n
<1>2. Nth(S, n) \in S /\ Rank(S, Nth(S, n)) = n
  BY <1>1, NthOfRank
<1>3. Rank(S, k) = n
  BY DEF n
<1>4. Nth(S, n) = k
  BY <1>2, <1>3, RankInjective
<1>5. QED
  BY <1>4 DEF n

(* A number of S is the n-th when its rank is n. *)
LEMMA NthUnique ==
    ASSUME NEW S \in SUBSET Int, IsFiniteSet(S), NEW k \in S, NEW n, Rank(S, k) = n
    PROVE  Nth(S, n) = k
BY NthOfElement

(* InOrder lists the numbers of S, each once and from the least to the greatest. *)
LEMMA InOrderLists ==
    ASSUME NEW S \in SUBSET Int, IsFiniteSet(S)
    PROVE  /\ InOrder(S) \in Seq(S) /\ InOrder(S) \in Seq(Int)
           /\ Len(InOrder(S)) = Cardinality(S)
           /\ \A n \in 1..Cardinality(S) : InOrder(S)[n] = Nth(S, n)
<1>1. Cardinality(S) \in Nat
  BY FS_CardinalityType
<1>2. InOrder(S) \in [1..Cardinality(S) -> S]
  BY NthOfRank DEF InOrder
<1>3. InOrder(S) \in Seq(S)
  BY <1>1, <1>2
<1>6. InOrder(S) \in [1..Cardinality(S) -> Int]
  BY <1>2
<1>7. InOrder(S) \in Seq(Int)
  BY <1>1, <1>6
<1>4. Len(InOrder(S)) = Cardinality(S)
  BY <1>1, <1>2
<1>5. QED
  BY <1>3, <1>4, <1>7 DEF InOrder

(* The elements of a set in order increase.                               *)
LEMMA NthIncreases ==
    ASSUME NEW S \in SUBSET Int, IsFiniteSet(S),
           NEW m \in 1..Cardinality(S), NEW n \in 1..Cardinality(S), m < n
    PROVE  Nth(S, m) < Nth(S, n)
<1>1. /\ Nth(S, m) \in S /\ Rank(S, Nth(S, m)) = m
      /\ Nth(S, n) \in S /\ Rank(S, Nth(S, n)) = n
  BY NthOfRank
<1>2. ~(Nth(S, n) <= Nth(S, m))
  <2>1. ASSUME Nth(S, n) <= Nth(S, m)
        PROVE  n <= m
    BY <1>1, <2>1, RankMonotone
  <2>2. QED
    BY <2>1
<1>3. Nth(S, m) \in Int /\ Nth(S, n) \in Int
  BY <1>1
<1>4. QED
  BY <1>2, <1>3

(* Numbers above all of S come after them. *)
LEMMA RankOfUnion ==
    ASSUME NEW S \in SUBSET Int, IsFiniteSet(S), NEW T \in SUBSET Int, IsFiniteSet(T),
           \A i \in S, k \in T : i < k
    PROVE  /\ IsFiniteSet(S \cup T)
           /\ Cardinality(S \cup T) = Cardinality(S) + Cardinality(T)
           /\ \A i \in S : Rank(S \cup T, i) = Rank(S, i)
           /\ \A k \in T : Rank(S \cup T, k) = Cardinality(S) + Rank(T, k)
<1>1. \A U \in SUBSET T : S \cap U = {}
  BY SMT
<1>2. Cardinality({}) = 0
  BY FS_EmptySet
<1>3. Cardinality(S) \in Nat /\ Cardinality(T) \in Nat
  BY FS_CardinalityType
<1>4. \A U \in SUBSET T : IsFiniteSet(U) => Cardinality(S \cup U) = Cardinality(S) + Cardinality(U)
  <2>1. ASSUME NEW U \in SUBSET T, IsFiniteSet(U)
        PROVE  Cardinality(S \cup U) = Cardinality(S) + Cardinality(U)
    <3>1. S \cap U = {}
      BY <1>1
    <3>2. Cardinality(S \cup U) = Cardinality(S) + Cardinality(U) - Cardinality(S \cap U)
      BY <2>1, FS_Union, Zenon
    <3>3. Cardinality(S \cup U) = Cardinality(S) + Cardinality(U) - 0
      BY <1>2, <3>1, <3>2, Zenon
    <3>4. Cardinality(U) \in Nat
      BY <2>1, FS_CardinalityType
    <3>5. QED
      BY <1>3, <3>3, <3>4
  <2>2. QED
    BY <2>1
<1>5. IsFiniteSet(S \cup T) /\ Cardinality(S \cup T) = Cardinality(S) + Cardinality(T)
  BY <1>4, FS_Union
<1>6. ASSUME NEW i \in S
      PROVE  Rank(S \cup T, i) = Rank(S, i)
  <2>1. \A k \in T : ~(k <= i)
    OBVIOUS
  <2>2. {j \in S \cup T : j <= i} = {j \in S : j <= i}
    BY <2>1, Zenon
  <2>3. QED
    BY <2>2 DEF Rank
<1>7. ASSUME NEW k \in T
      PROVE  Rank(S \cup T, k) = Cardinality(S) + Rank(T, k)
  <2>1. \A i \in S : i <= k
    OBVIOUS
  <2>2. {j \in S \cup T : j <= k} = S \cup {j \in T : j <= k}
    BY <2>1, Zenon
  <2>3. IsFiniteSet({j \in T : j <= k})
    BY RankType
  <2>4. QED
    BY <1>4, <2>2, <2>3 DEF Rank
<1>8. QED
  BY <1>5, <1>6, <1>7

(* Where one set lies before another, its elements come first.            *)
LEMMA NthOfUnion ==
    ASSUME NEW S \in SUBSET Int, IsFiniteSet(S), NEW T \in SUBSET Int, IsFiniteSet(T),
           \A i \in S, k \in T : i < k
    PROVE  /\ \A n \in 1..Cardinality(S) : Nth(S \cup T, n) = Nth(S, n)
           /\ \A n \in 1..Cardinality(T) : Nth(S \cup T, Cardinality(S) + n) = Nth(T, n)
<1>1. S \cup T \in SUBSET Int /\ IsFiniteSet(S \cup T)
  BY RankOfUnion
<1>2. ASSUME NEW n \in 1..Cardinality(S)
      PROVE  Nth(S \cup T, n) = Nth(S, n)
  <2>1. Nth(S, n) \in S /\ Rank(S, Nth(S, n)) = n
    BY NthOfRank
  <2>2. Rank(S \cup T, Nth(S, n)) = n
    BY <2>1, RankOfUnion
  <2>3. Nth(S, n) \in S \cup T
    BY <2>1
  <2>4. QED
    BY <1>1, <2>2, <2>3, NthUnique
<1>3. ASSUME NEW n \in 1..Cardinality(T)
      PROVE  Nth(S \cup T, Cardinality(S) + n) = Nth(T, n)
  <2>1. Nth(T, n) \in T /\ Rank(T, Nth(T, n)) = n
    BY NthOfRank
  <2>2. Rank(S \cup T, Nth(T, n)) = Cardinality(S) + n
    <3>1. Rank(S \cup T, Nth(T, n)) = Cardinality(S) + Rank(T, Nth(T, n))
      BY <2>1, RankOfUnion, Zenon
    <3>2. QED
      BY <2>1, <3>1
  <2>3. Nth(T, n) \in S \cup T
    BY <2>1
  <2>4. QED
    BY <1>1, <2>2, <2>3, NthUnique
<1>4. QED
  BY <1>2, <1>3

(* The least of a set of numbers is the one below all others. *)
LEMMA MinIsLeast ==
    ASSUME NEW S \in SUBSET Int, NEW i \in S, \A j \in S : i <= j
    PROVE  Min(S) = i
<1>1. \A k \in S : (\A j \in S : k <= j) => k = i
  <2>1. ASSUME NEW k \in S, \A j \in S : k <= j
        PROVE  k = i
    <3>1. k <= i /\ i <= k
      BY <2>1, Zenon
    <3>2. QED
      BY <3>1
  <2>2. QED
    BY <2>1, Zenon
<1>2. QED
  BY <1>1, Zenon DEF Min

(* A finite set of numbers has a least one. *)
LEMMA LeastOfFinite ==
    ASSUME NEW S \in SUBSET Int, IsFiniteSet(S), S # {}
    PROVE  \E i \in S : \A j \in S : i <= j
<1>1. Cardinality(S) \in Nat /\ Cardinality(S) # 0
  BY FS_CardinalityType, FS_EmptySet
<1>2. 1 \in 1..Cardinality(S)
  BY <1>1
<1>3. Nth(S, 1) \in S /\ Rank(S, Nth(S, 1)) = 1
  BY <1>2, NthOfRank
<1>4. ASSUME NEW j \in S
      PROVE  Nth(S, 1) <= j
  <2>1. Rank(S, j) \in 1..Cardinality(S)
    BY RankOfElement
  <2>2. ASSUME j < Nth(S, 1)
        PROVE  FALSE
    <3>1. j \in Int
      OBVIOUS
    <3>2. Rank(S, j) < Rank(S, Nth(S, 1))
      BY <1>3, <2>2, <3>1, RankStrict
    <3>3. QED
      BY <1>1, <1>3, <2>1, <3>2
  <2>3. j \in Int /\ Nth(S, 1) \in Int
    BY <1>3
  <2>4. QED
    BY <2>2, <2>3
<1>5. QED
  BY <1>3, <1>4, Zenon

(* Moving every element of a set keeps their number.                      *)
LEMMA ShiftCardinality ==
    ASSUME NEW S \in SUBSET Int, IsFiniteSet(S), NEW n \in Int
    PROVE  LET T == {n + j : j \in S}
           IN  IsFiniteSet(T) /\ Cardinality(T) = Cardinality(S)
<1> DEFINE T == {n + j : j \in S}
           f == [j \in S |-> n + j]
<1>1. f \in [S -> T]
  OBVIOUS
<1>2. \A j, k \in S : n + j = n + k => j = k
  OBVIOUS
<1>3. f \in Bijection(S, T)
  BY <1>1, <1>2, Zenon DEF Bijection, Injection, Surjection, IsInjective
<1>4. QED
  BY <1>3, FS_Bijection, Zenon DEF ExistsBijection

(* Moving all numbers of a set by the same distance keeps their order. *)
LEMMA NthShift ==
    ASSUME NEW M \in SUBSET Int, IsFiniteSet(M), NEW d \in Int
    PROVE  LET T == {d + b : b \in M}
           IN  /\ T \in SUBSET Int /\ IsFiniteSet(T) /\ Cardinality(T) = Cardinality(M)
               /\ \A k \in 1..Cardinality(M) : Nth(T, k) = d + Nth(M, k)
<1> DEFINE T == {d + b : b \in M}
<1>1. T \in SUBSET Int /\ IsFiniteSet(T) /\ Cardinality(T) = Cardinality(M)
  <2>1. T \in SUBSET Int
    OBVIOUS
  <2>2. IsFiniteSet(T) /\ Cardinality(T) = Cardinality(M)
    BY ShiftCardinality
  <2>3. QED
    BY <2>1, <2>2
<1>2. ASSUME NEW k \in 1..Cardinality(M)
      PROVE  Nth(T, k) = d + Nth(M, k)
  <2> DEFINE b == Nth(M, k)
             B == {j \in M : j <= b}
  <2>1. b \in M /\ Cardinality(B) = k
    BY NthOfRank DEF Rank
  <2>2. b \in Int
    BY <2>1
  <2>3. IsFiniteSet(B) /\ B \in SUBSET Int
    BY <2>2, RankType
  <2>4. {j \in T : j <= d + b} = {d + j : j \in B}
    <3>1. \A j \in M : d + j <= d + b <=> j <= b
      BY <2>2
    <3>2. QED
      BY <3>1
  <2>5. Rank(T, d + b) = k
    BY <2>1, <2>3, <2>4, ShiftCardinality DEF Rank
  <2>6. d + b \in T
    BY <2>1
  <2>7. QED
    BY <1>1, <2>5, <2>6, NthUnique
<1>3. QED
  BY <1>1, <1>2

-----------------------------------------------------------------------------
(* Lists made from the numbers of a set. *)

(* What f makes of the numbers in S, in their order. *)
Listed(S, f) == [k \in 1..Cardinality(S) |-> f[Nth(S, k)]]

(* A listing has one entry for each element, in order.                    *)
LEMMA ListedType ==
    ASSUME NEW S \in SUBSET Int, IsFiniteSet(S), NEW R, NEW f \in [Int -> R]
    PROVE  /\ Listed(S, f) \in Seq(R) /\ Len(Listed(S, f)) = Cardinality(S)
           /\ \A k \in 1..Cardinality(S) : Listed(S, f)[k] = f[Nth(S, k)]
<1>1. Cardinality(S) \in Nat
  BY FS_CardinalityType
<1>2. \A k \in 1..Cardinality(S) : Nth(S, k) \in Int
  BY NthOfRank
<1>3. Listed(S, f) \in [1..Cardinality(S) -> R]
  BY <1>2 DEF Listed
<1>4. Listed(S, f) \in Seq(R)
  BY <1>1, <1>3
<1>5. Len(Listed(S, f)) = Cardinality(S)
  BY <1>1, <1>3
<1>6. QED
  BY <1>4, <1>5 DEF Listed

(* A set that lies before another is listed before it.                    *)
LEMMA ListedOfUnion ==
    ASSUME NEW S \in SUBSET Int, IsFiniteSet(S), NEW T \in SUBSET Int, IsFiniteSet(T),
           \A i \in S, k \in T : i < k, NEW R, NEW f \in [Int -> R]
    PROVE  Listed(S \cup T, f) = Listed(S, f) \o Listed(T, f)
<1> DEFINE s == Listed(S, f)
           t == Listed(T, f)
           u == Listed(S \cup T, f)
<1>1. /\ S \cup T \in SUBSET Int /\ IsFiniteSet(S \cup T)
      /\ Cardinality(S \cup T) = Cardinality(S) + Cardinality(T)
      /\ Cardinality(S) \in Nat /\ Cardinality(T) \in Nat
  BY RankOfUnion, FS_CardinalityType
<1>2. /\ s \in Seq(R) /\ Len(s) = Cardinality(S)
      /\ \A n \in 1..Cardinality(S) : s[n] = f[Nth(S, n)]
  BY ListedType
<1>3. /\ t \in Seq(R) /\ Len(t) = Cardinality(T)
      /\ \A n \in 1..Cardinality(T) : t[n] = f[Nth(T, n)]
  BY ListedType
<1>4. /\ u \in Seq(R) /\ Len(u) = Cardinality(S \cup T)
      /\ \A n \in 1..Cardinality(S \cup T) : u[n] = f[Nth(S \cup T, n)]
  BY <1>1, ListedType
<1>5. /\ \A n \in 1..Cardinality(S) : Nth(S \cup T, n) = Nth(S, n)
      /\ \A n \in 1..Cardinality(T) : Nth(S \cup T, Cardinality(S) + n) = Nth(T, n)
  BY NthOfUnion
<1> HIDE DEF s, t, u
<1>6. /\ s \o t \in Seq(R) /\ Len(s \o t) = Cardinality(S) + Cardinality(T)
      /\ \A n \in 1..Cardinality(S) : (s \o t)[n] = s[n]
      /\ \A n \in 1..Cardinality(T) : (s \o t)[Cardinality(S) + n] = t[n]
  <2>1. s \o t \in Seq(R) /\ Len(s \o t) = Len(s) + Len(t)
    BY <1>2, <1>3, ConcatProperties
  <2>2. \A n \in 1..Cardinality(S) : (s \o t)[n] = s[n]
    BY <1>1, <1>2, <1>3
  <2>3. \A n \in 1..Cardinality(T) : (s \o t)[Cardinality(S) + n] = t[n]
    BY <1>1, <1>2, <1>3
  <2>4. QED
    BY <1>2, <1>3, <2>1, <2>2, <2>3
<1>7. ASSUME NEW n \in 1..Len(u)
      PROVE  u[n] = (s \o t)[n]
  <2>1. n \in 1..Cardinality(S) \/ n - Cardinality(S) \in 1..Cardinality(T)
    BY <1>1, <1>4
  <2>2. n \in 1..Cardinality(S \cup T)
    BY <1>4
  <2>3. CASE n \in 1..Cardinality(S)
    <3>1. u[n] = f[Nth(S \cup T, n)] /\ Nth(S \cup T, n) = Nth(S, n)
      BY <1>4, <1>5, <2>2, <2>3, Zenon
    <3>2. (s \o t)[n] = f[Nth(S, n)]
      BY <1>2, <1>6, <2>3, Zenon
    <3>3. QED
      BY <3>1, <3>2, Zenon
  <2>4. CASE n - Cardinality(S) \in 1..Cardinality(T)
    <3>1. PICK m \in 1..Cardinality(T) : n = Cardinality(S) + m
      BY <1>1, <1>4, <2>4
    <3>2. u[n] = f[Nth(S \cup T, Cardinality(S) + m)] /\ (s \o t)[n] = t[m]
          /\ t[m] = f[Nth(T, m)]
      BY <1>3, <1>4, <1>6, <2>2, <3>1, Zenon
    <3>3. QED
      BY <1>5, <3>1, <3>2, Zenon
  <2>5. QED
    BY <2>1, <2>3, <2>4
<1>8. Len(u) = Len(s \o t)
  BY <1>1, <1>4, <1>6
<1>9. u = s \o t
  BY <1>4, <1>6, <1>7, <1>8, SeqEqual
<1>10. QED
  BY <1>9 DEF s, t, u

(* The listing of one element.                                            *)
LEMMA ListedOfOne ==
    ASSUME NEW k \in Int, NEW f
    PROVE  Listed({k}, f) = <<f[k]>>
<1>1. IsFiniteSet({k}) /\ Cardinality({k}) = 1
  BY FS_Singleton
<1>2. Nth({k}, 1) = k
  BY <1>1, NthOfRank
<1>3. Listed({k}, f) = [n \in 1..1 |-> f[Nth({k}, n)]]
  BY <1>1 DEF Listed
<1>4. QED
  BY <1>2, <1>3

(* An element above all others is listed last.                            *)
LEMMA ListedAppend ==
    ASSUME NEW S \in SUBSET Int, IsFiniteSet(S), NEW k \in Int, \A i \in S : i < k,
           NEW R, NEW f \in [Int -> R]
    PROVE  Listed(S \cup {k}, f) = Append(Listed(S, f), f[k])
<1> DEFINE T == {k}
<1>1. T \in SUBSET Int /\ IsFiniteSet(T) /\ \A i \in S, j \in T : i < j
  BY FS_Singleton
<1> HIDE DEF T
<1>2. Listed(S \cup T, f) = Listed(S, f) \o Listed(T, f)
  BY <1>1, ListedOfUnion, ZenonT(60)
<1>3. Listed(S, f) \in Seq(R) /\ f[k] \in R
  BY ListedType
<1>4. Append(Listed(S, f), f[k]) = Listed(S, f) \o <<f[k]>>
  BY <1>3, AppendIsConcat
<1>5. QED
  BY <1>2, <1>4, ListedOfOne DEF T

(* The n-th number is at most i when at least n of them are. *)
LEMMA NthBelow ==
    ASSUME NEW S \in SUBSET Int, IsFiniteSet(S), NEW n \in 1..Cardinality(S), NEW i \in Int
    PROVE  Nth(S, n) <= i <=> n <= Rank(S, i)
<1>1. Nth(S, n) \in S /\ Nth(S, n) \in Int /\ Rank(S, Nth(S, n)) = n
  BY NthOfRank
<1>2. Rank(S, i) \in Nat /\ n \in Int
  <2>1. Rank(S, i) \in Nat /\ Cardinality(S) \in Nat
    BY RankType
  <2>2. QED
    BY <2>1
<1>3. Nth(S, n) <= i => n <= Rank(S, i)
  BY <1>1, RankMonotone
<1>4. i < Nth(S, n) => Rank(S, i) < n
  BY <1>1, RankStrict
<1>5. QED
  BY <1>1, <1>2, <1>3, <1>4

(* The numbers of S between two bounds follow those up to the lower one. *)
LEMMA NthOfPart ==
    ASSUME NEW S \in SUBSET Int, IsFiniteSet(S), NEW a \in Int, NEW b \in Int, a <= b
    PROVE  LET Q == {i \in S : a < i /\ i <= b}
           IN  /\ Q \in SUBSET Int /\ IsFiniteSet(Q)
               /\ Rank(S, b) = Rank(S, a) + Cardinality(Q)
               /\ \A n \in 1..Cardinality(Q) : Nth(S, Rank(S, a) + n) = Nth(Q, n)
<1> DEFINE A == {i \in S : i <= a}
           Q == {i \in S : a < i /\ i <= b}
<1>1. /\ A \in SUBSET Int /\ Q \in SUBSET Int /\ A \in SUBSET S /\ Q \in SUBSET S
      /\ IsFiniteSet(A) /\ IsFiniteSet(Q)
  <2>1. A \in SUBSET S /\ Q \in SUBSET S
    OBVIOUS
  <2>2. QED
    BY <2>1, FS_Subset
<1>2. \A i \in A, k \in Q : i < k
  <2>1. \A i \in A : i \in Int /\ i <= a
    OBVIOUS
  <2>2. \A k \in Q : k \in Int /\ a < k
    OBVIOUS
  <2> HIDE DEF A, Q
  <2>3. QED
    BY <2>1, <2>2
<1>3. \A c \in Int : c <= b => {i \in S : i <= c} = {i \in A \cup Q : i <= c}
  <2>1. ASSUME NEW c \in Int, c <= b, NEW i \in S, i <= c
        PROVE  i \in A \cup Q
    <3>1. i \in Int /\ i <= b
      BY <2>1
    <3>2. i <= a \/ a < i
      BY <3>1
    <3>3. QED
      BY <3>1, <3>2
  <2>2. A \cup Q \in SUBSET S
    OBVIOUS
  <2> HIDE DEF A, Q
  <2>3. QED
    BY <2>1, <2>2, Zenon
<1>4. {i \in A \cup Q : i <= b} = A \cup Q
  <2>1. \A i \in A \cup Q : i <= b
    OBVIOUS
  <2> HIDE DEF A, Q
  <2>2. QED
    BY <2>1
<1>5. Rank(S, a) = Cardinality(A)
  BY DEF Rank
<1>6. Q = {i \in S : a < i /\ i <= b}
  OBVIOUS
<1>7. \A k \in Q : k <= b
  OBVIOUS
<1> HIDE DEF A, Q
<1>8. /\ Cardinality(A \cup Q) = Cardinality(A) + Cardinality(Q)
      /\ \A k \in Q : Rank(A \cup Q, k) = Cardinality(A) + Rank(Q, k)
  BY <1>1, <1>2, RankOfUnion
<1>9. Rank(S, b) = Rank(S, a) + Cardinality(Q)
  BY <1>3, <1>4, <1>5, <1>8 DEF Rank
<1>10. ASSUME NEW n \in 1..Cardinality(Q)
       PROVE  Nth(S, Rank(S, a) + n) = Nth(Q, n)
  <2>1. Nth(Q, n) \in Q /\ Rank(Q, Nth(Q, n)) = n
    BY <1>1, NthOfRank
  <2>2. Nth(Q, n) \in Int /\ Nth(Q, n) <= b /\ Nth(Q, n) \in S
    BY <1>1, <1>7, <2>1
  <2>3. Rank(S, Nth(Q, n)) = Rank(A \cup Q, Nth(Q, n))
    BY <1>3, <2>2 DEF Rank
  <2>4. Rank(S, Nth(Q, n)) = Rank(S, a) + n
    BY <1>5, <1>8, <2>1, <2>3
  <2>5. QED
    BY <2>2, <2>4, NthUnique
<1>11. QED
  BY <1>1, <1>6, <1>9, <1>10

(* What stands in a part of a text that begins outside quotes is quoted    *)
(* there when it is quoted in the text.                                    *)
LEMMA ParityOfPart ==
    ASSUME NEW s \in Seq(Byte), NEW a \in Nat, NEW b \in Nat, a <= b, b <= Len(s),
           ~Quoted(s, a + 1), NEW i \in 1..(b - a) + 1
    PROVE  Quoted(SubSeq(s, a + 1, b), i) = Quoted(s, a + i)
<1> DEFINE line == SubSeq(s, a + 1, b)
           P == Escapes(line, i)
           T == {a + j : j \in P}
<1>1. /\ a + 1 \in Int /\ b \in Int /\ \A j \in a + 1..b : s[j] \in Byte
      /\ b - (a + 1) + 1 = b - a
  OBVIOUS
<1>2. \A j \in 1..b - a : line[j] = s[a + j]
  <2>1. \A j \in 1..b - (a + 1) + 1 : line[j] = s[(a + 1) + j - 1]
    BY <1>1, SubSeqProperties
  <2>2. \A j \in 1..b - a : (a + 1) + j - 1 = a + j
    OBVIOUS
  <2>3. QED
    BY <1>1, <2>1, <2>2
<1> HIDE DEF line
<1>3. \A j \in P : j \in Int /\ 1 <= j /\ j <= i - 1 /\ s[a + j] = Escape
  <2>1. \A j \in 1..i - 1 : j \in 1..b - a
    OBVIOUS
  <2>2. QED
    BY <1>2, <2>1 DEF Escapes
<1>4. Escapes(s, a + i) = Escapes(s, a + 1) \cup T
  <2>1. ASSUME NEW k \in Escapes(s, a + i), k \notin Escapes(s, a + 1)
        PROVE  k \in T
    <3>1. k \in Int /\ a < k /\ k < a + i /\ s[k] = Escape
      BY <2>1 DEF Escapes
    <3>2. k - a \in 1..b - a /\ k - a \in 1..i - 1 /\ a + (k - a) = k
      BY <3>1
    <3>3. k - a \in P
      BY <1>2, <3>1, <3>2 DEF Escapes
    <3>4. QED
      BY <3>2, <3>3
  <2>2. ASSUME NEW k \in Escapes(s, a + 1)
        PROVE  k \in Escapes(s, a + i)
    BY <2>2 DEF Escapes
  <2>3. ASSUME NEW j \in P
        PROVE  a + j \in Escapes(s, a + i)
    <3>1. a + j \in 1..(a + i) - 1
      BY <1>3
    <3>2. QED
      BY <1>3, <3>1 DEF Escapes
  <2>4. QED
    BY <2>1, <2>2, <2>3, Zenon
<1>5. Escapes(s, a + 1) \cap T = {}
  <2>1. \A j \in P : a + j \notin 1..(a + 1) - 1
    BY <1>3
  <2>2. QED
    BY <2>1, Zenon DEF Escapes
<1>6. IsFiniteSet(P) /\ Cardinality(P) \in Nat /\ P \in SUBSET Int
  BY <1>3, EscapesFinite
<1>7. IsFiniteSet(T) /\ Cardinality(T) = Cardinality(P)
  <2>1. a \in Int
    OBVIOUS
  <2>2. QED
    BY <1>6, <2>1, ShiftCardinality
<1>8. IsFiniteSet(Escapes(s, a + 1)) /\ Cardinality(Escapes(s, a + 1)) \in Nat
  BY EscapesFinite
<1>9. Cardinality({}) = 0
  BY FS_EmptySet
<1> HIDE DEF T, P
<1>10. Cardinality(Escapes(s, a + i)) = Cardinality(Escapes(s, a + 1)) + Cardinality(P) - 0
  BY <1>4, <1>5, <1>7, <1>8, <1>9, FS_Union
<1>11. QED
  BY <1>6, <1>8, <1>10 DEF Quoted, P, line

-----------------------------------------------------------------------------
(* The lines and the fields of a text. *)

(* An element that none exceeds is the maximum.                           *)
LEMMA MaxIsGreatest ==
    ASSUME NEW S \in SUBSET Int, NEW i \in S, \A j \in S : j <= i
    PROVE  Max(S) = i
<1>1. \A k \in S : (\A j \in S : k >= j) => k = i
  <2>1. ASSUME NEW k \in S, \A j \in S : k >= j
        PROVE  k = i
    <3>1. k >= i /\ k <= i
      BY <2>1, Zenon
    <3>2. QED
      BY <3>1
  <2>2. QED
    BY <2>1, Zenon
<1>2. \A j \in S : i >= j
  OBVIOUS
<1>3. QED
  BY <1>1, <1>2, Zenon DEF Max

(* The row ends of a text can be counted.                                 *)
LEMMA RowEndsFinite ==
    ASSUME NEW s \in Seq(Byte)
    PROVE  /\ RowEnds(s) \in SUBSET Int /\ IsFiniteSet(RowEnds(s))
           /\ RowEnds(s) \in SUBSET (1..Len(s)) /\ Cardinality(RowEnds(s)) \in Nat
<1>1. IsFiniteSet(1..Len(s)) /\ RowEnds(s) \in SUBSET (1..Len(s))
  BY FS_Interval DEF RowEnds
<1>2. IsFiniteSet(RowEnds(s))
  BY <1>1, FS_Subset
<1>3. QED
  BY <1>1, <1>2, FS_CardinalityType

(* Where the k-th row ends; 0 is the start of the text. *)
RowEnd(s, k) == IF k = 0 THEN 0 ELSE Nth(RowEnds(s), k)

(* The k-th row end is a byte of the text, and row ends increase.         *)
LEMMA RowEndInText ==
    ASSUME NEW s \in Seq(Byte), NEW k \in 0..Cardinality(RowEnds(s))
    PROVE  /\ RowEnd(s, k) \in 0..Len(s)
           /\ k > 0 => RowEnd(s, k) \in RowEnds(s) /\ RowEnd(s, k) > 0
           /\ \A j \in 0..Cardinality(RowEnds(s)) : j < k => RowEnd(s, j) < RowEnd(s, k)
<1> DEFINE E == RowEnds(s)
           n == Cardinality(E)
<1>1. E \in SUBSET Int /\ IsFiniteSet(E) /\ n \in Nat /\ \A e \in E : e \in 1..Len(s)
  BY RowEndsFinite
<1>2. \A j \in 1..n : Nth(E, j) \in E
  BY <1>1, NthOfRank
<1>3. \A i \in 1..n, j \in 1..n : i < j => Nth(E, i) < Nth(E, j)
  BY <1>1, NthIncreases
<1>4. k \in 0..n
  OBVIOUS
<1> HIDE DEF E, n
<1>5. ASSUME k > 0
      PROVE  /\ k \in 1..n /\ RowEnd(s, k) = Nth(E, k) /\ Nth(E, k) \in E
             /\ Nth(E, k) \in 1..Len(s)
  <2>1. k \in 1..n /\ k # 0
    BY <1>1, <1>4, <1>5
  <2>2. QED
    BY <1>1, <1>2, <2>1 DEF RowEnd, E
<1>6. ASSUME NEW j \in 0..n, j < k
      PROVE  RowEnd(s, j) < RowEnd(s, k)
  <2>1. k > 0 /\ k \in Int
    BY <1>1, <1>4, <1>6
  <2>2. CASE j = 0
    BY <1>5, <2>1, <2>2 DEF RowEnd
  <2>3. CASE j # 0
    <3>1. j \in 1..n
      BY <1>1, <1>6, <2>3
    <3>2. RowEnd(s, j) = Nth(E, j)
      BY <2>3 DEF RowEnd, E
    <3>3. QED
      BY <1>3, <1>5, <1>6, <2>1, <3>1, <3>2
  <2>4. QED
    BY <2>2, <2>3
<1>7. RowEnd(s, k) \in 0..Len(s)
  <2>1. CASE k > 0
    BY <1>5, <2>1
  <2>2. CASE ~(k > 0)
    <3>1. k = 0
      BY <1>1, <1>4, <2>2
    <3>2. QED
      BY <3>1 DEF RowEnd
  <2>3. QED
    BY <2>1, <2>2
<1>8. QED
  BY <1>5, <1>6, <1>7 DEF E, n

(* The k-th line lies between two row ends that follow each other. *)
LEMMA EndedLinesAt ==
    ASSUME NEW s \in Seq(Byte)
    PROVE  /\ EndedLines(s) \in Seq(Seq(Byte))
           /\ Len(EndedLines(s)) = Cardinality(RowEnds(s))
           /\ \A k \in 1..Cardinality(RowEnds(s)) :
                 EndedLines(s)[k] = LineAt(s, RowEnd(s, k - 1) + 1, RowEnd(s, k))
<1> DEFINE E == RowEnds(s)
           n == Cardinality(E)
           ends == <<0>> \o InOrder(E)
<1>1. E \in SUBSET Int /\ IsFiniteSet(E) /\ n \in Nat
  BY RowEndsFinite
<1>2. InOrder(E) \in Seq(Int) /\ Len(InOrder(E)) = n
      /\ \A k \in 1..n : InOrder(E)[k] = Nth(E, k)
  BY <1>1, InOrderLists
<1>3. EndedLines(s) = [k \in 1..Len(ends) - 1 |-> LineAt(s, ends[k] + 1, ends[k + 1])]
  BY DEF EndedLines
<1>4. Len(ends) - 1 = n
  BY <1>1, <1>2
<1>5. \A k \in 0..n : ends[k + 1] = RowEnd(s, k)
  <2>1. ASSUME NEW k \in 0..n
        PROVE  ends[k + 1] = RowEnd(s, k)
    <3>1. CASE k = 0
      BY <1>1, <1>2, <3>1 DEF RowEnd
    <3>2. CASE k # 0
      <4>1. k \in 1..n
        BY <1>1, <3>2
      <4>2. ends[k + 1] = InOrder(E)[k]
        BY <1>1, <1>2, <4>1
      <4>3. QED
        BY <1>2, <3>2, <4>1, <4>2 DEF RowEnd
    <3>3. QED
      BY <3>1, <3>2
  <2>2. QED
    BY <2>1
<1>6. \A k \in 0..n : RowEnd(s, k) \in 0..Len(s)
  BY RowEndInText
<1> HIDE DEF ends, E, n
<1>7. ASSUME NEW k \in 1..n
      PROVE  /\ EndedLines(s)[k] = LineAt(s, RowEnd(s, k - 1) + 1, RowEnd(s, k))
             /\ EndedLines(s)[k] \in Seq(Byte)
  <2>1. k \in 0..n /\ k - 1 \in 0..n /\ (k - 1) + 1 = k
    BY <1>1
  <2>2. ends[k] = RowEnd(s, k - 1) /\ ends[k + 1] = RowEnd(s, k)
    <3>1. ends[(k - 1) + 1] = RowEnd(s, k - 1)
      BY <1>5, <2>1
    <3>2. QED
      BY <1>5, <2>1, <3>1
  <2>3. EndedLines(s)[k] = LineAt(s, RowEnd(s, k - 1) + 1, RowEnd(s, k))
    BY <1>3, <1>4, <2>2
  <2>4. RowEnd(s, k - 1) \in 0..Len(s) /\ RowEnd(s, k) \in 0..Len(s)
    BY <1>6, <2>1
  <2>5. \A i \in 1..Len(s), j \in 0..Len(s) : SubSeq(s, i, j) \in Seq(Byte)
    <3>1. ASSUME NEW i \in 1..Len(s), NEW j \in 0..Len(s)
          PROVE  SubSeq(s, i, j) \in Seq(Byte)
      <4>1. i \in Int /\ j \in Int /\ \A m \in i..j : s[m] \in Byte
        OBVIOUS
      <4>2. QED
        BY <4>1, SubSeqProperties
    <3>2. QED
      BY <3>1
  <2>6. RowEnd(s, k - 1) < RowEnd(s, k)
    BY <2>1, RowEndInText DEF n, E
  <2>7. LineAt(s, RowEnd(s, k - 1) + 1, RowEnd(s, k)) \in Seq(Byte)
    <3> DEFINE i == RowEnd(s, k - 1) + 1
               j == RowEnd(s, k)
    <3>1. i \in 1..Len(s) /\ j - 1 \in 0..Len(s) /\ (j > i => j - 2 \in 0..Len(s))
      BY <2>4, <2>6
    <3>2. QED
      BY <2>5, <3>1 DEF LineAt
  <2>8. QED
    BY <2>3, <2>7
<1>8. EndedLines(s) \in [1..n -> Seq(Byte)]
  <2>1. EndedLines(s) = [k \in 1..n |-> EndedLines(s)[k]]
    BY <1>3, <1>4, Zenon
  <2>2. QED
    BY <1>7, <2>1, Zenon
<1>9. EndedLines(s) \in Seq(Seq(Byte)) /\ Len(EndedLines(s)) = n
  <2> DEFINE R == Seq(Byte)
             g == EndedLines(s)
  <2>1. g \in [1..n -> R] /\ n \in Nat
    BY <1>1, <1>8
  <2> HIDE DEF R, g
  <2>2. g \in Seq(R) /\ Len(g) = n
    BY <2>1
  <2>3. QED
    BY <2>2 DEF R, g
<1>10. QED
  BY <1>7, <1>9 DEF n, E

(* What follows the last row end starts there. *)
LEMMA LastLineAt ==
    ASSUME NEW s \in Seq(Byte)
    PROVE  LastLine(s) = SubSeq(s, RowEnd(s, Cardinality(RowEnds(s))) + 1, Len(s))
<1> DEFINE E == RowEnds(s)
           n == Cardinality(E)
           S == {0} \cup E
<1>1. E \in SUBSET Int /\ IsFiniteSet(E) /\ n \in Nat /\ \A e \in E : e \in 1..Len(s)
  BY RowEndsFinite
<1>2. n \in 0..n
  BY <1>1
<1>3. /\ RowEnd(s, n) \in 0..Len(s)
      /\ n > 0 => RowEnd(s, n) \in E
      /\ \A j \in 0..n : j < n => RowEnd(s, j) < RowEnd(s, n)
  BY <1>2, RowEndInText
<1>4. RowEnd(s, n) \in S
  <2>1. n = 0 \/ n > 0
    BY <1>1
  <2>2. CASE n = 0
    BY <2>2 DEF RowEnd
  <2>3. QED
    BY <1>3, <2>1, <2>2
<1>5. ASSUME NEW e \in E
      PROVE  e <= RowEnd(s, n)
  <2>1. Rank(E, e) \in 1..n /\ Nth(E, Rank(E, e)) = e
    BY <1>1, RankOfElement, NthOfElement
  <2>2. PICK k : k = Rank(E, e)
    OBVIOUS
  <2>3. k # 0 /\ k \in 0..n /\ k \in Int /\ n \in Int /\ k <= n
    BY <1>1, <2>1, <2>2
  <2>4. RowEnd(s, k) = e
    BY <2>1, <2>2, <2>3 DEF RowEnd
  <2>5. CASE k = n
    BY <1>1, <2>4, <2>5
  <2>6. CASE k # n
    <3>1. k < n
      BY <2>3, <2>6
    <3>2. RowEnd(s, k) < RowEnd(s, n)
      BY <1>3, <2>3, <3>1
    <3>3. QED
      BY <1>1, <1>3, <2>4, <3>2
  <2>7. QED
    BY <2>5, <2>6
<1>6. S \in SUBSET Int /\ \A j \in S : j <= RowEnd(s, n)
  BY <1>1, <1>3, <1>5
<1> HIDE DEF S, n, E
<1>7. Max(S) = RowEnd(s, n)
  BY <1>4, <1>6, MaxIsGreatest
<1>8. QED
  BY <1>7 DEF LastLine, S, n, E

(* A part of a part. *)
LEMMA PartOfPart ==
    ASSUME NEW s \in Seq(Byte), NEW a \in Nat, NEW b \in Nat, a <= b, b <= Len(s),
           NEW x \in 0..b - a, NEW y \in 1..(b - a) + 1, x < y
    PROVE  SubSeq(SubSeq(s, a + 1, b), x + 1, y - 1) = SubSeq(s, (a + x) + 1, (a + y) - 1)
<1> DEFINE w == SubSeq(s, a + 1, b)
           u == SubSeq(w, x + 1, y - 1)
           v == SubSeq(s, (a + x) + 1, (a + y) - 1)
<1>1. /\ w \in Seq(Byte) /\ Len(w) = b - a
      /\ \A i \in 1..b - a : w[i] = s[a + i]
  <2>1. \A i \in a + 1..b : s[i] \in Byte
    OBVIOUS
  <2>2. /\ SubSeq(s, a + 1, b) \in Seq(Byte)
        /\ Len(SubSeq(s, a + 1, b)) = IF a + 1 <= b THEN b - (a + 1) + 1 ELSE 0
        /\ \A i \in 1..b - (a + 1) + 1 : SubSeq(s, a + 1, b)[i] = s[(a + 1) + i - 1]
    BY <2>1, SubSeqProperties
  <2>3. QED
    BY <2>2
<1> HIDE DEF w
<1>2. /\ u \in Seq(Byte) /\ Len(u) = (y - 1) - x
      /\ \A i \in 1..(y - 1) - x : u[i] = w[x + i]
  <2>1. \A i \in x + 1..y - 1 : w[i] \in Byte
    BY <1>1
  <2>2. /\ SubSeq(w, x + 1, y - 1) \in Seq(Byte)
        /\ Len(SubSeq(w, x + 1, y - 1)) = IF x + 1 <= y - 1 THEN (y - 1) - (x + 1) + 1 ELSE 0
        /\ \A i \in 1..(y - 1) - (x + 1) + 1 : SubSeq(w, x + 1, y - 1)[i] = w[(x + 1) + i - 1]
    BY <2>1, SubSeqProperties
  <2>3. QED
    BY <2>2
<1>3. /\ v \in Seq(Byte) /\ Len(v) = (y - 1) - x
      /\ \A i \in 1..(y - 1) - x : v[i] = s[(a + x) + i]
  <2> DEFINE p == (a + x) + 1
             q == (a + y) - 1
  <2>1. p \in Int /\ q \in Int /\ \A i \in p..q : s[i] \in Byte
    OBVIOUS
  <2>2. /\ SubSeq(s, p, q) \in Seq(Byte)
        /\ Len(SubSeq(s, p, q)) = IF p <= q THEN q - p + 1 ELSE 0
        /\ \A i \in 1..q - p + 1 : SubSeq(s, p, q)[i] = s[p + i - 1]
    BY <2>1, SubSeqProperties
  <2>3. q - p + 1 = (y - 1) - x /\ (IF p <= q THEN q - p + 1 ELSE 0) = (y - 1) - x
    OBVIOUS
  <2>4. \A i \in 1..(y - 1) - x : p + i - 1 = (a + x) + i
    OBVIOUS
  <2>5. QED
    BY <2>2, <2>3, <2>4
<1> HIDE DEF u, v
<1>4. ASSUME NEW i \in 1..(y - 1) - x
      PROVE  u[i] = v[i]
  <2>1. x + i \in 1..b - a /\ a + (x + i) = (a + x) + i
    OBVIOUS
  <2>2. QED
    BY <1>1, <1>2, <1>3, <2>1
<1>5. u = v
  BY <1>2, <1>3, <1>4
<1>6. QED
  BY <1>5 DEF u, v, w

(* The unquoted separators of a text after its first a bytes and up to b. *)
SepsOfPart(s, a, b) ==
    {i \in DOMAIN s : a < i /\ i <= b /\ s[i] \in Separators /\ ~Quoted(s, i)}

(* Where a row from a to b is cut: its start, its separators, its end. *)
CutOf(s, a, b, k) ==
    IF k = 0 THEN a
    ELSE IF k = Cardinality(SepsOfPart(s, a, b)) + 1 THEN b + 1
    ELSE Nth(SepsOfPart(s, a, b), k)

(* The separators of a part of a text can be counted.                     *)
LEMMA SepsOfPartFinite ==
    ASSUME NEW s \in Seq(Byte), NEW a, NEW b
    PROVE  /\ SepsOfPart(s, a, b) \in SUBSET Int /\ IsFiniteSet(SepsOfPart(s, a, b))
           /\ Cardinality(SepsOfPart(s, a, b)) \in Nat
<1>1. IsFiniteSet(1..Len(s)) /\ SepsOfPart(s, a, b) \in SUBSET (1..Len(s))
  BY FS_Interval DEF SepsOfPart
<1>2. IsFiniteSet(SepsOfPart(s, a, b))
  BY <1>1, FS_Subset
<1>3. QED
  BY <1>1, <1>2, FS_CardinalityType

(* The cuts of a row increase and stay inside it. *)
LEMMA CutsIncrease ==
    ASSUME NEW s \in Seq(Byte), NEW a \in Nat, NEW b \in Nat, a <= b, b <= Len(s),
           NEW k \in 1..Cardinality(SepsOfPart(s, a, b)) + 1
    PROVE  /\ CutOf(s, a, b, k - 1) \in Int /\ CutOf(s, a, b, k) \in Int
           /\ a <= CutOf(s, a, b, k - 1) /\ CutOf(s, a, b, k - 1) < CutOf(s, a, b, k)
           /\ CutOf(s, a, b, k) <= b + 1
<1> DEFINE Q == SepsOfPart(s, a, b)
           m == Cardinality(Q)
<1>1. Q \in SUBSET Int /\ IsFiniteSet(Q) /\ m \in Nat
  BY SepsOfPartFinite
<1>2. \A i \in 1..m : Nth(Q, i) \in Q
  BY <1>1, NthOfRank
<1>3. \A i \in 1..m, j \in 1..m : i < j => Nth(Q, i) < Nth(Q, j)
  BY <1>1, NthIncreases
<1>4. \A i \in Q : i \in Int /\ a < i /\ i <= b
  BY DEF SepsOfPart
<1>5. CutOf(s, a, b, k - 1) = IF k = 1 THEN a ELSE Nth(Q, k - 1)
  <2>1. (k - 1 = 0 <=> k = 1) /\ k - 1 # m + 1
    BY <1>1
  <2>2. QED
    BY <2>1 DEF CutOf
<1>6. CutOf(s, a, b, k) = IF k = m + 1 THEN b + 1 ELSE Nth(Q, k)
  <2>1. k # 0
    BY <1>1
  <2>2. QED
    BY <2>1 DEF CutOf
<1>7. k \in 1..m + 1
  OBVIOUS
<1> HIDE DEF Q, m
<1>8. k # 1 => k - 1 \in 1..m
  BY <1>1, <1>7
<1>9. k # m + 1 => k \in 1..m
  BY <1>1, <1>7
<1>10. CASE k = 1
  <2>1. CutOf(s, a, b, k - 1) = a
    BY <1>5, <1>10
  <2>2. CASE k = m + 1
    BY <1>6, <2>1, <2>2
  <2>3. CASE k # m + 1
    BY <1>2, <1>4, <1>6, <1>9, <2>1, <2>3
  <2>4. QED
    BY <2>2, <2>3
<1>11. CASE k # 1
  <2>1. /\ CutOf(s, a, b, k - 1) = Nth(Q, k - 1) /\ Nth(Q, k - 1) \in Int
        /\ a < Nth(Q, k - 1) /\ Nth(Q, k - 1) <= b /\ k - 1 \in 1..m
    BY <1>2, <1>4, <1>5, <1>8, <1>11
  <2>2. CASE k = m + 1
    BY <1>6, <2>1, <2>2
  <2>3. CASE k # m + 1
    <3>1. k \in 1..m /\ k - 1 < k
      BY <1>1, <1>9, <2>3
    <3>2. Nth(Q, k - 1) < Nth(Q, k) /\ Nth(Q, k) \in Int /\ Nth(Q, k) <= b
      BY <1>2, <1>3, <1>4, <2>1, <3>1
    <3>3. QED
      BY <1>6, <2>1, <2>3, <3>2
  <2>4. QED
    BY <2>2, <2>3
<1>12. QED
  BY <1>10, <1>11

(* The fields of a row that starts outside quotes, by the cuts in the text. *)
LEMMA FieldsOfPart ==
    ASSUME NEW s \in Seq(Byte), NEW a \in Nat, NEW b \in Nat, a <= b, b <= Len(s),
           ~Quoted(s, a + 1)
    PROVE  FieldsOf(SubSeq(s, a + 1, b)) =
              [k \in 1..Cardinality(SepsOfPart(s, a, b)) + 1 |->
                  ExtractField(SubSeq(s, CutOf(s, a, b, k - 1) + 1, CutOf(s, a, b, k) - 1))]
<1> DEFINE line == SubSeq(s, a + 1, b)
           M == {i \in DOMAIN line : line[i] \in Separators /\ ~Quoted(line, i)}
           Q == SepsOfPart(s, a, b)
           m == Cardinality(Q)
           cuts == InOrder(M)
           ends == <<0>> \o cuts \o <<Len(line) + 1>>
<1>1. /\ line \in Seq(Byte) /\ Len(line) = b - a /\ DOMAIN line = 1..b - a
      /\ \A i \in 1..b - a : line[i] = s[a + i]
  <2>1. \A i \in a + 1..b : s[i] \in Byte
    OBVIOUS
  <2>2. /\ SubSeq(s, a + 1, b) \in Seq(Byte)
        /\ Len(SubSeq(s, a + 1, b)) = IF a + 1 <= b THEN b - (a + 1) + 1 ELSE 0
        /\ \A i \in 1..b - (a + 1) + 1 : SubSeq(s, a + 1, b)[i] = s[(a + 1) + i - 1]
    BY <2>1, SubSeqProperties
  <2>3. QED
    BY <2>2
<1>2. \A i \in 1..b - a : Quoted(line, i) = Quoted(s, a + i)
  BY ParityOfPart
<1>3. Q \in SUBSET Int /\ IsFiniteSet(Q) /\ m \in Nat
  BY SepsOfPartFinite
<1> HIDE DEF line
<1>4. M \in SUBSET Int /\ IsFiniteSet(M)
  <2>1. IsFiniteSet(1..b - a) /\ M \in SUBSET (1..b - a)
    BY <1>1, FS_Interval
  <2>2. QED
    BY <2>1, FS_Subset
<1>5. {a + i : i \in M} = Q
  <2>1. ASSUME NEW i \in M
        PROVE  a + i \in Q
    <3>1. i \in 1..b - a /\ line[i] \in Separators /\ ~Quoted(line, i)
      BY <1>1
    <3>2. a + i \in DOMAIN s /\ a < a + i /\ a + i <= b
      BY <3>1
    <3>3. QED
      BY <1>1, <1>2, <3>1, <3>2 DEF SepsOfPart
  <2>2. ASSUME NEW j \in Q
        PROVE  \E i \in M : j = a + i
    <3>1. j \in Int /\ a < j /\ j <= b /\ s[j] \in Separators /\ ~Quoted(s, j)
      BY DEF SepsOfPart
    <3>2. PICK i : i = j - a
      OBVIOUS
    <3>3. i \in 1..b - a /\ j = a + i
      BY <3>1, <3>2
    <3>4. i \in M
      BY <1>1, <1>2, <3>1, <3>3
    <3>5. QED
      BY <3>3, <3>4
  <2>3. QED
    BY <2>1, <2>2
<1> HIDE DEF M, Q
<1>6. Cardinality(Q) = Cardinality(M) /\ \A k \in 1..Cardinality(M) : Nth(Q, k) = a + Nth(M, k)
  <2> DEFINE T == {a + i : i \in M}
  <2>1. a \in Int
    OBVIOUS
  <2>2. Cardinality(T) = Cardinality(M) /\ \A k \in 1..Cardinality(M) : Nth(T, k) = a + Nth(M, k)
    BY <1>4, <2>1, NthShift
  <2>3. T = Q
    BY <1>5
  <2> HIDE DEF T
  <2>4. QED
    BY <2>2, <2>3
<1>7. /\ cuts \in Seq(Int) /\ Len(cuts) = m
      /\ \A k \in 1..m : cuts[k] = Nth(M, k) /\ cuts[k] \in Int
  <2>1. \A k \in 1..m : Nth(M, k) \in Int
    BY <1>4, <1>6, NthOfRank
  <2>2. QED
    BY <1>4, <1>6, <2>1, InOrderLists
<1> HIDE DEF cuts
<1>8. /\ ends[1] = 0 /\ ends[m + 2] = (b - a) + 1
      /\ \A k \in 1..m : ends[k + 1] = cuts[k]
  BY <1>1, <1>3, <1>7
<1> HIDE DEF ends
<1>9. ASSUME NEW k \in 0..m + 1
      PROVE  a + ends[k + 1] = CutOf(s, a, b, k) /\ ends[k + 1] \in Int
  <2>1. CASE k = 0
    BY <1>8, <2>1 DEF CutOf
  <2>2. CASE k = m + 1
    <3>1. k # 0 /\ k + 1 = m + 2
      BY <1>3, <2>2
    <3>2. CutOf(s, a, b, k) = b + 1
      BY <2>2, <3>1 DEF CutOf, Q
    <3>3. QED
      BY <1>8, <3>1, <3>2
  <2>3. CASE k # 0 /\ k # m + 1
    <3>1. k \in 1..m
      BY <1>3, <2>3
    <3>2. ends[k + 1] = Nth(M, k) /\ Nth(Q, k) = a + Nth(M, k) /\ ends[k + 1] \in Int
      BY <1>6, <1>7, <1>8, <3>1
    <3>3. CutOf(s, a, b, k) = Nth(Q, k)
      BY <2>3 DEF CutOf, Q
    <3>4. QED
      BY <3>2, <3>3
  <2>4. QED
    BY <2>1, <2>2, <2>3
<1>10. ASSUME NEW k \in 1..m + 1
       PROVE  SubSeq(line, ends[k] + 1, ends[k + 1] - 1)
                 = SubSeq(s, CutOf(s, a, b, k - 1) + 1, CutOf(s, a, b, k) - 1)
  <2>1. PICK j : j = k - 1
    OBVIOUS
  <2>2. j \in 0..m + 1 /\ k \in 0..m + 1 /\ k = j + 1
    BY <1>3, <2>1
  <2>3. PICK x : x = ends[k]
    OBVIOUS
  <2>4. PICK y : y = ends[k + 1]
    OBVIOUS
  <2>5. a + x = CutOf(s, a, b, k - 1) /\ x \in Int
    BY <1>9, <2>1, <2>2, <2>3
  <2>6. a + y = CutOf(s, a, b, k) /\ y \in Int
    BY <1>9, <2>2, <2>4
  <2>7. /\ CutOf(s, a, b, k - 1) \in Int /\ CutOf(s, a, b, k) \in Int
        /\ a <= CutOf(s, a, b, k - 1) /\ CutOf(s, a, b, k - 1) < CutOf(s, a, b, k)
        /\ CutOf(s, a, b, k) <= b + 1
    BY CutsIncrease DEF Q
  <2>8. x \in 0..b - a /\ y \in 1..(b - a) + 1 /\ x < y
    BY <2>5, <2>6, <2>7
  <2>9. SubSeq(line, x + 1, y - 1) = SubSeq(s, (a + x) + 1, (a + y) - 1)
    BY <2>8, PartOfPart DEF line
  <2>10. QED
    BY <2>3, <2>4, <2>5, <2>6, <2>9
<1>11. FieldsOf(line) = [k \in 1..m + 1 |->
                            ExtractField(SubSeq(line, ends[k] + 1, ends[k + 1] - 1))]
  BY <1>7 DEF FieldsOf, ends, cuts, M
<1>12. QED
  BY <1>10, <1>11 DEF line, Q

-----------------------------------------------------------------------------
(* The first violation of a text. *)

(* The bytes with a role in a dialect are different bytes.                *)
LEMMA ByteRoles ==
    /\ Escape \notin Separators /\ Escape # LF /\ Escape # CR
    /\ LF \notin Separators /\ CR \notin Separators /\ LF # CR
BY ByteAssumption, DialectAssumption

(* The bytes of a whole text that violate a rule, and the violation of one. *)
BadBytes(s) == UnexpectedQuotes(s) \cup TrailingGarbage(s, TRUE)

ViolationAt(s, i) ==
    [kind |-> IF i \in UnexpectedQuotes(s) THEN "unexpected_quote"
                                           ELSE "trailing_garbage",
     pos  |-> i - 1]

(* v is what the first of the bytes in J violates. *)
IsFirstIn(s, v, J) ==
    \/ J = {} /\ v = NoViolation
    \/ \E i \in J : (\A j \in J : i <= j) /\ v = ViolationAt(s, i)

(* The bad ones among the first p bytes. *)
BadUpTo(s, p) == {i \in BadBytes(s) : i <= p}

(* A bad byte is never reported as no violation.                          *)
LEMMA ViolationIsSome ==
    ASSUME NEW s, NEW i
    PROVE  ViolationAt(s, i) # NoViolation
<1>1. ViolationAt(s, i).kind # "none"
  BY DEF ViolationAt
<1>2. NoViolation.kind = "none"
  BY DEF NoViolation
<1>3. QED
  BY <1>1, <1>2

(* The first of some bytes, and of bytes that all come later.             *)
LEMMA FirstGrows ==
    ASSUME NEW s, NEW J \in SUBSET Int, NEW K \in SUBSET Int, NEW v, NEW w,
           IsFirstIn(s, v, J), IsFirstIn(s, w, K), \A j \in J, k \in K : j < k
    PROVE  IsFirstIn(s, FirstOf(v, w), J \cup K)
<1>1. CASE J = {}
  <2>1. v = NoViolation
    BY <1>1, Zenon DEF IsFirstIn
  <2>2. FirstOf(v, w) = w /\ J \cup K = K
    BY <1>1, <2>1 DEF FirstOf
  <2>3. QED
    BY <2>2
<1>2. CASE J # {}
  <2>1. PICK i \in J : (\A j \in J : i <= j) /\ v = ViolationAt(s, i)
    BY <1>2, Zenon DEF IsFirstIn
  <2>2. FirstOf(v, w) = ViolationAt(s, i)
    BY <2>1, ViolationIsSome DEF FirstOf
  <2>3. \A j \in J \cup K : i <= j
    BY <2>1
  <2>4. QED
    BY <2>2, <2>3, Zenon DEF IsFirstIn
<1>3. QED
  BY <1>1, <1>2

(* No byte violates nothing.                                              *)
LEMMA FirstOfNone ==
    ASSUME NEW s
    PROVE  IsFirstIn(s, NoViolation, {})
BY DEF IsFirstIn

(* The first of one byte.                                                 *)
LEMMA FirstOfOne ==
    ASSUME NEW s, NEW i \in Int
    PROVE  IsFirstIn(s, ViolationAt(s, i), {i})
<1>1. \A j \in {i} : i <= j
  OBVIOUS
<1>2. QED
  BY <1>1, Zenon DEF IsFirstIn

(* A bad byte follows some byte of its text.                              *)
LEMMA BadBytesInText ==
    ASSUME NEW s \in Seq(Byte)
    PROVE  BadBytes(s) \in SUBSET Int /\ \A i \in BadBytes(s) : i \in 2..Len(s)
BY DEF BadBytes, UnexpectedQuotes, TrailingGarbage

(* The first bad byte decides the violation of a whole text.              *)
LEMMA FirstOfAll ==
    ASSUME NEW s \in Seq(Byte), NEW v, IsFirstIn(s, v, BadBytes(s))
    PROVE  FirstViolation(s, TRUE) =
              IF Quoted(s, Len(s) + 1)
              THEN FirstOf(v, [kind |-> "unterminated_quote", pos |-> Len(s)])
              ELSE v
<1> DEFINE found == UnexpectedQuotes(s) \cup TrailingGarbage(s, TRUE)
<1>1. found = BadBytes(s)
  BY DEF BadBytes
<1>2. CASE BadBytes(s) = {}
  <2>1. v = NoViolation
    BY <1>2, Zenon DEF IsFirstIn
  <2>2. QED
    BY <1>1, <1>2, <2>1 DEF FirstViolation, FirstOf
<1>3. CASE BadBytes(s) # {}
  <2>1. PICK i \in BadBytes(s) : /\ \A j \in BadBytes(s) : i <= j
                                 /\ v = ViolationAt(s, i)
    BY <1>3, Zenon DEF IsFirstIn
  <2>2. Min(found) = i
    BY <1>1, <2>1, BadBytesInText, MinIsLeast
  <2>3. v # NoViolation
    BY <2>1, ViolationIsSome
  <2>4. FirstOf(v, [kind |-> "unterminated_quote", pos |-> Len(s)]) = v
    BY <2>3 DEF FirstOf
  <2>5. FirstViolation(s, TRUE) = ViolationAt(s, i)
    BY <1>1, <1>3, <2>2 DEF FirstViolation, ViolationAt
  <2>6. QED
    BY <2>1, <2>4, <2>5
<1>4. QED
  BY <1>2, <1>3

(* What a first bad byte violates is a violation.                         *)
LEMMA FirstIsViolation ==
    ASSUME NEW s \in Seq(Byte), NEW v, NEW J \in SUBSET BadBytes(s), IsFirstIn(s, v, J)
    PROVE  v \in Violation
<1>1. CASE J = {}
  BY <1>1 DEF IsFirstIn, Violation
<1>2. CASE J # {}
  <2>1. PICK i \in J : v = ViolationAt(s, i)
    BY <1>2, Zenon DEF IsFirstIn
  <2>2. i - 1 \in Nat
    BY <2>1, BadBytesInText
  <2>3. QED
    BY <2>1, <2>2 DEF ViolationAt, Violation
<1>3. QED
  BY <1>1, <1>2

(* A byte is bad only for what stands before it. *)
LEMMA NotBad ==
    ASSUME NEW s \in Seq(Byte), NEW i \in 1..Len(s)
    PROVE  /\ Quoted(s, i) => i \notin BadBytes(s)
           /\ s[i] = Escape =>
                 (i \in BadBytes(s) <=> i \in UnexpectedQuotes(s))
           /\ s[i] # Escape =>
                 (i \in BadBytes(s) <=> i \in TrailingGarbage(s, TRUE))
           /\ i > 1 /\ s[i - 1] # Escape /\ s[i] # Escape => i \notin BadBytes(s)
           /\ i > 1 /\ s[i - 1] = Escape /\ s[i] = Escape => i \notin BadBytes(s)
BY DEF BadBytes, UnexpectedQuotes, TrailingGarbage

-----------------------------------------------------------------------------
(* The quote automaton on a text. *)

(* What the automaton knows after the first p bytes: whether quotes are     *)
(* open, what the byte before says of the next one, and the first bad byte. *)
QuoteAfter(s, p, q) ==
    /\ q.in_quotes = Quoted(s, p + 1)
    /\ Quoted(s, p + 1) => ~q.at_field_start
    /\ ~Quoted(s, p + 1) =>
          /\ q.at_field_start = (p > 0 => s[p] \in Separators \cup {LF})
          /\ q.after_closing_quote = (p > 0 /\ s[p] = Escape)
          /\ p > 0 /\ s[p] = Escape /\ p < Len(s) => s[p + 1] # Escape
    /\ IsFirstIn(s, q.violation, BadUpTo(s, p))

(* One more byte is seen: bad or not.                                     *)
LEMMA BadUpToNext ==
    ASSUME NEW s \in Seq(Byte), NEW p \in Nat
    PROVE  /\ p + 1 \notin BadBytes(s) => BadUpTo(s, p + 1) = BadUpTo(s, p)
           /\ \A v : p + 1 \in BadBytes(s) /\ IsFirstIn(s, v, BadUpTo(s, p)) =>
                 IsFirstIn(s, FirstOf(v, ViolationAt(s, p + 1)), BadUpTo(s, p + 1))
<1>1. BadBytes(s) \in SUBSET Int
  BY BadBytesInText
<1>2. \A i \in Int : i <= p + 1 <=> i <= p \/ i = p + 1
  OBVIOUS
<1>3. p + 1 \notin BadBytes(s) => BadUpTo(s, p + 1) = BadUpTo(s, p)
  BY <1>1, <1>2, Zenon DEF BadUpTo
<1>4. ASSUME NEW v, p + 1 \in BadBytes(s), IsFirstIn(s, v, BadUpTo(s, p))
      PROVE  IsFirstIn(s, FirstOf(v, ViolationAt(s, p + 1)), BadUpTo(s, p + 1))
  <2> DEFINE J == BadUpTo(s, p)
             K == {p + 1}
  <2>1. J \in SUBSET Int /\ K \in SUBSET Int /\ \A j \in J, k \in K : j < k
    BY <1>1 DEF BadUpTo
  <2>2. BadUpTo(s, p + 1) = J \cup K
    BY <1>1, <1>2, <1>4, Zenon DEF BadUpTo
  <2>3. IsFirstIn(s, ViolationAt(s, p + 1), K)
    BY FirstOfOne
  <2> HIDE DEF J, K
  <2>4. IsFirstIn(s, FirstOf(v, ViolationAt(s, p + 1)), J \cup K)
    <3>1. IsFirstIn(s, v, J)
      BY <1>4 DEF J
    <3>2. QED
      BY <2>1, <2>3, <3>1, FirstGrows
  <2>5. QED
    BY <2>2, <2>4
<1>5. QED
  BY <1>3, <1>4

(* QuoteAfter outside quotes, by cases of its two flags.                  *)
LEMMA OutsideQuotes ==
    ASSUME NEW s, NEW p, NEW q, q.in_quotes = FALSE, ~Quoted(s, p + 1),
           \/ q.at_field_start = TRUE /\ (p > 0 => s[p] \in Separators \cup {LF})
           \/ q.at_field_start = FALSE /\ p > 0 /\ s[p] \notin Separators \cup {LF},
           \/ q.after_closing_quote = TRUE /\ p > 0 /\ s[p] = Escape
           \/ q.after_closing_quote = FALSE /\ ~(p > 0 /\ s[p] = Escape),
           p > 0 /\ s[p] = Escape /\ p < Len(s) => s[p + 1] # Escape,
           IsFirstIn(s, q.violation, BadUpTo(s, p))
    PROVE  QuoteAfter(s, p, q)
<1>1. q.in_quotes = Quoted(s, p + 1)
  <2>1. Quoted(s, p + 1) = FALSE
    BY DEF Quoted
  <2>2. QED
    BY <2>1
<1>2. q.at_field_start = (p > 0 => s[p] \in Separators \cup {LF})
  <2>1. CASE q.at_field_start = TRUE /\ (p > 0 => s[p] \in Separators \cup {LF})
    BY <2>1
  <2>2. CASE q.at_field_start = FALSE /\ p > 0 /\ s[p] \notin Separators \cup {LF}
    BY <2>2
  <2>3. QED
    BY <2>1, <2>2
<1>3. q.after_closing_quote = (p > 0 /\ s[p] = Escape)
  <2>1. CASE q.after_closing_quote = TRUE /\ p > 0 /\ s[p] = Escape
    BY <2>1
  <2>2. CASE q.after_closing_quote = FALSE /\ ~(p > 0 /\ s[p] = Escape)
    BY <2>2
  <2>3. QED
    BY <2>1, <2>2
<1>4. QED
  BY <1>1, <1>2, <1>3, Zenon DEF QuoteAfter

(* A new automaton has seen nothing.                                      *)
LEMMA QuoteAtStart ==
    ASSUME NEW s \in Seq(Byte)
    PROVE  QuoteAfter(s, 0, NewQuote)
<1>1. BadUpTo(s, 0) = {}
  BY BadBytesInText DEF BadUpTo
<1>2. ~Quoted(s, 0 + 1)
  <2>1. Escapes(s, 1) = {}
    BY DEF Escapes
  <2>2. Cardinality({}) = 0
    BY FS_EmptySet
  <2>3. QED
    BY <2>1, <2>2 DEF Quoted
<1>3. /\ NewQuote.in_quotes = FALSE /\ NewQuote.at_field_start = TRUE
      /\ NewQuote.after_closing_quote = FALSE /\ NewQuote.violation = NoViolation
  BY DEF NewQuote
<1>4. IsFirstIn(s, NewQuote.violation, BadUpTo(s, 0))
  BY <1>1, <1>3, FirstOfNone
<1>5. ~(0 > 0)
  OBVIOUS
<1>6. QED
  BY <1>2, <1>3, <1>4, <1>5, OutsideQuotes

(* Inside quotes. *)
LEMMA QuoteOnQuoted ==
    ASSUME NEW s \in Seq(Byte), NEW p \in Nat, p < Len(s), NEW q, QuoteAfter(s, p, q),
           q.in_quotes = TRUE, s[p + 1] # Escape
    PROVE  QuoteAfter(s, p + 1, q)
<1>1. p + 1 \in 1..Len(s) /\ (p + 1) + 1 = p + 2
  OBVIOUS
<1>2. Quoted(s, p + 1) /\ Quoted(s, (p + 1) + 1)
  BY <1>1, ParityStep DEF QuoteAfter
<1>3. BadUpTo(s, p + 1) = BadUpTo(s, p)
  BY <1>1, <1>2, NotBad, BadUpToNext
<1>4. QED
  BY <1>2, <1>3 DEF QuoteAfter

(* An escape doubled inside quotes changes nothing.                       *)
LEMMA QuoteOnDoubled ==
    ASSUME NEW s \in Seq(Byte), NEW p \in Nat, p + 1 < Len(s), NEW q, QuoteAfter(s, p, q),
           q.in_quotes = TRUE, s[p + 1] = Escape, s[p + 2] = Escape
    PROVE  QuoteAfter(s, p + 2, q)
<1>1. /\ p + 1 \in 1..Len(s) /\ (p + 1) + 1 = p + 2 /\ p + 1 \in Nat
      /\ p + 2 \in 1..Len(s) /\ (p + 2) - 1 = p + 1 /\ p + 2 > 1
  OBVIOUS
<1>2. Quoted(s, p + 1) /\ ~Quoted(s, p + 2) /\ Quoted(s, (p + 2) + 1)
  <2>1. Quoted(s, p + 1)
    BY DEF QuoteAfter
  <2>2. Quoted(s, (p + 1) + 1) = ~Quoted(s, p + 1)
    BY <1>1, ParityStep
  <2>3. Quoted(s, (p + 2) + 1) = ~Quoted(s, p + 2)
    BY <1>1, ParityStep
  <2>4. QED
    BY <1>1, <2>1, <2>2, <2>3
<1>3. BadUpTo(s, p + 1) = BadUpTo(s, p)
  BY <1>1, <1>2, NotBad, BadUpToNext
<1>4. p + 2 \notin BadBytes(s)
  BY <1>1, NotBad
<1>5. BadUpTo(s, p + 2) = BadUpTo(s, p)
  BY <1>1, <1>3, <1>4, BadUpToNext
<1>6. QED
  BY <1>2, <1>5 DEF QuoteAfter

(* An escape that is not doubled closes the quotes.                       *)
LEMMA QuoteOnClosing ==
    ASSUME NEW s \in Seq(Byte), NEW p \in Nat, p < Len(s), NEW q \in QuoteStates,
           QuoteAfter(s, p, q), q.in_quotes = TRUE, s[p + 1] = Escape,
           p + 1 < Len(s) => s[p + 2] # Escape, NEW n
    PROVE  QuoteAfter(s, p + 1, OnEscape(q, n, FALSE))
<1> DEFINE r == OnEscape(q, n, FALSE)
<1>1. p + 1 \in 1..Len(s) /\ (p + 1) + 1 = p + 2 /\ p + 1 > 0
  OBVIOUS
<1>2. Quoted(s, p + 1) /\ ~Quoted(s, (p + 1) + 1)
  BY <1>1, ParityStep DEF QuoteAfter
<1>3. BadUpTo(s, p + 1) = BadUpTo(s, p)
  BY <1>1, <1>2, NotBad, BadUpToNext
<1>4. /\ r.in_quotes = FALSE /\ r.after_closing_quote = TRUE
      /\ r.at_field_start = q.at_field_start /\ r.violation = q.violation
  BY DEF OnEscape, QuoteStates
<1>5. q.at_field_start = FALSE
  BY <1>2 DEF QuoteAfter, QuoteStates
<1>6. s[p + 1] \notin Separators \cup {LF}
  BY ByteRoles
<1> HIDE DEF r
<1>7. IsFirstIn(s, r.violation, BadUpTo(s, p + 1))
  BY <1>3, <1>4 DEF QuoteAfter
<1>8. QuoteAfter(s, p + 1, r)
  BY <1>1, <1>2, <1>4, <1>5, <1>6, <1>7, OutsideQuotes
<1>9. QED
  BY <1>8 DEF r

(* Outside quotes. *)
LEMMA QuoteOnOpening ==
    ASSUME NEW s \in Seq(Byte), NEW p \in Nat, p < Len(s), NEW q \in QuoteStates,
           QuoteAfter(s, p, q), q.in_quotes = FALSE, s[p + 1] = Escape, NEW d
    PROVE  QuoteAfter(s, p + 1, OnEscape(q, p, d))
<1> DEFINE r == OnEscape(q, p, d)
<1>1. p + 1 \in 1..Len(s) /\ (p + 1) + 1 = p + 2 /\ p + 1 > 0 /\ (p + 1) - 1 = p
  OBVIOUS
<1>2. ~Quoted(s, p + 1) /\ Quoted(s, (p + 1) + 1)
  BY <1>1, ParityStep DEF QuoteAfter
<1>3. r.in_quotes = TRUE /\ r.at_field_start = FALSE
  BY DEF OnEscape
<1>4. p > 0 => s[p] # Escape
  BY <1>2 DEF QuoteAfter
<1>5. p + 1 \in UnexpectedQuotes(s) <=> p > 0 /\ s[p] \notin Separators \cup {LF}
  <2>1. p + 1 \in 2..Len(s) <=> p > 0
    BY <1>1
  <2>2. QED
    BY <1>1, <1>2, <1>4, <2>1 DEF UnexpectedQuotes
<1>6. p + 1 \in BadBytes(s) <=> ~q.at_field_start
  <2>1. p + 1 \in BadBytes(s) <=> p + 1 \in UnexpectedQuotes(s)
    BY <1>1, NotBad
  <2>2. q.at_field_start = (p > 0 => s[p] \in Separators \cup {LF})
    BY <1>2 DEF QuoteAfter
  <2>3. QED
    BY <1>5, <2>1, <2>2
<1>7. IsFirstIn(s, r.violation, BadUpTo(s, p + 1))
  <2>1. IsFirstIn(s, q.violation, BadUpTo(s, p))
    BY DEF QuoteAfter
  <2>2. CASE q.at_field_start
    <3>1. r.violation = q.violation
      BY <2>2 DEF OnEscape
    <3>2. BadUpTo(s, p + 1) = BadUpTo(s, p)
      BY <1>6, <2>2, BadUpToNext
    <3>3. QED
      BY <2>1, <3>1, <3>2
  <2>3. CASE ~q.at_field_start
    <3>1. r.violation = FirstOf(q.violation, [kind |-> "unexpected_quote", pos |-> p])
      BY <2>3 DEF OnEscape
    <3>2. p + 1 \in UnexpectedQuotes(s)
      BY <1>1, <1>6, <2>3, NotBad
    <3>3. ViolationAt(s, p + 1) = [kind |-> "unexpected_quote", pos |-> p]
      BY <1>1, <3>2 DEF ViolationAt
    <3>4. QED
      BY <1>6, <2>1, <2>3, <3>1, <3>3, BadUpToNext
  <2>4. QED
    BY <2>2, <2>3
<1> HIDE DEF r
<1>8. QuoteAfter(s, p + 1, r)
  BY <1>2, <1>3, <1>7 DEF QuoteAfter
<1>9. QED
  BY <1>8 DEF r

(* A separator or a line feed outside quotes.                             *)
LEMMA QuoteOnDelimiter ==
    ASSUME NEW s \in Seq(Byte), NEW p \in Nat, p < Len(s), NEW q \in QuoteStates,
           QuoteAfter(s, p, q), q.in_quotes = FALSE, s[p + 1] \in Separators \cup {LF}
    PROVE  QuoteAfter(s, p + 1, OnDelimiter(q))
<1> DEFINE r == OnDelimiter(q)
<1>1. p + 1 \in 1..Len(s) /\ (p + 1) + 1 = p + 2 /\ p + 1 > 0 /\ s[p + 1] # Escape
  BY ByteRoles
<1>2. ~Quoted(s, p + 1) /\ ~Quoted(s, (p + 1) + 1)
  BY <1>1, ParityStep DEF QuoteAfter
<1>3. /\ r.in_quotes = FALSE /\ r.at_field_start = TRUE
      /\ r.after_closing_quote = FALSE /\ r.violation = q.violation
  BY DEF OnDelimiter, QuoteStates
<1>4. p + 1 \notin BadBytes(s)
  BY <1>1 DEF BadBytes, UnexpectedQuotes, TrailingGarbage
<1>5. BadUpTo(s, p + 1) = BadUpTo(s, p)
  BY <1>4, BadUpToNext
<1> HIDE DEF r
<1>6. IsFirstIn(s, r.violation, BadUpTo(s, p + 1))
  BY <1>3, <1>5 DEF QuoteAfter
<1>7. QuoteAfter(s, p + 1, r)
  BY <1>1, <1>2, <1>3, <1>6, OutsideQuotes
<1>8. QED
  BY <1>7 DEF r

(* A carriage return with its line feed. *)
LEMMA QuoteOnCrLf ==
    ASSUME NEW s \in Seq(Byte), NEW p \in Nat, p + 1 < Len(s), NEW q \in QuoteStates,
           QuoteAfter(s, p, q), q.in_quotes = FALSE, s[p + 1] = CR, s[p + 2] = LF
    PROVE  QuoteAfter(s, p + 2, OnDelimiter(q))
<1> DEFINE r == OnDelimiter(q)
<1>1. /\ p + 1 \in 1..Len(s) /\ (p + 1) + 1 = p + 2 /\ p + 1 \in Nat /\ p + 1 # Len(s)
      /\ p + 2 \in 1..Len(s) /\ (p + 2) - 1 = p + 1 /\ p + 2 > 0
      /\ s[p + 1] # Escape /\ s[p + 2] # Escape
  BY ByteRoles
<1>2. ~Quoted(s, p + 1) /\ ~Quoted(s, p + 2) /\ ~Quoted(s, (p + 2) + 1)
  <2>1. ~Quoted(s, p + 1)
    BY DEF QuoteAfter
  <2>2. Quoted(s, (p + 1) + 1) = Quoted(s, p + 1)
    BY <1>1, ParityStep
  <2>3. Quoted(s, (p + 2) + 1) = Quoted(s, p + 2)
    BY <1>1, ParityStep
  <2>4. QED
    BY <1>1, <2>1, <2>2, <2>3
<1>3. /\ r.in_quotes = FALSE /\ r.at_field_start = TRUE
      /\ r.after_closing_quote = FALSE /\ r.violation = q.violation
  BY DEF OnDelimiter, QuoteStates
<1>4. p + 1 \notin BadBytes(s)
  BY <1>1 DEF BadBytes, UnexpectedQuotes, TrailingGarbage
<1>5. p + 2 \notin BadBytes(s)
  BY <1>1 DEF BadBytes, UnexpectedQuotes, TrailingGarbage
<1>6. BadUpTo(s, p + 2) = BadUpTo(s, p)
  BY <1>1, <1>4, <1>5, BadUpToNext
<1> HIDE DEF r
<1>7. IsFirstIn(s, r.violation, BadUpTo(s, p + 2))
  BY <1>3, <1>6 DEF QuoteAfter
<1>8. QuoteAfter(s, p + 2, r)
  BY <1>1, <1>2, <1>3, <1>7, OutsideQuotes
<1>9. QED
  BY <1>8 DEF r

(* Any other byte outside quotes.                                         *)
LEMMA QuoteOnData ==
    ASSUME NEW s \in Seq(Byte), NEW p \in Nat, p < Len(s), NEW q \in QuoteStates,
           QuoteAfter(s, p, q), q.in_quotes = FALSE,
           s[p + 1] \notin Separators \cup {LF, Escape},
           s[p + 1] = CR => p + 1 = Len(s) \/ s[p + 2] # LF
    PROVE  QuoteAfter(s, p + 1, OnData(q, p))
<1> DEFINE r == OnData(q, p)
<1>1. p + 1 \in 1..Len(s) /\ (p + 1) + 1 = p + 2 /\ p + 1 > 0 /\ (p + 1) - 1 = p
  OBVIOUS
<1>2. ~Quoted(s, p + 1) /\ ~Quoted(s, (p + 1) + 1)
  BY <1>1, ParityStep DEF QuoteAfter
<1>3. r.in_quotes = FALSE /\ r.at_field_start = FALSE /\ r.after_closing_quote = FALSE
  BY DEF OnData, QuoteStates
<1>4. p + 1 \in BadBytes(s) <=> q.after_closing_quote
  <2>1. p + 1 \in BadBytes(s) <=> p + 1 \in TrailingGarbage(s, TRUE)
    BY <1>1, NotBad
  <2>2. p + 1 \in 2..Len(s) <=> p > 0
    BY <1>1
  <2>3. p + 1 \in TrailingGarbage(s, TRUE) <=> p > 0 /\ s[p] = Escape
    BY <1>1, <1>2, <2>2 DEF TrailingGarbage
  <2>4. q.after_closing_quote = (p > 0 /\ s[p] = Escape)
    BY <1>2 DEF QuoteAfter
  <2>5. QED
    BY <2>1, <2>3, <2>4
<1>5. IsFirstIn(s, r.violation, BadUpTo(s, p + 1))
  <2>1. IsFirstIn(s, q.violation, BadUpTo(s, p))
    BY DEF QuoteAfter
  <2>2. CASE ~q.after_closing_quote
    <3>1. r.violation = q.violation
      BY <2>2 DEF OnData, QuoteStates
    <3>2. BadUpTo(s, p + 1) = BadUpTo(s, p)
      BY <1>4, <2>2, BadUpToNext
    <3>3. QED
      BY <2>1, <3>1, <3>2
  <2>3. CASE q.after_closing_quote
    <3>1. r.violation = FirstOf(q.violation, [kind |-> "trailing_garbage", pos |-> p])
      BY <2>3 DEF OnData, QuoteStates
    <3>2. p + 1 \notin UnexpectedQuotes(s)
      BY DEF UnexpectedQuotes
    <3>3. ViolationAt(s, p + 1) = [kind |-> "trailing_garbage", pos |-> p]
      BY <1>1, <3>2 DEF ViolationAt
    <3>4. QED
      BY <1>4, <2>1, <2>3, <3>1, <3>3, BadUpToNext
  <2>4. QED
    BY <2>2, <2>3
<1> HIDE DEF r
<1>6. QuoteAfter(s, p + 1, r)
  <2>1. s[p + 1] \notin Separators \cup {LF} /\ s[p + 1] # Escape
    OBVIOUS
  <2>2. QED
    BY <1>1, <1>2, <1>3, <1>5, <2>1, OutsideQuotes
<1>7. QED
  BY <1>6 DEF r

(* A text that goes on does not change what is known of its beginning, if  *)
(* that ends with no escape or carriage return whose meaning is open.      *)
LEMMA BadUpToPrefix ==
    ASSUME NEW s \in Seq(Byte), NEW c \in Seq(Byte), NEW p \in 0..Len(s),
           p = Len(s) /\ p > 0 /\ s[p] = CR => Quoted(s, p + 1)
    PROVE  /\ BadUpTo(s \o c, p) = BadUpTo(s, p)
           /\ \A i \in BadUpTo(s, p) : ViolationAt(s \o c, i) = ViolationAt(s, i)
<1> DEFINE t == s \o c
<1>1. /\ t \in Seq(Byte) /\ Len(s) \in Nat /\ Len(t) \in Nat /\ Len(s) <= Len(t)
      /\ \A i \in 1..Len(s) : t[i] = s[i]
  BY ConcatProperties
<1>2. \A i \in 1..Len(s) + 1 : Quoted(t, i) = Quoted(s, i)
  BY ParityPrefix
<1> HIDE DEF t
<1>3. ASSUME NEW i \in Int, i <= p
      PROVE  i \in UnexpectedQuotes(t) <=> i \in UnexpectedQuotes(s)
  <2>1. i \in 2..Len(t) <=> i \in 2..Len(s)
    BY <1>1, <1>3
  <2>2. CASE i \in 2..Len(s)
    <3>1. i \in 1..Len(s) /\ i - 1 \in 1..Len(s) /\ i \in 1..Len(s) + 1
      BY <1>1, <2>2
    <3>2. t[i] = s[i] /\ t[i - 1] = s[i - 1] /\ Quoted(t, i) = Quoted(s, i)
      BY <1>1, <1>2, <3>1
    <3>3. QED
      BY <2>1, <2>2, <3>2 DEF UnexpectedQuotes
  <2>3. CASE i \notin 2..Len(s)
    BY <2>1, <2>3 DEF UnexpectedQuotes
  <2>4. QED
    BY <2>2, <2>3
<1>4. ASSUME NEW i \in Int, i <= p
      PROVE  i \in TrailingGarbage(t, TRUE) <=> i \in TrailingGarbage(s, TRUE)
  <2>1. i \in 2..Len(t) <=> i \in 2..Len(s)
    BY <1>1, <1>4
  <2>2. CASE i \in 2..Len(s)
    <3>1. i \in 1..Len(s) /\ i - 1 \in 1..Len(s) /\ i \in 1..Len(s) + 1
      BY <1>1, <2>2
    <3>2. t[i] = s[i] /\ t[i - 1] = s[i - 1] /\ Quoted(t, i) = Quoted(s, i)
      BY <1>1, <1>2, <3>1
    <3>3. CASE i < Len(s)
      <4>1. i + 1 \in 1..Len(s) /\ i # Len(s) /\ i # Len(t)
        BY <1>1, <3>1, <3>3
      <4>2. t[i + 1] = s[i + 1]
        BY <1>1, <4>1
      <4>3. QED
        BY <2>1, <2>2, <3>2, <4>1, <4>2 DEF TrailingGarbage
    <3>4. CASE i = Len(s)
      <4>1. p = Len(s) /\ p > 0 /\ p = i
        BY <1>1, <1>4, <2>2, <3>4
      <4>2. CASE s[i] = CR
        <5>1. Quoted(s, i + 1) /\ s[i] # Escape
          BY <4>1, <4>2, ByteRoles
        <5>2. Quoted(s, i)
          BY <3>1, <5>1, ParityStep
        <5>3. QED
          BY <3>2, <5>2 DEF TrailingGarbage
      <4>3. CASE s[i] # CR
        BY <2>1, <2>2, <3>2, <4>3 DEF TrailingGarbage
      <4>4. QED
        BY <4>2, <4>3
    <3>5. i < Len(s) \/ i = Len(s)
      BY <1>1, <2>2
    <3>6. QED
      BY <3>3, <3>4, <3>5, Zenon
  <2>3. CASE i \notin 2..Len(s)
    BY <2>1, <2>3 DEF TrailingGarbage
  <2>4. QED
    BY <2>2, <2>3
<1>5. BadUpTo(t, p) = BadUpTo(s, p)
  <2>1. BadBytes(t) \in SUBSET Int /\ BadBytes(s) \in SUBSET Int
    BY <1>1, BadBytesInText
  <2>2. \A i \in Int : i <= p => (i \in BadBytes(t) <=> i \in BadBytes(s))
    BY <1>3, <1>4 DEF BadBytes
  <2>3. QED
    BY <2>1, <2>2, Zenon DEF BadUpTo
<1>6. ASSUME NEW i \in BadUpTo(s, p)
      PROVE  ViolationAt(t, i) = ViolationAt(s, i)
  <2>1. i \in Int /\ i <= p
    BY BadBytesInText DEF BadUpTo
  <2>2. QED
    BY <1>3, <2>1 DEF ViolationAt
<1>7. QED
  BY <1>5, <1>6 DEF t

(* What the automaton knows stays true when bytes are appended.           *)
LEMMA QuoteGrows ==
    ASSUME NEW s \in Seq(Byte), NEW c \in Seq(Byte), NEW p \in 0..Len(s), NEW q,
           QuoteAfter(s, p, q),
           p = Len(s) /\ p > 0 /\ s[p] \in {CR, Escape} => Quoted(s, p + 1)
    PROVE  QuoteAfter(s \o c, p, q)
<1> DEFINE t == s \o c
<1>1. /\ t \in Seq(Byte) /\ Len(s) \in Nat /\ Len(t) \in Nat /\ Len(s) <= Len(t)
      /\ \A i \in 1..Len(s) : t[i] = s[i]
  BY ConcatProperties
<1>2. Quoted(t, p + 1) = Quoted(s, p + 1)
  BY ParityPrefix
<1>3. p > 0 => t[p] = s[p]
  BY <1>1
<1>4. /\ BadUpTo(t, p) = BadUpTo(s, p)
      /\ \A i \in BadUpTo(s, p) : ViolationAt(t, i) = ViolationAt(s, i)
  BY BadUpToPrefix
<1> HIDE DEF t
<1>5. IsFirstIn(t, q.violation, BadUpTo(t, p))
  <2>1. IsFirstIn(s, q.violation, BadUpTo(s, p))
    BY DEF QuoteAfter
  <2>2. QED
    BY <1>4, <2>1, Zenon DEF IsFirstIn
<1>6. ~Quoted(s, p + 1) /\ p > 0 /\ t[p] = Escape /\ p < Len(t) => t[p + 1] # Escape
  <2>1. SUFFICES ASSUME ~Quoted(s, p + 1), p > 0, s[p] = Escape
                 PROVE  t[p + 1] # Escape
    BY <1>3
  <2>2. p < Len(s) /\ p + 1 \in 1..Len(s)
    BY <2>1
  <2>3. s[p + 1] # Escape
    BY <2>1, <2>2 DEF QuoteAfter
  <2>4. QED
    BY <1>1, <2>2, <2>3
<1>7. QuoteAfter(t, p, q)
  BY <1>2, <1>3, <1>5, <1>6 DEF QuoteAfter
<1>8. QED
  BY <1>7 DEF t

-----------------------------------------------------------------------------
(* A row that stands in a text by itself. *)

(* The bad bytes of a part that begins at the start of a row are those of   *)
(* the text, if the byte after it does not change what its last one means.  *)
LEMMA BadOfPart ==
    ASSUME NEW s \in Seq(Byte), NEW a \in Nat, NEW b \in Nat, a <= b, b <= Len(s),
           ~Quoted(s, a + 1), a > 0 => s[a] = LF,
           b < Len(s) /\ s[b] = CR /\ a < b => Quoted(s, b) \/ s[b + 1] # LF,
           NEW i \in 1..b - a
    PROVE  LET line == SubSeq(s, a + 1, b)
           IN  /\ i \in UnexpectedQuotes(line) <=> a + i \in UnexpectedQuotes(s)
               /\ i \in TrailingGarbage(line, TRUE) <=> a + i \in TrailingGarbage(s, TRUE)
<1> DEFINE line == SubSeq(s, a + 1, b)
<1>1. /\ line \in Seq(Byte) /\ Len(line) = b - a
      /\ \A j \in 1..b - a : line[j] = s[a + j]
  <2>1. Len(s) \in Nat /\ \A j \in 1..Len(s) : s[j] \in Byte
    BY ElementOfSeq
  <2>2. \A j \in a + 1..b : s[j] \in Byte
    BY <2>1
  <2>3. a + 1 \in Int /\ b \in Int /\ (b - (a + 1)) + 1 = b - a
    OBVIOUS
  <2>4. /\ line \in Seq(Byte) /\ Len(line) = b - a
        /\ \A j \in 1..b - a : line[j] = s[(a + 1) + j - 1]
    BY <2>2, <2>3, SubSeqProperties
  <2>5. \A j \in 1..b - a : (a + 1) + j - 1 = a + j
    OBVIOUS
  <2>6. QED
    BY <2>4, <2>5
<1>2. \A j \in 1..(b - a) + 1 : Quoted(line, j) = Quoted(s, a + j)
  BY ParityOfPart
<1> HIDE DEF line
<1>3. /\ Len(s) \in Nat /\ i \in 1..(b - a) + 1 /\ a + i \in 1..Len(s)
      /\ line[i] = s[a + i] /\ Quoted(line, i) = Quoted(s, a + i)
  BY <1>1, <1>2
<1>4. CASE i = 1
  <2>1. i \notin UnexpectedQuotes(line) /\ i \notin TrailingGarbage(line, TRUE)
    BY <1>4 DEF UnexpectedQuotes, TrailingGarbage
  <2>2. (a + i) - 1 = a /\ (a + i >= 2 => a > 0)
    BY <1>4
  <2>3. a + i \in 2..Len(s) => s[(a + i) - 1] = LF
    BY <2>2
  <2>4. a + i \notin UnexpectedQuotes(s) /\ a + i \notin TrailingGarbage(s, TRUE)
    BY <2>3, ByteRoles DEF UnexpectedQuotes, TrailingGarbage
  <2>5. QED
    BY <2>1, <2>4 DEF line
<1>5. CASE i > 1
  <2>1. /\ i \in 2..Len(line) /\ a + i \in 2..Len(s) /\ i - 1 \in 1..b - a
        /\ a + (i - 1) = (a + i) - 1
    BY <1>1, <1>3, <1>5
  <2>2. line[i - 1] = s[(a + i) - 1]
    BY <1>1, <2>1
  <2>3. i \in UnexpectedQuotes(line) <=> a + i \in UnexpectedQuotes(s)
    BY <1>3, <2>1, <2>2 DEF UnexpectedQuotes
  <2>4. i \in TrailingGarbage(line, TRUE) <=> a + i \in TrailingGarbage(s, TRUE)
    <3>1. CASE s[a + i] # CR
      BY <1>3, <2>1, <2>2, <3>1 DEF TrailingGarbage
    <3>2. CASE i < b - a
      <4>1. /\ i + 1 \in 1..b - a /\ a + (i + 1) = (a + i) + 1
            /\ i # Len(line) /\ a + i # Len(s)
        BY <1>1, <3>2
      <4>2. line[i + 1] = s[(a + i) + 1]
        BY <1>1, <4>1
      <4>3. QED
        BY <1>3, <2>1, <2>2, <4>1, <4>2 DEF TrailingGarbage
    <3>3. CASE i = b - a /\ s[a + i] = CR
      <4>1. a + i = b /\ i = Len(line) /\ a < b /\ (b < Len(s) \/ b = Len(s))
        BY <1>1, <3>3
      <4>2. ~Quoted(s, b) => b = Len(s) \/ s[b + 1] # LF
        BY <3>3, <4>1
      <4>3. QED
        BY <1>3, <2>1, <2>2, <4>1, <4>2 DEF TrailingGarbage
    <3>4. i < b - a \/ i = b - a
      OBVIOUS
    <3>5. QED
      BY <3>1, <3>2, <3>3, <3>4, Zenon
  <2>5. QED
    BY <2>3, <2>4 DEF line
<1>6. i = 1 \/ i > 1
  OBVIOUS
<1>7. QED
  BY <1>4, <1>5, <1>6, Zenon

(* Some violation is the first of any set of bad bytes.                   *)
LEMMA FirstExists ==
    ASSUME NEW s \in Seq(Byte), NEW J \in SUBSET BadBytes(s)
    PROVE  \E v : IsFirstIn(s, v, J)
<1>1. CASE J = {}
  BY <1>1, FirstOfNone
<1>2. CASE J # {}
  <2>1. J \in SUBSET Int /\ IsFiniteSet(J)
    <3>1. Len(s) \in Nat /\ J \in SUBSET (2..Len(s))
      BY BadBytesInText
    <3>2. IsFiniteSet(2..Len(s))
      BY <3>1, FS_Interval
    <3>3. J \in SUBSET Int
      BY BadBytesInText
    <3>4. QED
      BY <3>1, <3>2, <3>3, FS_Subset, Zenon
  <2>2. PICK i \in J : \A j \in J : i <= j
    BY <1>2, <2>1, LeastOfFinite
  <2>3. IsFirstIn(s, ViolationAt(s, i), J)
    BY <2>2, Zenon DEF IsFirstIn
  <2>4. QED
    BY <2>3
<1>3. QED
  BY <1>1, <1>2

(* Where a row starts and what it says of the end of a text. *)
RowFrom(s, a) == ~Quoted(s, a + 1) /\ (a > 0 => s[a] = LF)

(* A part of a text, byte by byte.                                        *)
LEMMA PartOfText ==
    ASSUME NEW s \in Seq(Byte), NEW a \in Nat, NEW b \in Nat, a <= b, b <= Len(s)
    PROVE  /\ SubSeq(s, a + 1, b) \in Seq(Byte) /\ Len(SubSeq(s, a + 1, b)) = b - a
           /\ \A j \in 1..b - a : SubSeq(s, a + 1, b)[j] = s[a + j]
<1> DEFINE line == SubSeq(s, a + 1, b)
<1>1. Len(s) \in Nat /\ \A j \in 1..Len(s) : s[j] \in Byte
  BY ElementOfSeq
<1>2. \A j \in a + 1..b : s[j] \in Byte
  BY <1>1
<1>3. a + 1 \in Int /\ b \in Int /\ (b - (a + 1)) + 1 = b - a
  OBVIOUS
<1>4. /\ line \in Seq(Byte) /\ Len(line) = b - a
      /\ \A j \in 1..b - a : line[j] = s[(a + 1) + j - 1]
  BY <1>2, <1>3, SubSeqProperties
<1>5. \A j \in 1..b - a : (a + 1) + j - 1 = a + j
  OBVIOUS
<1>6. QED
  BY <1>4, <1>5

(* A row without a bad byte that ends outside quotes has no violation. *)
LEMMA RowIsWellFormed ==
    ASSUME NEW s \in Seq(Byte), NEW a \in Nat, NEW b \in Nat, a <= b, b <= Len(s),
           RowFrom(s, a), ~Quoted(s, b + 1), BadUpTo(s, b) = {},
           b < Len(s) /\ s[b] = CR /\ a < b => s[b + 1] # LF
    PROVE  FirstViolation(SubSeq(s, a + 1, b), TRUE) = NoViolation
<1> DEFINE line == SubSeq(s, a + 1, b)
<1>1. line \in Seq(Byte) /\ Len(line) = b - a
  BY PartOfText
<1>2. BadBytes(line) = {}
  <2>1. SUFFICES ASSUME NEW i \in BadBytes(line) PROVE FALSE
    OBVIOUS
  <2>2. i \in 1..b - a
    <3>1. i \in 2..Len(line)
      BY <1>1, BadBytesInText
    <3>2. QED
      BY <1>1, <3>1
  <2>3. a + i \in BadBytes(s)
    BY <2>2, BadOfPart DEF BadBytes, RowFrom
  <2>4. a + i <= b
    BY <2>2
  <2>5. QED
    BY <2>3, <2>4 DEF BadUpTo
<1>3. ~Quoted(line, Len(line) + 1)
  <2>1. (b - a) + 1 \in 1..(b - a) + 1 /\ a + ((b - a) + 1) = b + 1
    OBVIOUS
  <2>2. Quoted(line, (b - a) + 1) = Quoted(s, b + 1)
    BY <2>1, ParityOfPart DEF RowFrom
  <2>3. QED
    BY <1>1, <2>2
<1>4. IsFirstIn(line, NoViolation, BadBytes(line))
  BY <1>2, FirstOfNone
<1> HIDE DEF line
<1>5. FirstViolation(line, TRUE) = NoViolation
  BY <1>1, <1>3, <1>4, FirstOfAll
<1>6. QED
  BY <1>5 DEF line

(* An unterminated quote is reported at a place of the whole text.        *)
LEMMA RebaseUnterminated ==
    ASSUME NEW n \in Nat, NEW a \in Nat
    PROVE  Rebase([kind |-> "unterminated_quote", pos |-> n], a)
              = [kind |-> "unterminated_quote", pos |-> n + a]
<1>1. [kind |-> "unterminated_quote", pos |-> n] # NoViolation
  <2>1. [kind |-> "unterminated_quote", pos |-> n].kind = "unterminated_quote"
        /\ NoViolation.kind = "none"
    BY DEF NoViolation
  <2>2. QED
    BY <2>1
<1>2. QED
  BY <1>1 DEF Rebase

(* When nothing more follows, the first violation of a text is the one seen *)
(* so far, or else that of its last row.                                    *)
LEMMA ViolationOfRest ==
    ASSUME NEW s \in Seq(Byte), NEW a \in Nat, NEW p \in Nat, a <= p, p <= Len(s),
           RowFrom(s, a), NEW v, IsFirstIn(s, v, BadUpTo(s, p))
    PROVE  FirstViolation(s, TRUE) =
              FirstOf(v, Rebase(FirstViolation(SubSeq(s, a + 1, Len(s)), TRUE), a))
<1> DEFINE line == SubSeq(s, a + 1, Len(s))
           unterminated(n) == [kind |-> "unterminated_quote", pos |-> n]
<1>0. Len(s) \in Nat
  OBVIOUS
<1>1. line \in Seq(Byte) /\ Len(line) = Len(s) - a
  BY <1>0, PartOfText
<1>2. \A i \in 1..Len(s) - a :
         /\ i \in UnexpectedQuotes(line) <=> a + i \in UnexpectedQuotes(s)
         /\ i \in TrailingGarbage(line, TRUE) <=> a + i \in TrailingGarbage(s, TRUE)
  <2>1. /\ Len(s) <= Len(s) /\ a <= Len(s) /\ ~(Len(s) < Len(s))
        /\ ~Quoted(s, a + 1) /\ (a > 0 => s[a] = LF)
    BY <1>0 DEF RowFrom
  <2>2. QED
    BY <1>0, <2>1, BadOfPart
<1>3. Quoted(line, Len(line) + 1) = Quoted(s, Len(s) + 1)
  <2>1. (Len(s) - a) + 1 \in 1..(Len(s) - a) + 1 /\ a + ((Len(s) - a) + 1) = Len(s) + 1
    BY <1>0
  <2>2. Quoted(line, (Len(s) - a) + 1) = Quoted(s, Len(s) + 1)
    BY <1>0, <2>1, ParityOfPart DEF RowFrom
  <2>3. QED
    BY <1>1, <2>2
<1> HIDE DEF line
<1>4. PICK u : IsFirstIn(line, u, BadBytes(line))
  BY <1>1, FirstExists
<1>5. FirstViolation(line, TRUE) =
         IF Quoted(s, Len(s) + 1) THEN FirstOf(u, unterminated(Len(line))) ELSE u
  BY <1>1, <1>3, <1>4, FirstOfAll
<1>6. CASE v # NoViolation
  <2>1. PICK i \in BadUpTo(s, p) : (\A j \in BadUpTo(s, p) : i <= j) /\ v = ViolationAt(s, i)
    BY <1>6, Zenon DEF IsFirstIn
  <2>2. i \in BadBytes(s) /\ i <= p /\ BadBytes(s) \in SUBSET Int
    BY BadBytesInText DEF BadUpTo
  <2>3. \A j \in BadBytes(s) : i <= j
    BY <2>1, <2>2 DEF BadUpTo
  <2>4. IsFirstIn(s, v, BadBytes(s))
    BY <2>1, <2>2, <2>3, Zenon DEF IsFirstIn
  <2>5. FirstViolation(s, TRUE) = v
    BY <1>6, <2>4, FirstOfAll DEF FirstOf
  <2>6. QED
    BY <1>6, <2>5 DEF FirstOf
<1>7. CASE v = NoViolation
  <2>1. BadUpTo(s, p) = {}
    BY <1>7, ViolationIsSome, Zenon DEF IsFirstIn
  <2>2. \A j \in BadBytes(s) : j \in Int /\ a < j /\ j <= Len(s)
    BY <2>1, BadBytesInText DEF BadUpTo
  <2>3. CASE BadBytes(line) = {}
    <3>1. BadBytes(s) = {}
      <4>1. SUFFICES ASSUME NEW j \in BadBytes(s) PROVE FALSE
        OBVIOUS
      <4>2. j - a \in 1..Len(s) - a /\ a + (j - a) = j
        BY <1>0, <2>2
      <4>3. j - a \in BadBytes(line)
        BY <1>2, <4>2 DEF BadBytes
      <4>4. QED
        BY <2>3, <4>3
    <3>2. u = NoViolation
      BY <1>4, <2>3, Zenon DEF IsFirstIn
    <3>3. FirstViolation(s, TRUE) =
             IF Quoted(s, Len(s) + 1) THEN unterminated(Len(s)) ELSE NoViolation
      BY <3>1, FirstOfNone, FirstOfAll DEF FirstOf
    <3>4. FirstViolation(line, TRUE) =
             IF Quoted(s, Len(s) + 1) THEN unterminated(Len(line)) ELSE NoViolation
      BY <1>5, <3>2 DEF FirstOf
    <3>5. Rebase(unterminated(Len(line)), a) = unterminated(Len(s))
      <4>1. Len(line) \in Nat /\ Len(line) + a = Len(s)
        BY <1>0, <1>1
      <4>2. QED
        BY <4>1, RebaseUnterminated
    <3>6. Rebase(NoViolation, a) = NoViolation
      BY DEF Rebase
    <3>7. Rebase(FirstViolation(line, TRUE), a) = FirstViolation(s, TRUE)
      BY <3>3, <3>4, <3>5, <3>6
    <3>8. QED
      BY <1>7, <3>7 DEF FirstOf, line
  <2>4. CASE BadBytes(line) # {}
    <3>1. PICK i \in BadBytes(line) : (\A j \in BadBytes(line) : i <= j)
                                      /\ u = ViolationAt(line, i)
      BY <1>4, <2>4, Zenon DEF IsFirstIn
    <3>2. i \in 1..Len(s) - a /\ i \in Int /\ a + i \in Int
      BY <1>0, <1>1, BadBytesInText
    <3>3. a + i \in BadBytes(s)
      BY <1>2, <3>1, <3>2 DEF BadBytes
    <3>4. \A j \in BadBytes(s) : a + i <= j
      <4>1. TAKE j \in BadBytes(s)
      <4>2. j - a \in 1..Len(s) - a /\ a + (j - a) = j
        BY <1>0, <2>2
      <4>3. j - a \in BadBytes(line)
        BY <1>2, <4>2 DEF BadBytes
      <4>4. i <= j - a
        BY <3>1, <4>3
      <4>5. QED
        BY <2>2, <3>2, <4>4
    <3>5. IsFirstIn(s, ViolationAt(s, a + i), BadBytes(s))
      BY <3>3, <3>4, Zenon DEF IsFirstIn
    <3>6. FirstViolation(s, TRUE) = ViolationAt(s, a + i)
      BY <3>5, FirstOfAll, ViolationIsSome DEF FirstOf
    <3>7. u # NoViolation /\ FirstViolation(line, TRUE) = u
      BY <1>5, <3>1, ViolationIsSome DEF FirstOf
    <3>8. Rebase(u, a) = ViolationAt(s, a + i)
      <4>1. Rebase(u, a) = [u EXCEPT !.pos = @ + a]
        BY <3>7 DEF Rebase
      <4>2. (i - 1) + a = (a + i) - 1
        BY <3>2
      <4>3. QED
        BY <1>2, <3>1, <3>2, <4>1, <4>2 DEF ViolationAt
    <3>9. QED
      BY <1>7, <3>6, <3>7, <3>8 DEF FirstOf, line
  <2>5. QED
    BY <2>3, <2>4
<1>8. QED
  BY <1>6, <1>7

(* While a text may go on, the first violation known is the first up to p,  *)
(* if a reader waits there for the byte after an escape or carriage return. *)
LEMMA FirstSoFar ==
    ASSUME NEW s \in Seq(Byte), NEW p \in Nat, NEW v, IsFirstIn(s, v, BadUpTo(s, p)),
           \/ p = Len(s) /\ (p > 0 /\ s[p] = CR => Quoted(s, p + 1))
           \/ p + 1 = Len(s) /\ Quoted(s, p + 1) /\ s[p + 1] = Escape
           \/ p + 1 = Len(s) /\ s[p + 1] = CR
    PROVE  FirstViolation(s, FALSE) = v
<1> DEFINE found == UnexpectedQuotes(s) \cup TrailingGarbage(s, FALSE)
<1>0. Len(s) \in Nat
  OBVIOUS
<1>1. \A i \in found : i \in 2..Len(s)
  BY DEF UnexpectedQuotes, TrailingGarbage
<1>2. ASSUME NEW i \in 2..Len(s), i < Len(s)
      PROVE  i \in found <=> i \in BadUpTo(s, p)
  <2>1. i <= p /\ i # Len(s)
    BY <1>0, <1>2
  <2>2. i \in TrailingGarbage(s, FALSE) <=> i \in TrailingGarbage(s, TRUE)
    BY <2>1 DEF TrailingGarbage
  <2>3. QED
    BY <2>1, <2>2 DEF BadUpTo, BadBytes
<1>3. ASSUME NEW i \in 2..Len(s), i = Len(s)
      PROVE  i \in found <=> i \in BadUpTo(s, p)
  <2>1. CASE p = Len(s) /\ (p > 0 /\ s[p] = CR => Quoted(s, p + 1))
    <3>1. i \in 1..Len(s) /\ i <= p /\ p > 0 /\ i = p
      BY <1>0, <1>3, <2>1
    <3>2. CASE s[i] = CR
      <4>1. Quoted(s, i)
        BY <2>1, <3>1, <3>2, ParityStep, ByteRoles
      <4>2. i \notin found
        BY <4>1 DEF UnexpectedQuotes, TrailingGarbage
      <4>3. i \notin BadBytes(s)
        BY <3>1, <4>1, NotBad
      <4>4. QED
        BY <4>2, <4>3 DEF BadUpTo
    <3>3. CASE s[i] # CR
      <4>1. i \in TrailingGarbage(s, FALSE) <=> i \in TrailingGarbage(s, TRUE)
        BY <3>3 DEF TrailingGarbage
      <4>2. QED
        BY <3>1, <4>1 DEF BadUpTo, BadBytes
    <3>4. QED
      BY <3>2, <3>3
  <2>2. CASE p + 1 = Len(s) /\ Quoted(s, p + 1) /\ s[p + 1] = Escape
    <3>1. i = p + 1 /\ ~(i <= p)
      BY <1>3, <2>2
    <3>2. i \notin found
      BY <2>2, <3>1 DEF UnexpectedQuotes, TrailingGarbage
    <3>3. QED
      BY <3>1, <3>2 DEF BadUpTo
  <2>3. CASE p + 1 = Len(s) /\ s[p + 1] = CR
    <3>1. i = p + 1 /\ ~(i <= p)
      BY <1>3, <2>3
    <3>2. i \notin found
      BY <1>3, <2>3, <3>1, ByteRoles DEF UnexpectedQuotes, TrailingGarbage
    <3>3. QED
      BY <3>1, <3>2 DEF BadUpTo
  <2>4. QED
    BY <2>1, <2>2, <2>3
<1>4. found = BadUpTo(s, p)
  <2>1. \A i \in BadUpTo(s, p) : i \in 2..Len(s)
    BY BadBytesInText DEF BadUpTo
  <2>2. \A i \in 2..Len(s) : i < Len(s) \/ i = Len(s)
    BY <1>0
  <2> HIDE DEF found
  <2>3. \A i \in 2..Len(s) : i \in found <=> i \in BadUpTo(s, p)
    BY <1>2, <1>3, <2>2, Zenon
  <2>4. QED
    BY <1>1, <2>1, <2>3 DEF found
<1>5. CASE found = {}
  <2>1. v = NoViolation
    BY <1>4, <1>5, Zenon DEF IsFirstIn
  <2>2. QED
    BY <1>5, <2>1 DEF FirstViolation
<1>6. CASE found # {}
  <2>1. PICK i \in found : (\A j \in found : i <= j) /\ v = ViolationAt(s, i)
    BY <1>4, <1>6, Zenon DEF IsFirstIn
  <2>2. found \in SUBSET Int
    <3>1. \A j \in 2..Len(s) : j \in Int
      OBVIOUS
    <3>2. QED
      BY <1>1, <3>1, Zenon
  <2>3. Min(found) = i
    BY <2>1, <2>2, MinIsLeast
  <2>4. QED
    BY <1>6, <2>1, <2>3 DEF FirstViolation, ViolationAt
<1>7. QED
  BY <1>5, <1>6

-----------------------------------------------------------------------------
(* What holds of 0 and passes from each number to the next. *)

(* Induction up to m, on a set.                                           *)
LEMMA UpTo ==
    ASSUME NEW m \in Nat, NEW P, 0 \in P, \A n \in 1..m : n - 1 \in P => n \in P
    PROVE  \A n \in 0..m : n \in P
<1> DEFINE Q == {n \in 0..m : n \notin P}
<1>1. SUFFICES ASSUME Q # {} PROVE FALSE
  OBVIOUS
<1>2. Q \in SUBSET Int /\ IsFiniteSet(Q)
  <2>1. IsFiniteSet(0..m)
    BY FS_Interval
  <2>2. QED
    BY <2>1, FS_Subset
<1>3. PICK i \in Q : \A j \in Q : i <= j
  <2> HIDE DEF Q
  <2>1. QED
    BY <1>1, <1>2, LeastOfFinite
<1>4. i \in 1..m /\ i - 1 \in 0..m /\ ~(i <= i - 1)
  BY <1>3
<1>5. i - 1 \in P
  BY <1>3, <1>4
<1>6. QED
  BY <1>3, <1>4, <1>5

(* A reading that goes on from a state by steps. *)
Readings(m, S, first, step) ==
    {f \in [0..m -> S] : f[0] = first /\ \A n \in 1..m : f[n] = step[n][f[n - 1]]}

(* Reading from a first state, step by step, is possible.                 *)
LEMMA ReadingExists ==
    ASSUME NEW m \in Nat, NEW S, NEW first \in S, NEW step \in [1..m -> [S -> S]]
    PROVE  Readings(m, S, first, step) # {}
<1> DEFINE Reads(k, f) == f[0] = first /\ \A n \in 1..k : f[n] = step[n][f[n - 1]]
           P == {k \in 0..m : \E f \in [0..k -> S] : Reads(k, f)}
<1>1. 0 \in P
  <2> DEFINE g == [n \in 0..0 |-> first]
  <2>1. g \in [0..0 -> S] /\ Reads(0, g) /\ 0 \in 0..m
    OBVIOUS
  <2> HIDE DEF g, Reads
  <2>2. QED
    BY <2>1
<1>2. ASSUME NEW k \in 1..m, k - 1 \in P
      PROVE  k \in P
  <2>1. PICK f \in [0..k - 1 -> S] : Reads(k - 1, f)
    BY <1>2
  <2> DEFINE g == [n \in 0..k |-> IF n = k THEN step[k][f[k - 1]] ELSE f[n]]
  <2>2. k - 1 \in 0..k - 1 /\ step[k] \in [S -> S] /\ f[k - 1] \in S
    OBVIOUS
  <2>3. step[k][f[k - 1]] \in S
    BY <2>2
  <2>4. \A n \in 0..k : n # k => n \in 0..k - 1
    OBVIOUS
  <2>5. g \in [0..k -> S]
    BY <2>3, <2>4
  <2>6. g[0] = first
    BY <2>1
  <2>7. ASSUME NEW n \in 1..k
        PROVE  g[n] = step[n][g[n - 1]]
    <3>1. n - 1 \in 0..k - 1 /\ n - 1 # k /\ n \in 0..k /\ n - 1 \in 0..k
      OBVIOUS
    <3>2. g[n - 1] = f[n - 1]
      BY <3>1
    <3>3. CASE n = k
      <4>1. g[n] = step[k][f[k - 1]]
        BY <3>1, <3>3
      <4>2. QED
        BY <3>2, <3>3, <4>1
    <3>4. CASE n # k
      <4>1. g[n] = f[n] /\ n \in 1..k - 1
        BY <3>1, <3>4
      <4>2. f[n] = step[n][f[n - 1]]
        BY <2>1, <4>1
      <4>3. QED
        BY <3>2, <4>1, <4>2
    <3>5. QED
      BY <3>3, <3>4
  <2> HIDE DEF g
  <2>8. Reads(k, g)
    BY <2>6, <2>7
  <2> HIDE DEF Reads
  <2>9. QED
    BY <2>5, <2>8
<1> HIDE DEF P
<1>3. \A k \in 0..m : k \in P
  BY <1>1, <1>2, UpTo
<1>4. m \in P
  BY <1>3
<1>5. QED
  BY <1>4 DEF P, Readings

-----------------------------------------------------------------------------
(* A text that grows. *)

(* What is appended does not change the row ends before it. *)
LEMMA RowEndsGrow ==
    ASSUME NEW s \in Seq(Byte), NEW c \in Seq(Byte)
    PROVE  /\ \A i \in 1..Len(s) : i \in RowEnds(s \o c) <=> i \in RowEnds(s)
           /\ Cardinality(RowEnds(s)) <= Cardinality(RowEnds(s \o c))
           /\ \A k \in 0..Cardinality(RowEnds(s)) : RowEnd(s \o c, k) = RowEnd(s, k)
<1> DEFINE w == s \o c
           S == RowEnds(s)
           T == {i \in RowEnds(w) : i > Len(s)}
<1>1. /\ w \in Seq(Byte) /\ Len(w) = Len(s) + Len(c) /\ Len(s) \in Nat /\ Len(c) \in Nat
      /\ \A i \in 1..Len(s) : w[i] = s[i]
  BY ConcatProperties
<1>2. \A i \in 1..Len(s) : Quoted(w, i) = Quoted(s, i)
  BY ParityPrefix
<1>3. \A i \in 1..Len(s) : i \in 1..Len(w)
  BY <1>1
<1>4. DOMAIN s = 1..Len(s) /\ DOMAIN w = 1..Len(w)
  BY <1>1
<1> HIDE DEF w
<1>5. \A i \in 1..Len(s) : i \in RowEnds(w) <=> i \in RowEnds(s)
  BY <1>1, <1>2, <1>3, <1>4 DEF RowEnds
<1>6. /\ S \in SUBSET Int /\ IsFiniteSet(S) /\ Cardinality(S) \in Nat
      /\ S \in SUBSET (1..Len(s))
      /\ RowEnds(w) \in SUBSET Int /\ IsFiniteSet(RowEnds(w)) /\ Cardinality(RowEnds(w)) \in Nat
      /\ RowEnds(w) \in SUBSET (1..Len(w))
  BY <1>1, RowEndsFinite
<1>7. T \in SUBSET Int /\ IsFiniteSet(T) /\ \A i \in S, k \in T : i < k
  <2>1. T \subseteq RowEnds(w)
    OBVIOUS
  <2>2. IsFiniteSet(T)
    BY <1>6, <2>1, FS_Subset
  <2>3. \A i \in S, k \in T : i < k
    <3>1. ASSUME NEW i \in S, NEW k \in T
          PROVE  i < k
      <4>1. i \in Int /\ i <= Len(s) /\ k \in Int /\ k > Len(s)
        BY <1>6
      <4>2. QED
        BY <1>1, <4>1
    <3>2. QED
      BY <3>1
  <2>4. QED
    BY <1>6, <2>1, <2>2, <2>3
<1>8. RowEnds(w) = S \cup T
  <2>1. ASSUME NEW i \in RowEnds(w)
        PROVE  i \in S \cup T
    <3>1. i \in 1..Len(s) \/ i > Len(s)
      BY <1>1, <1>6
    <3>2. QED
      BY <1>5, <3>1
  <2>2. S \subseteq RowEnds(w)
    BY <1>5, <1>6
  <2>3. QED
    BY <2>1, <2>2
<1>9. \A n \in 1..Cardinality(S) : Nth(S \cup T, n) = Nth(S, n)
  <2> HIDE DEF S, T
  <2>1. QED
    BY <1>6, <1>7, NthOfUnion
<1>10. Cardinality(S) <= Cardinality(RowEnds(w))
  <2>1. S \subseteq RowEnds(w)
    BY <1>8
  <2> HIDE DEF S
  <2>2. QED
    BY <1>6, <2>1, FS_Subset
<1>11. \A k \in 0..Cardinality(S) : RowEnd(w, k) = RowEnd(s, k)
  <2>1. \A k \in 0..Cardinality(S) : k # 0 => k \in 1..Cardinality(S)
    BY <1>6
  <2>2. QED
    BY <1>8, <1>9, <2>1 DEF RowEnd
<1>12. QED
  BY <1>5, <1>10, <1>11 DEF w

(* A line stays the same when bytes are appended to the text.             *)
LEMMA LinePrefix ==
    ASSUME NEW s \in Seq(Byte), NEW c \in Seq(Byte),
           NEW first \in 1..Len(s), NEW last \in first..Len(s)
    PROVE  LineAt(s \o c, first, last) = LineAt(s, first, last)
<1> DEFINE cut(t) == IF last > first /\ t[last - 1] = CR THEN last - 2 ELSE last - 1
<1>1. last > first => (s \o c)[last - 1] = s[last - 1]
  BY ConcatProperties
<1>2. cut(s \o c) = cut(s) /\ cut(s) \in first - 1..Len(s)
  BY <1>1
<1>3. SubSeq(s \o c, first, cut(s)) = SubSeq(s, first, cut(s))
  <2>1. CASE cut(s) < first
    BY <1>2, <2>1, SubSeqEmpty
  <2>2. CASE cut(s) >= first
    BY <1>2, <2>2, SubSeqOfConcat1
  <2>3. QED
    BY <1>2, <2>1, <2>2
<1>4. LineAt(s \o c, first, last) = SubSeq(s \o c, first, cut(s \o c))
      /\ LineAt(s, first, last) = SubSeq(s, first, cut(s))
  BY DEF LineAt
<1> HIDE DEF cut
<1>5. QED
  BY <1>2, <1>3, <1>4

(* The rows that have ended stay the first rows when bytes are appended. *)
LEMMA EndedLinesGrow ==
    ASSUME NEW s \in Seq(Byte), NEW c \in Seq(Byte)
    PROVE  /\ Len(EndedLines(s)) <= Len(EndedLines(s \o c))
           /\ \A k \in 1..Len(EndedLines(s)) : EndedLines(s \o c)[k] = EndedLines(s)[k]
<1> DEFINE w == s \o c
           n == Cardinality(RowEnds(s))
           m == Cardinality(RowEnds(w))
<1>1. /\ w \in Seq(Byte) /\ n \in Nat /\ m \in Nat /\ n <= m
      /\ \A k \in 0..n : RowEnd(w, k) = RowEnd(s, k)
  BY ConcatProperties, RowEndsGrow, RowEndsFinite
<1>2. /\ Len(EndedLines(s)) = n
      /\ \A k \in 1..n : EndedLines(s)[k] = LineAt(s, RowEnd(s, k - 1) + 1, RowEnd(s, k))
  BY EndedLinesAt
<1>3. /\ Len(EndedLines(w)) = m
      /\ \A k \in 1..m : EndedLines(w)[k] = LineAt(w, RowEnd(w, k - 1) + 1, RowEnd(w, k))
  BY <1>1, EndedLinesAt
<1>4. ASSUME NEW k \in 1..n
      PROVE  EndedLines(w)[k] = EndedLines(s)[k]
  <2>1. k \in 1..m /\ k \in 0..n /\ k - 1 \in 0..n /\ k > 0 /\ k - 1 < k
    BY <1>1
  <2>2. RowEnd(w, k) = RowEnd(s, k) /\ RowEnd(w, k - 1) = RowEnd(s, k - 1)
    BY <1>1, <2>1
  <2>3. /\ RowEnd(s, k - 1) \in 0..Len(s) /\ RowEnd(s, k) \in 0..Len(s)
        /\ RowEnd(s, k - 1) < RowEnd(s, k)
    BY <2>1, RowEndInText
  <2> DEFINE a == RowEnd(s, k - 1) + 1
             b == RowEnd(s, k)
  <2>4. a \in 1..Len(s) /\ b \in a..Len(s)
    BY <2>3
  <2> HIDE DEF a, b
  <2>5. LineAt(w, a, b) = LineAt(s, a, b)
    BY <2>4, LinePrefix DEF w
  <2>6. QED
    BY <1>2, <1>3, <2>1, <2>2, <2>5 DEF a, b
<1> HIDE DEF w, n
<1>5. QED
  BY <1>1, <1>2, <1>3, <1>4 DEF w

(* All rows of a text begin with those that have ended in any part of it   *)
(* from its start.                                                         *)
LEMMA AllLinesGrow ==
    ASSUME NEW s \in Seq(Byte), NEW c \in Seq(Byte)
    PROVE  /\ AllLines(s \o c) \in Seq(Seq(Byte))
           /\ Len(EndedLines(s)) <= Len(AllLines(s \o c))
           /\ \A k \in 1..Len(EndedLines(s)) : AllLines(s \o c)[k] = EndedLines(s)[k]
<1> DEFINE w == s \o c
           lines == EndedLines(w)
           tail == IF LastLine(w) = <<>> THEN <<>> ELSE <<LastLine(w)>>
           R == Seq(Byte)
<1>1. w \in Seq(Byte) /\ Len(w) \in Nat
  BY ConcatProperties
<1>2. lines \in Seq(R) /\ Len(lines) \in Nat /\ Len(EndedLines(s)) \in Nat
  BY <1>1, EndedLinesAt, RowEndsFinite
<1>3. LastLine(w) \in R
  <2> DEFINE a == RowEnd(w, Cardinality(RowEnds(w)))
  <2>1. Cardinality(RowEnds(w)) \in 0..Cardinality(RowEnds(w))
    <3> DEFINE n == Cardinality(RowEnds(w))
    <3>1. n \in Nat
      BY <1>1, RowEndsFinite
    <3> HIDE DEF n
    <3>2. n \in 0..n
      BY <3>1
    <3>3. QED
      BY <3>2 DEF n
  <2>2. a \in 0..Len(w)
    BY <1>1, <2>1, RowEndInText
  <2>3. LastLine(w) = SubSeq(w, a + 1, Len(w))
    BY <1>1, LastLineAt
  <2> HIDE DEF a
  <2>4. a \in Nat /\ Len(w) \in Nat /\ a <= Len(w) /\ Len(w) <= Len(w)
    BY <1>1, <2>2
  <2>5. QED
    BY <1>1, <2>3, <2>4, PartOfText
<1> HIDE DEF R
<1>4. tail \in Seq(R) /\ Len(tail) \in Nat
  BY <1>3
<1>5. AllLines(w) = lines \o tail
  BY DEF AllLines
<1> HIDE DEF lines, tail
<1>6. /\ lines \o tail \in Seq(R) /\ Len(lines \o tail) = Len(lines) + Len(tail)
      /\ \A k \in 1..Len(lines) + Len(tail) :
            (lines \o tail)[k] = IF k <= Len(lines) THEN lines[k] ELSE tail[k - Len(lines)]
  BY <1>2, <1>4, ConcatProperties
<1>7. /\ Len(EndedLines(s)) <= Len(lines)
      /\ \A k \in 1..Len(EndedLines(s)) : lines[k] = EndedLines(s)[k]
  BY EndedLinesGrow DEF lines, w
<1>8. \A k \in 1..Len(EndedLines(s)) : k \in 1..Len(lines) + Len(tail) /\ k <= Len(lines)
  BY <1>2, <1>4, <1>7
<1>9. Len(EndedLines(s)) <= Len(lines) + Len(tail)
  BY <1>2, <1>4, <1>7
<1>10. QED
  BY <1>5, <1>6, <1>7, <1>8, <1>9 DEF w, R

(* A violation that a part of a text is known to have is one of the text. *)
LEMMA ViolationStays ==
    ASSUME NEW s \in Seq(Byte), NEW c \in Seq(Byte),
           FirstViolation(s, FALSE) # NoViolation
    PROVE  FirstViolation(s \o c, TRUE) # NoViolation
<1> DEFINE w == s \o c
<1>1. /\ w \in Seq(Byte) /\ Len(w) = Len(s) + Len(c) /\ Len(s) \in Nat /\ Len(c) \in Nat
      /\ \A i \in 1..Len(s) : w[i] = s[i]
  BY ConcatProperties
<1>2. \A i \in 1..Len(s) : Quoted(w, i) = Quoted(s, i)
  BY ParityPrefix
<1> HIDE DEF w
<1>3. PICK i \in UnexpectedQuotes(s) \cup TrailingGarbage(s, FALSE) : TRUE
  BY DEF FirstViolation
<1>4. i \in 2..Len(s) /\ i \in 1..Len(s) /\ i - 1 \in 1..Len(s) /\ i \in 2..Len(w)
  BY <1>1, <1>3 DEF UnexpectedQuotes, TrailingGarbage
<1>5. CASE i \in UnexpectedQuotes(s)
  <2>1. i \in UnexpectedQuotes(w)
    BY <1>1, <1>2, <1>4, <1>5 DEF UnexpectedQuotes
  <2>2. QED
    BY <2>1 DEF FirstViolation, NoViolation, w
<1>6. CASE i \in TrailingGarbage(s, FALSE)
  <2>1. /\ s[i - 1] = Escape /\ ~Quoted(s, i) /\ s[i] \notin Separators \cup {LF, Escape}
        /\ s[i] = CR => i # Len(s) /\ s[i + 1] # LF
    BY <1>6 DEF TrailingGarbage
  <2>2. s[i] = CR => i # Len(w) /\ w[i + 1] # LF
    <3>1. i # Len(s) => i + 1 \in 1..Len(s) /\ i # Len(w)
      BY <1>1, <1>4
    <3>2. QED
      BY <1>1, <2>1, <3>1
  <2>3. i \in TrailingGarbage(w, TRUE)
    BY <1>1, <1>2, <1>4, <2>1, <2>2 DEF TrailingGarbage
  <2>4. QED
    BY <2>3 DEF FirstViolation, NoViolation, w
<1>7. QED
  BY <1>3, <1>5, <1>6
=============================================================================

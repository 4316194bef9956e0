---------------------------- MODULE BbipFileFacts ----------------------------
(***************************************************************************)
(* What the proofs about the file's writer and readers use of it, and of   *)
(* numbers.                                                                *)
(***************************************************************************)
EXTENDS BbipFile, TLAPS

LOCAL INSTANCE FiniteSetTheorems

\* What is read at the cells of record k, and at the header's.
LEMMA Words ==
    ASSUME NEW f, IsDataFile(f), f.n > 0
    PROVE  /\ Word(f, 0) = f.n
           /\ \A k \in 1..f.n :
                 /\ Word(f, StartCell(f, k)) = f.start[k]
                 /\ Word(f, EndCell(f, k)) = f.end[k]
                 /\ Word(f, PtrCell(f, k)) = BlobCell(f, k)
                 /\ Strings(f, BlobCell(f, k)) = f.data[k]
                 /\ f.start[k] \in Nat /\ f.end[k] \in Nat /\ BlobCell(f, k) \in Nat
                 /\ BlobCell(f, k) # 0
  <1>1. f.n \in Nat /\ f.start \in [1..f.n -> Addr] /\ f.end \in [1..f.n -> Addr]
    BY DEF IsDataFile
  <1>2. Word(f, 0) = f.n
    BY DEF Word
  <1>3. ASSUME NEW k \in 1..f.n
        PROVE  /\ Word(f, StartCell(f, k)) = f.start[k]
               /\ Word(f, EndCell(f, k)) = f.end[k]
               /\ Word(f, PtrCell(f, k)) = BlobCell(f, k)
               /\ Strings(f, BlobCell(f, k)) = f.data[k]
               /\ f.start[k] \in Nat /\ f.end[k] \in Nat /\ BlobCell(f, k) \in Nat
               /\ BlobCell(f, k) # 0
    <2>1. f.start[k] \in Nat /\ f.end[k] \in Nat /\ BlobCell(f, k) \in Nat \ {0}
      BY <1>1, MaxIPAssumption DEF Addr, BlobCell
    <2>2. Word(f, StartCell(f, k)) = f.start[k]
      BY <1>1 DEF Word, StartCell
    <2>3. Word(f, EndCell(f, k)) = f.end[k]
      <3>1. /\ EndCell(f, k) - f.n = k /\ EndCell(f, k) # 0
            /\ ~(EndCell(f, k) <= f.n) /\ EndCell(f, k) <= 2 * f.n
        BY <1>1 DEF EndCell
      <3> QED BY <3>1 DEF Word
    <2>4. Word(f, PtrCell(f, k)) = BlobCell(f, k)
      <3>1. /\ PtrCell(f, k) - 2 * f.n = k /\ PtrCell(f, k) # 0
            /\ ~(PtrCell(f, k) <= f.n) /\ ~(PtrCell(f, k) <= 2 * f.n)
        BY <1>1 DEF PtrCell
      <3>2. f.ptr[k] = BlobCell(f, k)
        BY <1>1 DEF IsDataFile, BlobCell
      <3> QED BY <3>1, <3>2 DEF Word
    <2>5. Strings(f, BlobCell(f, k)) = f.data[k]
      <3>1. BlobCell(f, k) - 3 * f.n = k /\ k \in 1..f.n
        BY <1>1 DEF BlobCell
      <3> QED BY <3>1 DEF Strings
    <2> QED BY <2>1, <2>2, <2>3, <2>4, <2>5
  <1> QED BY <1>2, <1>3

\* An address is covered by one record at most.
LEMMA OneCovers ==
    ASSUME NEW f, IsDataFile(f), NEW a \in Addr,
           NEW j \in 1..f.n, NEW k \in 1..f.n, Covers(f, j, a), Covers(f, k, a)
    PROVE  j = k
  <1>1. /\ f.n \in Nat
        /\ f.start \in [1..f.n -> Addr] /\ f.end \in [1..f.n -> Addr]
        /\ \A x, y \in 1..f.n : x < y => f.end[x] < f.start[y]
    BY DEF IsDataFile
  <1>2. f.start[j] \in Int /\ f.end[j] \in Int /\ f.start[k] \in Int /\ f.end[k] \in Int
    BY <1>1, MaxIPAssumption DEF Addr
  <1>3. f.start[j] <= a /\ a <= f.end[j] /\ f.start[k] <= a /\ a <= f.end[k] /\ a \in Int
    BY MaxIPAssumption DEF Covers, Addr
  <1>4. ~(j < k)
    BY <1>1, <1>2, <1>3
  <1>5. ~(k < j)
    BY <1>1, <1>2, <1>3
  <1> QED BY <1>1, <1>4, <1>5

\* The range starts are in order.
LEMMA StartsAscend ==
    ASSUME NEW f, IsDataFile(f), NEW j \in 1..f.n, NEW k \in 1..f.n, j <= k
    PROVE  f.start[j] <= f.start[k]
  <1>1. f.start[j] \in Int /\ f.end[j] \in Int /\ f.start[k] \in Int /\ f.n \in Nat
    BY MaxIPAssumption DEF IsDataFile, Addr
  <1>2. f.start[j] <= f.end[j] /\ (j < k => f.end[j] < f.start[k])
    BY DEF IsDataFile
  <1> QED BY <1>1, <1>2

\* A set of numbers with a bound has a largest one.  It stands in for induction:
\* the largest n up to which something holds is the last one that can be.
LEMMA Largest ==
    ASSUME NEW n \in Nat, NEW S \in SUBSET (0..n), S # {}
    PROVE  \E x \in S : \A y \in S : y <= x
  <1> DEFINE Above(x) == {z \in S : z >= x}
             F == {Above(x) : x \in S}
             R == StrictSubsetOrdering(S)
  <1>1. IsFiniteSet(S)
    <2>1. 0 \in Int /\ n \in Int
      OBVIOUS
    <2>2. IsFiniteSet(0..n)
      BY <2>1, FS_Interval
    <2> QED BY <2>2, FS_Subset
  <1>2. \A x \in S : Above(x) \in FiniteSubsetsOf(S)
    BY <1>1, FS_FiniteSubsetsOfFinite
  <1>3. F # {} /\ F \subseteq FiniteSubsetsOf(S)
    BY <1>2
  <1>4. IsWellFoundedOn(R, FiniteSubsetsOf(S))
    BY FS_StrictSubsetOrderingWellFounded
  <1>5. \E U \in F : \A V \in F : ~(<<V, U>> \in R)
    <2> HIDE DEF F, R
    <2> QED BY <1>3, <1>4, WFMin
  <1>6. PICK x \in S : \A y \in S : ~(<<Above(y), Above(x)>> \in R)
    <2> HIDE DEF Above, R
    <2> QED BY <1>5
  <1>7. ASSUME NEW y \in S, ~(y <= x)
        PROVE  FALSE
    <2>1. \A z \in S : z \in Int
      OBVIOUS
    <2>2. x \in Above(x) /\ x \notin Above(y)
      BY <1>7, <2>1
    <2>3. Above(y) \subseteq Above(x)
      <3>1. \A z \in S : z >= y => z >= x
        BY <1>7, <2>1
      <3> QED BY <3>1
    <2>4. Above(y) \in SUBSET S /\ Above(x) \in SUBSET S
      OBVIOUS
    <2> HIDE DEF Above
    <2>5. Above(y) # Above(x)
      BY <2>2
    <2>6. <<Above(y), Above(x)>> \in StrictSubsetOrdering(S)
      BY <2>3, <2>4, <2>5 DEF StrictSubsetOrdering
    <2> QED BY <1>6, <2>6
  <1> QED BY <1>7

\* The ends of the blocks that a set of addresses consists of, and their number.
Ends(T) == {a \in T : a + 1 \notin T}
NEnds(T) == Cardinality(Ends(T))

LEMMA NoEnds == NEnds({}) = 0
  BY FS_EmptySet DEF NEnds, Ends

\* There is an end if there is an address.
LEMMA EndsFinite ==
    ASSUME NEW T, T \subseteq Addr
    PROVE  /\ IsFiniteSet(Ends(T)) /\ NEnds(T) \in Nat
           /\ T # {} => NEnds(T) >= 1
  <1>1. MaxIP \in Nat /\ 0 \in Int /\ MaxIP \in Int
    BY MaxIPAssumption
  <1>2. IsFiniteSet(0..MaxIP)
    BY <1>1, FS_Interval
  <1>3. Ends(T) \in SUBSET (0..MaxIP)
    BY DEF Ends, Addr
  <1>4. IsFiniteSet(Ends(T))
    BY <1>2, <1>3, FS_Subset
  <1>5. Cardinality(Ends(T)) \in Nat
    BY <1>4, FS_CardinalityType
  <1>6. ASSUME T # {} PROVE Ends(T) # {}
    <2>1. T \in SUBSET (0..MaxIP)
      BY DEF Addr
    <2>2. PICK x \in T : \A y \in T : y <= x
      BY <1>1, <1>6, <2>1, Largest
    <2>3. x \in Int /\ ~(x + 1 <= x)
      BY <2>1
    <2>4. x + 1 \notin T
      BY <2>2, <2>3
    <2> QED BY <2>4 DEF Ends
  <1>7. Ends(T) # {} => Cardinality(Ends(T)) # 0
    BY <1>4, FS_EmptySet
  <1>8. Ends(T) # {} => Cardinality(Ends(T)) >= 1
    BY <1>5, <1>7
  <1> QED BY <1>4, <1>5, <1>6, <1>8 DEF NEnds

\* What taking the free addresses a..b does to the ends of the blocks.
LEMMA EndsAfter ==
    ASSUME NEW T, T \subseteq Addr, NEW a \in Nat, NEW b \in Nat, a <= b,
           a..b \cap T = {}
    PROVE  NEnds(T \cup a..b) = NEnds(T) - (IF a - 1 \in T THEN 1 ELSE 0)
                                          + (IF b + 1 \notin T THEN 1 ELSE 0)
  <1> DEFINE E == Ends(T)
             D == E \ {a - 1}
             U == T \cup a..b
  <1>1. IsFiniteSet(E) /\ Cardinality(E) \in Nat
    BY EndsFinite DEF NEnds
  <1>2. \A x \in T : x \in Int /\ ~(a <= x /\ x <= b)
    BY MaxIPAssumption DEF Addr
  <1>3. a \in a..b /\ b \in a..b /\ a \notin T /\ b \notin T /\ b + 1 \notin a..b
    OBVIOUS
  <1>4. a - 1 \in E <=> a - 1 \in T
    <2>1. (a - 1) + 1 = a
      OBVIOUS
    <2> QED BY <1>3, <2>1 DEF Ends
  <1>5. IsFiniteSet(D) /\ Cardinality(D) = Cardinality(E) - (IF a - 1 \in T THEN 1 ELSE 0)
    <2>1. /\ IsFiniteSet(E \ {a - 1})
          /\ Cardinality(E \ {a - 1}) = IF a - 1 \in E THEN Cardinality(E) - 1 ELSE Cardinality(E)
      <3> HIDE DEF E
      <3> QED BY <1>1, FS_RemoveElement
    <2> HIDE DEF E
    <2> QED BY <1>1, <1>4, <2>1
  <1>6. ASSUME NEW x \in T
        PROVE  x \in Ends(U) <=> x \in D
    <2>1. x + 1 \in a..b <=> x = a - 1
      BY <1>2
    <2> QED BY <2>1 DEF Ends
  <1>7. ASSUME NEW x \in a..b
        PROVE  x \in Ends(U) <=> x = b /\ b + 1 \notin T
    <2>1. CASE x = b
      BY <1>3, <2>1 DEF Ends
    <2>2. CASE x # b
      <3>1. x + 1 \in a..b
        BY <2>2
      <3> QED BY <2>2, <3>1 DEF Ends
    <2> QED BY <2>1, <2>2
  <1>8. D \subseteq T /\ b \notin D
    BY <1>3 DEF Ends
  <1>9. Ends(U) \subseteq U
    BY DEF Ends
  <1>10. Ends(U) = D \cup (IF b + 1 \notin T THEN {b} ELSE {})
    <2> HIDE DEF D
    <2> QED BY <1>3, <1>6, <1>7, <1>8, <1>9
  <1> HIDE DEF D, E, U
  <1>11. Cardinality(Ends(U)) = Cardinality(D) + (IF b + 1 \notin T THEN 1 ELSE 0)
    <2>1. Cardinality(D) \in Nat
      BY <1>5, FS_CardinalityType
    <2>2. CASE b + 1 \notin T
      <3>1. Cardinality(D \cup {b}) = Cardinality(D) + 1
        BY <1>5, <1>8, FS_AddElement
      <3> QED BY <1>10, <2>2, <3>1
    <2>3. CASE b + 1 \in T
      <3>1. Ends(U) = D
        BY <1>10, <2>3
      <3> QED BY <2>1, <2>3, <3>1
    <2> QED BY <2>2, <2>3
  <1>12. Cardinality(Ends(U)) = Cardinality(E) - (IF a - 1 \in T THEN 1 ELSE 0)
                                               + (IF b + 1 \notin T THEN 1 ELSE 0)
    BY <1>1, <1>5, <1>11
  <1> QED BY <1>12 DEF U, E, NEnds
=============================================================================

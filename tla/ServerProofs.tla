---------------------------- MODULE ServerProofs ----------------------------
(***************************************************************************)
(* Theorems about ReadServer, for any clients, windows, times and tables.  *)
(***************************************************************************)
EXTENDS ReadServer, LeastNumber, FiniteSetTheorems, SequenceTheorems

\* How many places of S are not after k.
Rank(S, k) == Cardinality({j \in S : j <= k})

\* The place of S that is the i-th.
Place(S, i) == CHOOSE k \in S : Rank(S, k) = i
-----------------------------------------------------------------------------
\* Places of a table are finitely many, and so are those up to one of them.
LEMMA PlacesFinite ==
  ASSUME NEW N \in Nat, NEW S, S \subseteq 1 .. N
  PROVE  /\ IsFiniteSet(S) /\ Cardinality(S) \in Nat
         /\ \A k : IsFiniteSet({j \in S : j <= k}) /\ Rank(S, k) \in 0 .. Cardinality(S)
<1>0. IsFiniteSet(1 .. N)
  BY FS_Interval
<1>1. IsFiniteSet(S)
  BY <1>0, FS_Subset
<1>2. Cardinality(S) \in Nat
  BY <1>1, FS_CardinalityType
<1>3. ASSUME NEW k
      PROVE  IsFiniteSet({j \in S : j <= k}) /\ Rank(S, k) \in 0 .. Cardinality(S)
  <2>. DEFINE U == {j \in S : j <= k}
  <2>1. IsFiniteSet(U) /\ Cardinality(U) <= Cardinality(S)
    BY <1>1, FS_Subset
  <2>2. Cardinality(U) \in Nat
    BY <2>1, FS_CardinalityType
  <2>. QED BY <2>1, <2>2, <1>2 DEF Rank
<1>. QED BY <1>1, <1>2, <1>3

\* A later place has a higher rank.
LEMMA RankGrows ==
  ASSUME NEW N \in Nat, NEW S, S \subseteq 1 .. N, NEW k \in S, NEW l \in S, k < l
  PROVE  Rank(S, k) < Rank(S, l)
<1>. DEFINE U == {j \in S : j <= k}  W == {j \in S : j <= l}
<1>0. \A j \in S : j \in Int
  OBVIOUS
<1>1. IsFiniteSet(U) /\ IsFiniteSet(W) /\ Cardinality(U) \in Nat /\ Cardinality(W) \in Nat
  BY PlacesFinite DEF Rank
<1>2. \A j \in U \cup {l} : j \in W
  BY <1>0
<1>3. l \notin U
  BY <1>0
<1>. HIDE DEF U, W
<1>4. Cardinality(U \cup {l}) = Cardinality(U) + 1
  BY <1>1, <1>3, FS_AddElement
<1>5. U \cup {l} \in SUBSET W
  BY <1>2
<1>6. Cardinality(U \cup {l}) <= Cardinality(W)
  BY <1>1, <1>5, FS_Subset
<1>7. Cardinality(U) < Cardinality(W)
  BY <1>1, <1>4, <1>6
<1>. QED BY <1>7 DEF Rank, U, W

\* Every number up to that of the places is the rank of one.
LEMMA RankTaken ==
  ASSUME NEW N \in Nat, NEW S, S \subseteq 1 .. N, NEW i \in 1 .. Cardinality(S)
  PROVE  \E k \in S : Rank(S, k) = i
<1>. DEFINE T == {k \in 1 .. N : Rank(S, k) >= i}
<1>0. \A j \in S : j \in Int /\ 1 <= j /\ j <= N
  OBVIOUS
<1>a. /\ Cardinality(S) \in Nat
       /\ \A k : IsFiniteSet({j \in S : j <= k}) /\ Rank(S, k) \in 0 .. Cardinality(S)
  BY PlacesFinite
<1>1. \A k : IsFiniteSet({j \in S : j <= k}) /\ Rank(S, k) \in Nat
  BY <1>a
<1>2. Cardinality(S) \in Nat /\ i \in Nat /\ i >= 1 /\ i <= Cardinality(S)
  BY <1>a
<1>3. N \in T
  <2>1. {j \in S : j <= N} = S
    <3>1. \A j \in S : j \in {m \in S : m <= N}
      BY <1>0
    <3>. QED BY <3>1
  <2>2. N # 0
    <3>1. S # {}
      BY <1>2, FS_EmptySet
    <3>2. \E j \in S : 1 <= j /\ j <= N /\ j \in Int
      BY <3>1, <1>0
    <3>. QED BY <3>2
  <2>3. Rank(S, N) >= i
    BY <2>1, <1>2 DEF Rank
  <2>. QED BY <2>2, <2>3
<1>4. T \subseteq Nat /\ T # {}
  BY <1>3
<1>5. PICK k \in T : \A y \in T : k <= y
  BY <1>4, Least
<1>. DEFINE U == {j \in S : j <= k - 1}
<1>6. k \in 1 .. N /\ Rank(S, k) >= i
  OBVIOUS
<1>7. IsFiniteSet(U) /\ Cardinality(U) \in Nat /\ Cardinality(U) < i
  <2>1. CASE k = 1
    <3>1. \A j \in U : FALSE
      BY <2>1, <1>0
    <3>2. U = {}
      BY <3>1
    <3>. HIDE DEF U
    <3>. QED BY <3>2, <1>2, FS_EmptySet
  <2>2. CASE k # 1
    <3>1. k - 1 \in 1 .. N /\ ~(k <= k - 1)
      BY <2>2, <1>6
    <3>2. ~(Rank(S, k - 1) >= i)
      BY <3>1, <1>5
    <3>3. IsFiniteSet(U) /\ Cardinality(U) = Rank(S, k - 1)
      BY <1>1 DEF Rank
    <3>4. Rank(S, k - 1) \in Nat
      BY <1>1
    <3>. HIDE DEF U
    <3>5. Rank(S, k - 1) < i
      BY <3>2, <3>4, <1>2
    <3>. QED BY <3>3, <3>4, <3>5
  <2>. QED BY <2>1, <2>2
<1>. HIDE DEF T
<1>8. k \in S
  <2>. SUFFICES ASSUME k \notin S PROVE FALSE
    OBVIOUS
  <2>1. \A j \in S : j <= k <=> j <= k - 1
    BY <1>0, <1>6
  <2>2. {j \in S : j <= k} = U
    BY <2>1
  <2>. QED BY <2>2, <1>6, <1>7, <1>2 DEF Rank
<1>9. {j \in S : j <= k} = U \cup {k} /\ k \notin U
  <2>1. \A j \in S : j <= k <=> j <= k - 1 \/ j = k
    BY <1>0, <1>6
  <2>2. ~(k <= k - 1)
    BY <1>6
  <2>. QED BY <2>1, <2>2, <1>8
<1>. HIDE DEF U
<1>10. Rank(S, k) = Cardinality(U) + 1
  BY <1>7, <1>9, FS_AddElement DEF Rank
<1>11. Rank(S, k) = i
  BY <1>2, <1>6, <1>7, <1>10
<1>. QED BY <1>8, <1>11

\* The i-th place is a place, and an earlier one comes before it.
LEMMA PlaceOrder ==
  ASSUME NEW N \in Nat, NEW S, S \subseteq 1 .. N
  PROVE  /\ \A i \in 1 .. Cardinality(S) : Place(S, i) \in S /\ Rank(S, Place(S, i)) = i
         /\ \A i, j \in 1 .. Cardinality(S) : i < j => Place(S, i) < Place(S, j)
         /\ \A k \in S : Rank(S, k) \in 1 .. Cardinality(S) /\ Place(S, Rank(S, k)) = k
<1>0. \A j \in S : j \in Int
  OBVIOUS
<1>1. ASSUME NEW i \in 1 .. Cardinality(S)
      PROVE  Place(S, i) \in S /\ Rank(S, Place(S, i)) = i
  <2>1. \E k \in S : Rank(S, k) = i
    BY RankTaken
  <2>. QED BY <2>1, Zenon DEF Place
<1>2. \A k, l \in S : k < l => Rank(S, k) < Rank(S, l)
  BY RankGrows
<1>3. Cardinality(S) \in Nat
  BY PlacesFinite
<1>4. ASSUME NEW i \in 1 .. Cardinality(S), NEW j \in 1 .. Cardinality(S), i < j
      PROVE  Place(S, i) < Place(S, j)
  <2>1. PICK k \in S : k = Place(S, i) /\ Rank(S, k) = i
    BY <1>1
  <2>2. PICK l \in S : l = Place(S, j) /\ Rank(S, l) = j
    BY <1>1
  <2>3. ~(l < k)
    BY <2>1, <2>2, <1>2, <1>3, <1>4
  <2>4. l # k
    BY <2>1, <2>2, <1>3, <1>4
  <2>. QED BY <2>1, <2>2, <2>3, <2>4, <1>0
<1>5. ASSUME NEW k \in S
      PROVE  Rank(S, k) \in 1 .. Cardinality(S) /\ Place(S, Rank(S, k)) = k
  <2>1. Rank(S, k) \in 0 .. Cardinality(S)
    BY PlacesFinite
  <2>2. Rank(S, k) # 0
    <3>1. IsFiniteSet({j \in S : j <= k})
      BY PlacesFinite
    <3>2. k \in {j \in S : j <= k}
      BY <1>0
    <3>3. Cardinality({j \in S : j <= k}) # 0
      BY <3>1, <3>2, FS_EmptySet
    <3>. QED BY <3>3 DEF Rank
  <2>3. Rank(S, k) \in 1 .. Cardinality(S)
    BY <2>1, <2>2, <1>3
  <2>4. PICK l \in S : l = Place(S, Rank(S, k)) /\ Rank(S, l) = Rank(S, k)
    BY <2>3, <1>1
  <2>5. ~(l < k) /\ ~(k < l)
    BY <2>1, <2>4, <1>2, <1>3
  <2>. QED BY <2>3, <2>4, <2>5, <1>0
<1>. QED BY <1>1, <1>4, <1>5

\* The places of an interval, in order.
LEMMA IntervalPlaces ==
  ASSUME NEW a \in Nat, NEW b \in Nat, 1 <= a, a <= b + 1
  PROVE  /\ Cardinality(a .. b) = b - a + 1
         /\ \A i \in 1 .. b - a + 1 : Place(a .. b, i) = a + i - 1
<1>. DEFINE S == a .. b
<1>1. S \subseteq 1 .. b
  OBVIOUS
<1>2. Cardinality(S) = b - a + 1
  <2>1. Cardinality(a .. b) = IF a > b THEN 0 ELSE b - a + 1
    BY FS_Interval
  <2>2. a > b => b - a + 1 = 0
    OBVIOUS
  <2>. QED BY <2>1, <2>2
<1>3. ASSUME NEW k \in S
      PROVE  Rank(S, k) = k - a + 1
  <2>1. \A j \in S : j <= k <=> j \in a .. k
    OBVIOUS
  <2>2. \A j \in a .. k : j \in S
    OBVIOUS
  <2>3. {j \in S : j <= k} = a .. k
    BY <2>1, <2>2
  <2>4. Cardinality(a .. k) = k - a + 1
    BY FS_Interval
  <2>. QED BY <2>3, <2>4 DEF Rank
<1>4. ASSUME NEW i \in 1 .. b - a + 1
      PROVE  Place(S, i) = a + i - 1
  <2>1. PICK k \in S : k = Place(S, i) /\ Rank(S, k) = i
    BY <1>1, <1>2, PlaceOrder
  <2>2. k - a + 1 = i
    BY <2>1, <1>3
  <2>3. k \in Int
    OBVIOUS
  <2>. QED BY <2>1, <2>2, <2>3
<1>. QED BY <1>2, <1>4
-----------------------------------------------------------------------------
\* What a query relies on.
TableOK == table \in Seq(Times) /\ snap \in {NoTransaction} \cup 0 .. Len(table)

\* A query sees rows of the table, from the first one on.
LEMMA ViewOfTable ==
  ASSUME TableOK
  PROVE  /\ Len(table) \in Nat /\ View \in 0 .. Len(table)
         /\ snap = NoTransaction => View = Len(table)
         /\ \A i \in 1 .. Len(table) : table[i] \in Times /\ table[i] \in Nat
         /\ Stored \in Seq(Rows) /\ Len(Stored) = View
         /\ \A i \in 1 .. View : Stored[i] = [index |-> i - 1, time |-> table[i]]
<1>1. Len(table) \in Nat /\ \A i \in 1 .. Len(table) : table[i] \in Times
  BY ElementOfSeq, LenProperties DEF TableOK
<1>2. View \in 0 .. Len(table) /\ (snap = NoTransaction => View = Len(table))
  BY <1>1 DEF TableOK, View, NoTransaction
<1>3. \A i \in 1 .. Len(table) : table[i] \in Nat
  BY <1>1, SizesAssumption
<1>4. \A i \in 1 .. View : [index |-> i - 1, time |-> table[i]] \in Rows
  BY <1>2, <1>3 DEF Rows
<1>5. Stored \in [1 .. View -> Rows]
  BY <1>4 DEF Stored
<1>6. View \in Nat
  BY <1>1, <1>2
<1>7. Stored \in Seq(Rows)
  BY <1>5, <1>6, SeqDef
<1>8. Len(Stored) = View
  <2>1. DOMAIN Stored = 1 .. View
    BY DEF Stored
  <2>2. DOMAIN Stored = 1 .. Len(Stored) /\ Len(Stored) \in Nat
    BY <1>7, LenProperties
  <2>. QED BY <2>1, <2>2, <1>6
<1>. QED BY <1>1, <1>2, <1>3, <1>7, <1>8 DEF Stored

\* The rows at some places, in order.
LEMMA RowsAtPlaces ==
  ASSUME TableOK, NEW S, S \subseteq 1 .. View
  PROVE  /\ RowsAt(S) \in Seq(Rows)
         /\ Len(RowsAt(S)) = Cardinality(S) /\ Cardinality(S) \in Nat
         /\ \A i \in 1 .. Cardinality(S) :
              /\ Place(S, i) \in S
              /\ RowsAt(S)[i] = [index |-> Place(S, i) - 1, time |-> table[Place(S, i)]]
<1>1. View \in Nat /\ \A i \in 1 .. View : Stored[i] \in Rows
  BY ViewOfTable, ElementOfSeq
<1>2. Cardinality(S) \in Nat
  BY <1>1, PlacesFinite
<1>3. \A i \in 1 .. Cardinality(S) : Place(S, i) \in S
  BY <1>1, PlaceOrder
<1>4. RowsAt(S) = [i \in 1 .. Cardinality(S) |-> Stored[Place(S, i)]]
  BY DEF RowsAt, Place, Rank
<1>5. \A i \in 1 .. Cardinality(S) : Stored[Place(S, i)] \in Rows
  BY <1>1, <1>3
<1>6. RowsAt(S) \in [1 .. Cardinality(S) -> Rows]
  BY <1>4, <1>5
<1>7. RowsAt(S) \in Seq(Rows)
  BY <1>2, <1>6, SeqDef
<1>8. Len(RowsAt(S)) = Cardinality(S)
  <2>1. DOMAIN RowsAt(S) = 1 .. Cardinality(S)
    BY <1>4
  <2>2. DOMAIN RowsAt(S) = 1 .. Len(RowsAt(S)) /\ Len(RowsAt(S)) \in Nat
    BY <1>7, LenProperties
  <2>. QED BY <2>1, <2>2, <1>2
<1>9. \A k \in 1 .. View : Stored[k] = [index |-> k - 1, time |-> table[k]]
  BY ViewOfTable
<1>. QED BY <1>2, <1>3, <1>4, <1>7, <1>8, <1>9

\* The first rows of an answer, or all.
LEMMA AtMostOfRows ==
  ASSUME NEW s \in Seq(Rows), NEW n \in Nat
  PROVE  /\ AtMost(n, s) \in Seq(Rows)
         /\ Len(AtMost(n, s)) = IF Len(s) < n THEN Len(s) ELSE n
         /\ \A i \in 1 .. Len(AtMost(n, s)) : AtMost(n, s)[i] = s[i]
<1>. DEFINE m == IF Len(s) < n THEN Len(s) ELSE n
<1>1. Len(s) \in Nat
  BY LenProperties
<1>2. m \in Int /\ m <= Len(s) /\ m >= 0
  BY <1>1
<1>3. \A i \in 1 .. m : s[i] \in Rows
  BY <1>1, <1>2, ElementOfSeq
<1>4. AtMost(n, s) = SubSeq(s, 1, m)
  BY DEF AtMost
<1>. HIDE DEF m
<1>5. /\ SubSeq(s, 1, m) \in Seq(Rows)
      /\ Len(SubSeq(s, 1, m)) = IF 1 <= m THEN m - 1 + 1 ELSE 0
      /\ \A i \in 1 .. m - 1 + 1 : SubSeq(s, 1, m)[i] = s[1 + i - 1]
  BY <1>2, <1>3, SubSeqProperties
<1>6. Len(SubSeq(s, 1, m)) = m
  BY <1>2, <1>5
<1>7. \A i \in 1 .. m : SubSeq(s, 1, m)[i] = s[i]
  BY <1>2, <1>5
<1>. QED BY <1>4, <1>5, <1>6, <1>7 DEF m

\* An answer with the last row first.
LEMMA BackwardsOfRows ==
  ASSUME NEW s \in Seq(Rows)
  PROVE  /\ Backwards(s) \in Seq(Rows)
         /\ Len(Backwards(s)) = Len(s)
         /\ \A i \in 1 .. Len(s) : Backwards(s)[i] = s[Len(s) + 1 - i]
<1>1. Len(s) \in Nat
  BY LenProperties
<1>2. \A i \in 1 .. Len(s) : s[Len(s) + 1 - i] \in Rows
  BY <1>1, ElementOfSeq
<1>3. Backwards(s) \in [1 .. Len(s) -> Rows]
  BY <1>2 DEF Backwards
<1>4. Backwards(s) \in Seq(Rows)
  BY <1>1, <1>3, SeqDef
<1>5. Len(Backwards(s)) = Len(s)
  <2>1. DOMAIN Backwards(s) = 1 .. Len(s)
    BY DEF Backwards
  <2>2. DOMAIN Backwards(s) = 1 .. Len(Backwards(s)) /\ Len(Backwards(s)) \in Nat
    BY <1>4, LenProperties
  <2>. QED BY <2>1, <2>2, <1>1
<1>. QED BY <1>4, <1>5 DEF Backwards

\* Sorting keeps the rows and their number.
LEMMA SortingsOfRows ==
  ASSUME NEW s \in Seq(Rows), NEW t \in Sortings(s)
  PROVE  /\ t \in Seq(Rows) /\ Len(t) = Len(s)
         /\ Indices(t) = Indices(s)
         /\ InTimeOrder(t)
<1>1. Len(s) \in Nat /\ DOMAIN s = 1 .. Len(s) /\ \A i \in DOMAIN s : s[i] \in Rows
  BY LenProperties, ElementOfSeq
<1>2. InTimeOrder(t) /\ \E p \in Bijection(DOMAIN s, DOMAIN s) : t = [i \in DOMAIN s |-> s[p[i]]]
  BY DEF Sortings
<1>3. PICK p \in Bijection(DOMAIN s, DOMAIN s) : t = [i \in DOMAIN s |-> s[p[i]]]
  BY <1>2
<1>4. /\ p \in [DOMAIN s -> DOMAIN s]
      /\ \A k \in DOMAIN s : \E i \in DOMAIN s : p[i] = k
  BY DEF Bijection, Injection, Surjection
<1>5. t \in [1 .. Len(s) -> Rows]
  BY <1>1, <1>3, <1>4
<1>6. t \in Seq(Rows)
  BY <1>1, <1>5, SeqDef
<1>7. Len(t) = Len(s)
  <2>1. DOMAIN t = 1 .. Len(t) /\ Len(t) \in Nat
    BY <1>6, LenProperties
  <2>2. DOMAIN t = 1 .. Len(s)
    BY <1>1, <1>3
  <2>3. Len(s) \in Nat
    BY <1>1
  <2>4. 1 .. Len(t) = 1 .. Len(s)
    BY <2>1, <2>2
  <2>. QED BY <2>1, <2>3, <2>4
<1>8. Indices(t) = Indices(s)
  <2>1. DOMAIN t = DOMAIN s
    BY <1>3
  <2>2. ASSUME NEW i \in DOMAIN t PROVE t[i].index \in Indices(s)
    <3>1. p[i] \in DOMAIN s /\ t[i] = s[p[i]]
      BY <2>1, <1>3, <1>4
    <3>. QED BY <3>1 DEF Indices
  <2>3. ASSUME NEW k \in DOMAIN s PROVE s[k].index \in Indices(t)
    <3>1. PICK i \in DOMAIN s : p[i] = k
      BY <1>4
    <3>2. i \in DOMAIN t /\ t[i] = s[k]
      BY <3>1, <2>1, <1>3
    <3>. QED BY <3>2 DEF Indices
  <2>. QED BY <2>2, <2>3 DEF Indices
<1>. QED BY <1>2, <1>6, <1>7, <1>8
-----------------------------------------------------------------------------
\* Rows of the table, not a count.
Timed(rows) == \A i \in 1 .. Len(rows) : rows[i].time \in Nat

\* The numbers of a request.
LEMMA RequestNumbers ==
  ASSUME NEW r \in Requests
  PROVE  r.scan \in {1, 2, 3, 4, 5} /\ r.key \in Nat
<1>1. Queried \subseteq Nat /\ MaxRows \in Nat
  BY SizesAssumption
<1>2. r.scan \in {1, 2, 3, 4, 5} /\ (r.key = 0 \/ r.key \in Queried \/ r.key \in 0 .. MaxRows + 1)
  BY DEF Requests
<1>3. \A k \in 0 .. MaxRows + 1 : k \in Nat
  BY <1>1
<1>4. \A k \in Queried : k \in Nat
  BY <1>1
<1>5. 0 \in Nat
  OBVIOUS
<1>. QED BY <1>2, <1>3, <1>4, <1>5, Zenon

\* The rows at some places are rows of the table.
LEMMA RowsAtTimed ==
  ASSUME TableOK, NEW S, S \subseteq 1 .. View, NEW n \in Nat
  PROVE  /\ RowsAt(S) \in Seq(Rows) /\ Timed(RowsAt(S))
         /\ AtMost(n, RowsAt(S)) \in Seq(Rows) /\ Timed(AtMost(n, RowsAt(S)))
<1>1. /\ RowsAt(S) \in Seq(Rows)
      /\ Len(RowsAt(S)) = Cardinality(S) /\ Cardinality(S) \in Nat
      /\ \A i \in 1 .. Cardinality(S) :
           /\ Place(S, i) \in S
           /\ RowsAt(S)[i] = [index |-> Place(S, i) - 1, time |-> table[Place(S, i)]]
  BY RowsAtPlaces
<1>2. \A k \in 1 .. View : table[k] \in Nat
  BY ViewOfTable
<1>3. \A i \in 1 .. Len(RowsAt(S)) : RowsAt(S)[i].time \in Nat
  <2>. SUFFICES ASSUME NEW i \in 1 .. Len(RowsAt(S)) PROVE RowsAt(S)[i].time \in Nat
    OBVIOUS
  <2>1. PICK k \in S : RowsAt(S)[i] = [index |-> k - 1, time |-> table[k]]
    BY <1>1
  <2>. QED BY <2>1, <1>2
<1>4. /\ AtMost(n, RowsAt(S)) \in Seq(Rows)
      /\ Len(AtMost(n, RowsAt(S))) \in Nat
      /\ Len(AtMost(n, RowsAt(S))) <= Len(RowsAt(S))
      /\ \A i \in 1 .. Len(AtMost(n, RowsAt(S))) : AtMost(n, RowsAt(S))[i] = RowsAt(S)[i]
  BY <1>1, AtMostOfRows
<1>5. \A i \in 1 .. Len(AtMost(n, RowsAt(S))) : AtMost(n, RowsAt(S))[i].time \in Nat
  BY <1>1, <1>3, <1>4
<1>. QED BY <1>1, <1>3, <1>4, <1>5 DEF Timed

\* Stored rows, all or the latest, with the last one first.
LEMMA NewestRows ==
  ASSUME TableOK, NEW q, q \in {AtMost(Latest, Backwards(Stored)), Backwards(Stored)}
  PROVE  /\ q \in Seq(Rows) /\ Timed(q) /\ Len(q) \in 0 .. View
         /\ \A i \in 1 .. Len(q) : q[i].index = View - i
         /\ q = AtMost(Latest, Backwards(Stored))
              => Len(q) = IF View < Latest THEN View ELSE Latest
         /\ q = Backwards(Stored) => Len(q) = View
<1>. DEFINE b == Backwards(Stored)  a == AtMost(Latest, b)
<1>1. /\ View \in Nat
      /\ Stored \in Seq(Rows) /\ Len(Stored) = View
      /\ \A i \in 1 .. View :
           table[i] \in Nat /\ Stored[i] = [index |-> i - 1, time |-> table[i]]
  BY ViewOfTable
<1>2. /\ b \in Seq(Rows) /\ Len(b) = View
      /\ \A i \in 1 .. View : b[i] = Stored[View + 1 - i]
  BY <1>1, BackwardsOfRows
<1>3. \A i \in 1 .. View : b[i].index = View - i /\ b[i].time \in Nat
  <2>. SUFFICES ASSUME NEW i \in 1 .. View PROVE b[i].index = View - i /\ b[i].time \in Nat
    OBVIOUS
  <2>1. View + 1 - i \in 1 .. View
    BY <1>1
  <2>2. PICK k \in 1 .. View : k = View + 1 - i
    BY <2>1
  <2>3. b[i] = [index |-> k - 1, time |-> table[k]] /\ table[k] \in Nat
    BY <2>2, <1>1, <1>2
  <2>4. k - 1 = View - i
    BY <2>2, <1>1
  <2>. QED BY <2>3, <2>4
<1>. HIDE DEF b
<1>4. Latest \in Nat
  BY SizesAssumption
<1>5. /\ a \in Seq(Rows) /\ Len(a) = IF Len(b) < Latest THEN Len(b) ELSE Latest
      /\ \A i \in 1 .. Len(a) : a[i] = b[i]
  BY <1>2, <1>4, AtMostOfRows
<1>. HIDE DEF a
<1>6. Len(a) \in 0 .. View
  BY <1>1, <1>2, <1>4, <1>5
<1>7. CASE q = a
  <2>1. \A i \in 1 .. Len(q) : q[i].index = View - i /\ q[i].time \in Nat
    <3>1. \A i \in 1 .. Len(a) : i \in 1 .. View
      BY <1>1, <1>6
    <3>2. \A i \in 1 .. Len(a) : a[i].index = View - i /\ a[i].time \in Nat
      BY <3>1, <1>3, <1>5
    <3>. QED BY <3>2, <1>7
  <2>2. Len(q) = IF View < Latest THEN View ELSE Latest
    BY <1>7, <1>2, <1>5
  <2>3. q = b => Len(q) = View
    BY <1>2
  <2>. QED BY <1>5, <1>6, <1>7, <2>1, <2>2, <2>3 DEF Timed, b
<1>8. CASE q = b
  <2>1. q = a => Len(q) = IF View < Latest THEN View ELSE Latest
    BY <1>2, <1>5
  <2>. QED BY <1>1, <1>2, <1>3, <1>8, <2>1 DEF Timed, b, a
<1>. QED BY <1>7, <1>8 DEF a, b

\* The first query gives rows, and rows of the table if it does not count.
LEMMA FirstQueryRows ==
  ASSUME TableOK, NEW r \in Requests
  PROVE  /\ FirstQuery(r) \in Seq(Rows)
         /\ r.scan # 3 => Timed(FirstQuery(r))
<1>1. r.scan \in {1, 2, 3, 4, 5}
  BY RequestNumbers
<1>2. CASE r.scan \in {1, 4}
  <2>1. FirstQuery(r) \in {AtMost(Latest, Backwards(Stored)), Backwards(Stored)}
    BY <1>2 DEF FirstQuery
  <2>. QED BY <2>1, NewestRows
<1>3. CASE r.scan = 3
  <2>1. CountRow(View) \in Rows
    BY ViewOfTable DEF CountRow, Rows
  <2>2. FirstQuery(r) = <<CountRow(View)>>
    BY <1>3 DEF FirstQuery
  <2>. QED BY <2>1, <2>2, <1>3
<1>4. CASE r.scan = 2
  <2>1. FirstQuery(r) = AtMost(Ahead, RowsAt({i \in 1 .. View : table[i] > r.key}))
    BY <1>4 DEF FirstQuery, After
  <2>. QED BY <2>1, RowsAtTimed, SizesAssumption
<1>5. CASE r.scan = 5
  <2>1. FirstQuery(r) = AtMost(Behind, RowsAt({i \in 1 .. View :
                                                 i - 1 \in (r.key - Behind) .. (r.key - 1)}))
    BY <1>5 DEF FirstQuery, Below
  <2>. QED BY <2>1, RowsAtTimed, SizesAssumption
<1>. QED BY <1>1, <1>2, <1>3, <1>4, <1>5

\* The second query gives rows of the table.
LEMMA SecondQueryRows ==
  ASSUME TableOK, NEW r \in Requests, NEW n \in Nat, NEW q \in SecondQuery(r, n)
  PROVE  q \in Seq(Rows) /\ Timed(q)
<1>1. CASE r.scan = 2
  <2>. DEFINE S == {i \in 1 .. View : table[i] < r.key}
  <2>1. q \in Limited(S, Ahead + Behind - n)
    BY <1>1 DEF SecondQuery, Before
  <2>2. PICK K \in SUBSET S : q = RowsAt(K)
    BY <2>1 DEF Limited
  <2>. QED BY <2>2, RowsAtTimed
<1>2. CASE r.scan # 2
  <2>1. q = AtMost(Ahead, RowsAt({i \in 1 .. View : i - 1 >= r.key}))
    BY <1>2 DEF SecondQuery, FromIndex
  <2>. QED BY <2>1, RowsAtTimed, SizesAssumption
<1>. QED BY <1>1, <1>2
-----------------------------------------------------------------------------
Replies == [req : Requests \cup {None}, num : Nat, rows : Seq(Rows), asked : Nat, seen : Nat]

\* The types; a thread that serves has a request.
ServerTypes ==
  /\ TypeOK
  /\ reply \in [Clients -> Replies]
  /\ asked \in [Clients -> Nat] /\ seen \in [Clients -> Nat]
  /\ \A c \in Clients : pc[c] \notin {"idle", "closed"} => req[c] \in Requests

\* At first the table is empty and nobody is connected.
LEMMA InitTypes == Init => ServerTypes
<1>. SUFFICES ASSUME Init PROVE ServerTypes
  OBVIOUS
<1>1. \A R : <<>> \in Seq(R) /\ Len(<<>>) = 0
  BY EmptySeq
<1>2. MaxRequests \in Nat
  BY SizesAssumption
<1>3. [req |-> None, num |-> 0, rows |-> <<>>, asked |-> 0, seen |-> 0] \in Replies
  BY <1>1 DEF Replies
<1>4. reply \in [Clients -> Replies]
  BY <1>3 DEF Init
<1>5. \A c \in Clients : reply[c].num \in Nat /\ reply[c].rows \in Seq(Rows)
  BY <1>4 DEF Replies
<1>6. table \in Seq(Times) /\ cur \in Seq(Rows) /\ result \in [Clients -> Seq(Rows)]
  BY <1>1 DEF Init
<1>7. /\ snap \in {NoTransaction} \cup 0 .. Len(table)
      /\ requests \in 0 .. MaxRequests
      /\ \A c \in Clients : asked[c] \in 0 .. Len(table) /\ seen[c] \in 0 .. Len(table)
  BY <1>1, <1>2 DEF Init
<1>8. /\ pc \in [Clients -> {"idle", "first", "fetch", "second", "fetch2", "send", "closed"}]
      /\ req \in [Clients -> Requests \cup {None}]
      /\ num \in [Clients -> Nat]
  BY DEF Init
<1>. QED BY <1>4, <1>5, <1>6, <1>7, <1>8 DEF Init, ServerTypes, TypeOK

\* The requests and numbers a thread keeps, after a step that ends the
\* serving of a request.
LEMMA ForgetTypes ==
  ASSUME ServerTypes, NEW c \in Clients, Forget(c), UNCHANGED table
  PROVE  /\ req' \in [Clients -> Requests \cup {None}]
         /\ num' \in [Clients -> Nat]
         /\ result' \in [Clients -> Seq(Rows)]
         /\ asked' \in [Clients -> Nat] /\ seen' \in [Clients -> Nat]
         /\ \A d \in Clients : asked'[d] \in 0 .. Len(table) /\ seen'[d] \in 0 .. Len(table)
         /\ \A d \in Clients \ {c} : req'[d] = req[d]
<1>1. <<>> \in Seq(Rows)
  BY EmptySeq
<1>2. Len(table) \in Nat
  BY LenProperties DEF ServerTypes, TypeOK
<1>3. result' \in [Clients -> Seq(Rows)]
  BY <1>1 DEF ServerTypes, TypeOK, Forget
<1>4. req' \in [Clients -> Requests \cup {None}] /\ num' \in [Clients -> Nat]
  BY DEF ServerTypes, TypeOK, Forget
<1>5. asked' \in [Clients -> Nat] /\ seen' \in [Clients -> Nat]
  BY DEF ServerTypes, Forget
<1>6. \A d \in Clients : asked'[d] \in 0 .. Len(table) /\ seen'[d] \in 0 .. Len(table)
  BY <1>2 DEF ServerTypes, TypeOK, Forget
<1>7. \A d \in Clients \ {c} : req'[d] = req[d]
  BY DEF ServerTypes, TypeOK, Forget
<1>. QED BY <1>3, <1>4, <1>5, <1>6, <1>7

\* A query is asked of the table.
LEMMA TypesOfTable ==
  ASSUME ServerTypes
  PROVE  TableOK /\ Len(table) \in Nat
BY LenProperties DEF ServerTypes, TypeOK, TableOK

\* The types are kept by a step of a thread.
LEMMA ServeTypes ==
  ASSUME ServerTypes, NEW c \in Clients, Serve(c)
  PROVE  ServerTypes'
<1>. USE DEF ServerTypes, TypeOK, Goto
<1>1. TableOK /\ Len(table) \in Nat
  BY TypesOfTable
<1>2. View \in 0 .. Len(table) /\ View \in Nat
  BY <1>1, ViewOfTable
<1>3. <<>> \in Seq(Rows)
  BY EmptySeq
<1>4. snap \in {NoTransaction} \cup 0 .. Len(table)
  OBVIOUS
<1>5. CASE ExecuteFirst(c)
  <2>1. req[c] \in Requests
    BY <1>5 DEF ExecuteFirst
  <2>2. cur' \in Seq(Rows)
    BY <1>1, <1>5, <2>1, FirstQueryRows DEF ExecuteFirst
  <2>3. Len(cur') \in Nat
    BY <2>2, LenProperties
  <2>4. num' \in [Clients -> Nat] /\ seen' \in [Clients -> Nat]
    BY <1>2, <1>5, <2>3 DEF ExecuteFirst
  <2>5. \A d \in Clients : seen'[d] \in 0 .. Len(table)
    BY <1>2, <1>5 DEF ExecuteFirst
  <2>6. \A d \in Clients : pc'[d] \notin {"idle", "closed"} => req'[d] \in Requests
    BY <1>5, <2>1 DEF ExecuteFirst
  <2>7. pc' \in [Clients -> {"idle", "first", "fetch", "second", "fetch2", "send", "closed"}]
    BY <1>5 DEF ExecuteFirst
  <2>. QED BY <1>2, <1>5, <2>2, <2>4, <2>5, <2>6, <2>7 DEF ExecuteFirst
<1>6. CASE FetchFirst(c)
  <2>1. result' \in [Clients -> Seq(Rows)] /\ cur' \in Seq(Rows)
    BY <1>3, <1>6 DEF FetchFirst
  <2>2. snap' \in {NoTransaction} \cup 0 .. Len(table)
    BY <1>4, <1>6 DEF FetchFirst
  <2>3. pc' \in [Clients -> {"idle", "first", "fetch", "second", "fetch2", "send", "closed"}]
    BY <1>6 DEF FetchFirst
  <2>4. \A d \in Clients : pc'[d] \notin {"idle", "closed"} => req'[d] \in Requests
    BY <1>6 DEF FetchFirst
  <2>. QED BY <1>6, <2>1, <2>2, <2>3, <2>4 DEF FetchFirst
<1>7. CASE ExecuteSecond(c)
  <2>1. req[c] \in Requests /\ num[c] \in Nat
    BY <1>7 DEF ExecuteSecond
  <2>2. cur' \in Seq(Rows)
    BY <1>1, <1>7, <2>1, SecondQueryRows DEF ExecuteSecond
  <2>3. Len(cur') \in Nat
    BY <2>2, LenProperties
  <2>4. num' \in [Clients -> Nat]
    BY <1>7, <2>3 DEF ExecuteSecond
  <2>5. pc' \in [Clients -> {"idle", "first", "fetch", "second", "fetch2", "send", "closed"}]
    BY <1>7 DEF ExecuteSecond
  <2>6. \A d \in Clients : pc'[d] \notin {"idle", "closed"} => req'[d] \in Requests
    BY <1>7 DEF ExecuteSecond
  <2>. QED BY <1>2, <1>7, <2>2, <2>4, <2>5, <2>6 DEF ExecuteSecond
<1>8. CASE FetchSecond(c)
  <2>1. result[c] \o cur \in Seq(Rows)
    BY ConcatProperties
  <2>2. result' \in [Clients -> Seq(Rows)] /\ cur' \in Seq(Rows)
    BY <1>3, <1>8, <2>1 DEF FetchSecond
  <2>3. pc' \in [Clients -> {"idle", "first", "fetch", "second", "fetch2", "send", "closed"}]
    BY <1>8 DEF FetchSecond
  <2>4. \A d \in Clients : pc'[d] \notin {"idle", "closed"} => req'[d] \in Requests
    BY <1>8 DEF FetchSecond
  <2>. QED BY <1>8, <2>2, <2>3, <2>4 DEF FetchSecond
<1>9. CASE Send(c)
  <2>1. PICK rows \in Ordered(req[c], result[c]) :
          reply' = [reply EXCEPT ![c] = [req |-> req[c], num |-> num[c], rows |-> rows,
                                         asked |-> asked[c], seen |-> seen[c]]]
    BY <1>9 DEF Send
  <2>2. result[c] \in Seq(Rows)
    OBVIOUS
  <2>3. rows \in Seq(Rows)
    BY <2>2, SortingsOfRows DEF Ordered
  <2>4. [req |-> req[c], num |-> num[c], rows |-> rows, asked |-> asked[c], seen |-> seen[c]]
          \in Replies
    BY <2>3 DEF Replies
  <2>5. reply' \in [Clients -> Replies]
    BY <2>1, <2>4
  <2>6. \A d \in Clients : reply'[d].num \in Nat /\ reply'[d].rows \in Seq(Rows)
    BY <2>5 DEF Replies
  <2>7. snap' \in {NoTransaction} \cup 0 .. Len(table)
    BY <1>4, <1>9 DEF Send, Commit
  <2>8. Forget(c) /\ UNCHANGED <<table, cur, requests>>
    BY <1>9 DEF Send
  <2>9. pc' \in [Clients -> {"idle", "first", "fetch", "second", "fetch2", "send", "closed"}]
    BY <1>9 DEF Send
  <2>10. pc' = [pc EXCEPT ![c] = "idle"]
    BY <1>9 DEF Send
  <2>11. /\ req' \in [Clients -> Requests \cup {None}]
         /\ num' \in [Clients -> Nat]
         /\ result' \in [Clients -> Seq(Rows)]
         /\ asked' \in [Clients -> Nat] /\ seen' \in [Clients -> Nat]
         /\ \A d \in Clients : asked'[d] \in 0 .. Len(table) /\ seen'[d] \in 0 .. Len(table)
         /\ \A d \in Clients \ {c} : req'[d] = req[d]
    BY <2>8, ForgetTypes
  <2>12. \A d \in Clients : pc'[d] \notin {"idle", "closed"} => req'[d] \in Requests
    BY <2>10, <2>11
  <2>. QED BY <2>5, <2>6, <2>7, <2>8, <2>9, <2>11, <2>12
<1>10. CASE Fail(c)
  <2>1. snap' \in {NoTransaction} \cup 0 .. Len(table)
    BY <1>4, <1>10 DEF Fail, Commit
  <2>2. Forget(c) /\ UNCHANGED <<table, cur, reply, requests>>
    BY <1>10 DEF Fail
  <2>3. pc' \in [Clients -> {"idle", "first", "fetch", "second", "fetch2", "send", "closed"}]
    BY <1>10 DEF Fail
  <2>4. pc' = [pc EXCEPT ![c] = "closed"]
    BY <1>10 DEF Fail
  <2>5. /\ req' \in [Clients -> Requests \cup {None}]
        /\ num' \in [Clients -> Nat]
        /\ result' \in [Clients -> Seq(Rows)]
        /\ asked' \in [Clients -> Nat] /\ seen' \in [Clients -> Nat]
        /\ \A d \in Clients : asked'[d] \in 0 .. Len(table) /\ seen'[d] \in 0 .. Len(table)
        /\ \A d \in Clients \ {c} : req'[d] = req[d]
    BY <2>2, ForgetTypes
  <2>6. \A d \in Clients : pc'[d] \notin {"idle", "closed"} => req'[d] \in Requests
    BY <2>4, <2>5
  <2>. QED BY <2>1, <2>2, <2>3, <2>5, <2>6
<1>. QED BY <1>5, <1>6, <1>7, <1>8, <1>9, <1>10 DEF Serve

\* The types are kept when a row is stored, and when a client comes, asks or
\* leaves.
LEMMA OtherTypes ==
  ASSUME ServerTypes,
         StoreRow \/ (\E c \in Clients : Connect(c) \/ Request(c) \/ Leave(c)) \/ UNCHANGED vars
  PROVE  ServerTypes'
<1>. USE DEF ServerTypes, TypeOK, Goto
<1>1. Len(table) \in Nat /\ MaxRequests \in Nat
  BY TypesOfTable, SizesAssumption
<1>2. CASE StoreRow
  <2>1. PICK t \in Times : table' = Append(table, t)
    BY <1>2 DEF StoreRow
  <2>2. table' \in Seq(Times) /\ Len(table') = Len(table) + 1
    BY <2>1, AppendProperties
  <2>3. snap' \in {NoTransaction} \cup 0 .. Len(table')
    BY <1>1, <1>2, <2>2 DEF StoreRow
  <2>4. \A d \in Clients : asked'[d] \in 0 .. Len(table') /\ seen'[d] \in 0 .. Len(table')
    BY <1>1, <1>2, <2>2 DEF StoreRow
  <2>. QED BY <1>2, <2>2, <2>3, <2>4 DEF StoreRow
<1>3. ASSUME NEW c \in Clients, Connect(c)
      PROVE  ServerTypes'
  BY <1>3 DEF Connect
<1>4. ASSUME NEW c \in Clients, Leave(c)
      PROVE  ServerTypes'
  BY <1>4 DEF Leave
<1>5. ASSUME NEW c \in Clients, Request(c)
      PROVE  ServerTypes'
  <2>1. PICK r \in Requests : req' = [req EXCEPT ![c] = r]
    BY <1>5 DEF Request
  <2>2. req' \in [Clients -> Requests \cup {None}]
    BY <2>1
  <2>3. \A d \in Clients : pc'[d] \notin {"idle", "closed"} => req'[d] \in Requests
    BY <1>5, <2>1 DEF Request
  <2>4. pc' \in [Clients -> {"idle", "first", "fetch", "second", "fetch2", "send", "closed"}]
    BY <1>5 DEF Request
  <2>5. requests' \in 0 .. MaxRequests
    BY <1>1, <1>5 DEF Request
  <2>6. asked' \in [Clients -> Nat] /\ \A d \in Clients : asked'[d] \in 0 .. Len(table)
    BY <1>1, <1>5 DEF Request
  <2>. QED BY <1>5, <2>2, <2>3, <2>4, <2>5, <2>6 DEF Request
<1>6. CASE UNCHANGED vars
  BY <1>6 DEF vars
<1>. QED BY <1>2, <1>3, <1>4, <1>5, <1>6

\* Every step keeps the types.
LEMMA NextTypes == ServerTypes /\ [Next]_vars => ServerTypes'
BY ServeTypes, OtherTypes DEF Next

\* The server's variables keep their types, for any clients, whatever answers
\* get mixed up.
THEOREM ServerTypesCorrect == Spec => []ServerTypes
BY InitTypes, NextTypes, PTL DEF Spec

\* The type invariant of the runs, for any clients.
THEOREM TypeCorrect == Spec => []TypeOK
<1>1. ServerTypes => TypeOK
  BY DEF ServerTypes
<1>. QED BY <1>1, ServerTypesCorrect, PTL
-----------------------------------------------------------------------------
\* One client at most is connected at a time; with two, replies get mixed up.
OneClient == \A c, d \in Clients : c = d

\* While a request is served, num counts the rows got so far and the query has
\* seen what there was when the request came; between two searches there is
\* no transaction.
Serving(c) ==
  /\ pc[c] \in {"idle", "first", "second", "closed"} => snap = NoTransaction
  /\ pc[c] = "fetch" => num[c] = Len(cur) /\ (req[c].scan # 3 => Timed(cur))
  /\ pc[c] = "second" => num[c] = Len(result[c]) /\ Timed(result[c])
  /\ pc[c] = "fetch2" =>
       num[c] = Len(result[c]) + Len(cur) /\ Timed(result[c]) /\ Timed(cur)
  /\ pc[c] = "send" =>
       /\ num[c] = Len(result[c])
       /\ IF req[c].scan = 3 THEN snap = NoTransaction ELSE Timed(result[c])
  /\ pc[c] \in {"second", "fetch2"} => req[c].scan \in {2, 5}
  /\ pc[c] \in {"fetch", "second", "fetch2", "send"} => seen[c] >= asked[c]

\* A reply has as many rows as its head says, and is of its time.
Sound(r) == r.num = Len(r.rows) /\ r.seen >= r.asked

ServeInv == \A c \in Clients : Serving(c) /\ Sound(reply[c])

\* The newest of s rows, or all of them, with the last one first.
Newest(rows, scan, s) ==
  /\ Len(rows) = IF scan = 1 /\ s > Latest THEN Latest ELSE s
  /\ \A i \in 1 .. Len(rows) : rows[i].index = s - i

\* A search for the latest rows, or all, holds those its query saw.
LatestOf(c) ==
  req[c].scan \in {1, 4} =>
    /\ pc[c] = "fetch" => Newest(cur, req[c].scan, seen[c])
    /\ pc[c] = "send" => Newest(result[c], req[c].scan, seen[c])

LatestInv == LatestRows /\ \A c \in Clients : LatestOf(c)

\* Rows that follow each other, from the one with index a on.
Run(rows, a) == \A i \in 1 .. Len(rows) : rows[i].index = a + i - 1

\* A run that contains row k, if the table had it.
RunOver(rows, k, s) ==
  \E p \in 0 .. Len(rows) : Run(rows, k - p) /\ (k < s => p < Len(rows))

\* A search around an index has run up to it, and then goes on from it.
WindowOf(c) ==
  LET k == req[c].key
  IN  req[c].scan = 5 /\ k <= seen[c] =>
        /\ pc[c] = "fetch" => Run(cur, k - Len(cur))
        /\ pc[c] = "second" => Run(result[c], k - Len(result[c]))
        /\ pc[c] = "fetch2" => /\ Run(result[c], k - Len(result[c])) /\ Run(cur, k)
                               /\ k < seen[c] => Len(cur) > 0
        /\ pc[c] = "send" => RunOver(result[c], k, seen[c])

WindowInv == WindowHasNoGap /\ \A c \in Clients : WindowOf(c)

\* Rows later than t: with one of them, if the table is in order, all that are
\* between t and it.
Above(T, I, t) ==
  \A i \in I :
    /\ i + 1 \in 1 .. Len(T) /\ T[i + 1] > t
    /\ InOrder(T) =>
         \A k \in 1 .. Len(T) : t < T[k] /\ T[k] < T[i + 1] => k - 1 \in I

\* With one row, all of the first s that are between it and t; with two rows,
\* if the table is in order, all of another time than t that are between them.
Gapless(T, s, I, t) ==
  /\ s <= Len(T)
  /\ \A i \in I : i + 1 \in 1 .. Len(T)
  /\ \A i \in I, k \in 1 .. s : T[i + 1] < T[k] /\ T[k] < t => k - 1 \in I
  /\ InOrder(T) =>
       \A i, j \in I, k \in 1 .. Len(T) :
         T[i + 1] < T[k] /\ T[k] < T[j + 1] /\ T[k] # t => k - 1 \in I

\* A search around a time has the rows next after it, and then those before
\* it as well.
AroundOf(c) ==
  req[c].scan = 2 =>
    /\ pc[c] = "fetch" => Above(table, Indices(cur), req[c].key)
    /\ pc[c] = "second" => Above(table, Indices(result[c]), req[c].key)
    /\ pc[c] = "fetch2" =>
         Gapless(table, seen[c], Indices(result[c]) \cup Indices(cur), req[c].key)
    /\ pc[c] = "send" => Gapless(table, seen[c], Indices(result[c]), req[c].key)

AroundReply(r) ==
  r.req.scan = 2 => InTimeOrder(r.rows) /\ Gapless(table, r.seen, Indices(r.rows), r.req.key)

AroundInv == \A c \in Clients : AroundOf(c) /\ AroundReply(reply[c])
-----------------------------------------------------------------------------
\* At first nothing is served.
LEMMA InitServer == Init => ServeInv /\ LatestInv /\ WindowInv /\ AroundInv
<1>. SUFFICES ASSUME Init PROVE ServeInv /\ LatestInv /\ WindowInv /\ AroundInv
  OBVIOUS
<1>1. Len(<<>>) = 0 /\ DOMAIN <<>> = {}
  OBVIOUS
<1>2. \A c \in Clients : pc[c] = "closed" /\ req[c] = None /\ reply[c].req = None
  BY DEF Init
<1>3. ServeInv
  BY <1>1, <1>2 DEF Init, ServeInv, Serving, Sound
<1>4. LatestInv
  BY <1>2 DEF LatestInv, LatestOf, LatestRows, None
<1>5. WindowInv
  BY <1>2 DEF WindowInv, WindowOf, WindowHasNoGap, None
<1>6. AroundInv
  BY <1>2 DEF AroundInv, AroundOf, AroundReply, None
<1>. QED BY <1>3, <1>4, <1>5, <1>6

\* A step of a thread that serves keeps what holds of it and of its reply.
LEMMA ServeKeeps ==
  ASSUME ServerTypes, NEW c \in Clients, Serving(c), Sound(reply[c]), Serve(c)
  PROVE  Serving(c)' /\ Sound(reply[c])'
<1>. USE DEF Goto
<1>1. /\ pc \in [Clients -> {"idle", "first", "fetch", "second", "fetch2", "send", "closed"}]
      /\ req \in [Clients -> Requests \cup {None}] /\ num \in [Clients -> Nat]
      /\ result \in [Clients -> Seq(Rows)] /\ reply \in [Clients -> Replies]
      /\ asked \in [Clients -> Nat] /\ seen \in [Clients -> Nat]
      /\ cur \in Seq(Rows)
  BY DEF ServerTypes, TypeOK
<1>2. TableOK /\ Len(table) \in Nat /\ asked[c] \in 0 .. Len(table)
  BY TypesOfTable DEF ServerTypes, TypeOK
<1>3. View \in Nat /\ (snap = NoTransaction => View = Len(table))
  BY <1>2, ViewOfTable
<1>4. pc[c] \notin {"idle", "closed"} => req[c] \in Requests
  BY DEF ServerTypes
<1>5. CASE ExecuteFirst(c)
  <2>1. req[c] \in Requests
    BY <1>4, <1>5 DEF ExecuteFirst
  <2>2. req[c].scan # 3 => Timed(cur')
    BY <1>2, <1>5, <2>1, FirstQueryRows DEF ExecuteFirst
  <2>3. pc'[c] = "fetch" /\ num'[c] = Len(cur') /\ seen'[c] = View /\ req' = req
    BY <1>1, <1>5 DEF ExecuteFirst
  <2>4. asked' = asked /\ reply' = reply
    BY <1>5 DEF ExecuteFirst
  <2>5. View >= asked[c]
    BY <1>2, <1>3, <1>5 DEF ExecuteFirst, Serving
  <2>6. Serving(c)'
    BY <2>2, <2>3, <2>4, <2>5 DEF Serving, Timed
  <2>. QED BY <2>4, <2>6 DEF Sound
<1>6. CASE FetchFirst(c)
  <2>1. /\ num[c] = Len(cur) /\ (req[c].scan # 3 => Timed(cur)) /\ seen[c] >= asked[c]
    BY <1>6 DEF FetchFirst, Serving
  <2>2. result'[c] = cur
    BY <1>1, <1>6 DEF FetchFirst
  <2>3. UNCHANGED <<req, num, reply, asked, seen>>
    BY <1>6 DEF FetchFirst
  <2>4. CASE req[c].scan \in {2, 5}
    <3>1. pc'[c] = "second" /\ snap' = NoTransaction
      BY <2>4, <1>1, <1>6 DEF FetchFirst
    <3>. QED BY <3>1, <2>1, <2>2, <2>3, <2>4 DEF Serving, Sound, Timed
  <2>5. CASE req[c].scan \notin {2, 5}
    <3>1. pc'[c] = "send" /\ (req[c].scan = 3 => snap' = NoTransaction)
      BY <2>5, <1>1, <1>6 DEF FetchFirst
    <3>. QED BY <3>1, <2>1, <2>2, <2>3 DEF Serving, Sound, Timed
  <2>. QED BY <2>4, <2>5
<1>7. CASE ExecuteSecond(c)
  <2>1. req[c] \in Requests /\ num[c] = Len(result[c]) /\ Timed(result[c])
    BY <1>4, <1>7 DEF ExecuteSecond, Serving
  <2>2. req[c].scan \in {2, 5} /\ seen[c] >= asked[c]
    BY <1>7 DEF ExecuteSecond, Serving
  <2>3. Timed(cur')
    BY <1>1, <1>2, <1>7, <2>1, SecondQueryRows DEF ExecuteSecond
  <2>4. pc'[c] = "fetch2" /\ num'[c] = num[c] + Len(cur')
    BY <1>1, <1>7 DEF ExecuteSecond
  <2>5. UNCHANGED <<req, result, reply, asked, seen>>
    BY <1>7 DEF ExecuteSecond
  <2>. QED BY <2>1, <2>2, <2>3, <2>4, <2>5 DEF Serving, Sound, Timed
<1>8. CASE FetchSecond(c)
  <2>1. /\ num[c] = Len(result[c]) + Len(cur) /\ Timed(result[c]) /\ Timed(cur)
        /\ req[c].scan \in {2, 5} /\ seen[c] >= asked[c]
    BY <1>8 DEF FetchSecond, Serving
  <2>2. pc'[c] = "send" /\ result'[c] = result[c] \o cur
    BY <1>1, <1>8 DEF FetchSecond
  <2>3. UNCHANGED <<req, num, reply, asked, seen>>
    BY <1>8 DEF FetchSecond
  <2>4. /\ Len(result'[c]) = Len(result[c]) + Len(cur)
        /\ \A i \in 1 .. Len(result[c]) + Len(cur) :
             result'[c][i] = IF i <= Len(result[c]) THEN result[c][i] ELSE cur[i - Len(result[c])]
    BY <1>1, <2>2, ConcatProperties
  <2>5. Len(result[c]) \in Nat /\ Len(cur) \in Nat
    BY <1>1, LenProperties
  <2>6. ASSUME NEW i \in 1 .. Len(result'[c])
        PROVE  result'[c][i].time \in Nat
    <3>1. CASE i <= Len(result[c])
      BY <3>1, <2>1, <2>4, <2>5 DEF Timed
    <3>2. CASE ~(i <= Len(result[c]))
      <4>1. i - Len(result[c]) \in 1 .. Len(cur)
        BY <3>2, <2>4, <2>5
      <4>. QED BY <3>2, <4>1, <2>1, <2>4, <2>5 DEF Timed
    <3>. QED BY <3>1, <3>2
  <2>. QED BY <2>1, <2>2, <2>3, <2>4, <2>6 DEF Serving, Sound, Timed
<1>9. Printable(c) \/ pc[c] # "send"
  <2>. SUFFICES ASSUME pc[c] = "send", req[c].scan # 3
                PROVE  \A i \in DOMAIN result[c] : result[c][i].time >= 0
    BY DEF Printable
  <2>1. Timed(result[c])
    BY DEF Serving
  <2>2. DOMAIN result[c] = 1 .. Len(result[c])
    BY <1>1, LenProperties
  <2>. QED BY <2>1, <2>2 DEF Timed
<1>10. Commit(c) /\ pc[c] = "send" => snap' = NoTransaction
  BY DEF Commit, Serving
<1>11. CASE Send(c)
  <2>1. PICK rows \in Ordered(req[c], result[c]) :
          reply' = [reply EXCEPT ![c] = [req |-> req[c], num |-> num[c], rows |-> rows,
                                         asked |-> asked[c], seen |-> seen[c]]]
    BY <1>11 DEF Send
  <2>2. Len(rows) = Len(result[c])
    BY <1>1, SortingsOfRows DEF Ordered
  <2>3. num[c] = Len(result[c]) /\ seen[c] >= asked[c]
    BY <1>11 DEF Send, Serving
  <2>4. /\ reply'[c].num = num[c] /\ reply'[c].rows = rows
        /\ reply'[c].seen = seen[c] /\ reply'[c].asked = asked[c]
    BY <1>1, <2>1
  <2>5. pc'[c] = "idle" /\ snap' = NoTransaction
    BY <1>1, <1>10, <1>11 DEF Send
  <2>. QED BY <2>2, <2>3, <2>4, <2>5 DEF Serving, Sound
<1>12. CASE Fail(c)
  <2>1. pc'[c] = "closed" /\ snap' = NoTransaction /\ reply' = reply
    BY <1>1, <1>9, <1>10, <1>12 DEF Fail
  <2>. QED BY <2>1 DEF Serving, Sound
<1>. QED BY <1>5, <1>6, <1>7, <1>8, <1>11, <1>12 DEF Serve

\* So do the other steps.
LEMMA OtherKeeps ==
  ASSUME ServerTypes, NEW c \in Clients, Serving(c), Sound(reply[c]),
         StoreRow \/ Connect(c) \/ Request(c) \/ Leave(c) \/ UNCHANGED vars
  PROVE  Serving(c)' /\ Sound(reply[c])'
<1>1. pc \in [Clients -> {"idle", "first", "fetch", "second", "fetch2", "send", "closed"}]
  BY DEF ServerTypes, TypeOK
<1>2. CASE StoreRow
  BY <1>2 DEF StoreRow, Serving, Sound, Timed
<1>3. CASE Connect(c)
  <2>1. pc'[c] = "idle" /\ snap' = snap /\ reply' = reply /\ snap = NoTransaction
    BY <1>1, <1>3 DEF Connect, Goto, Serving
  <2>. QED BY <2>1 DEF Serving, Sound
<1>4. CASE Request(c)
  <2>1. pc'[c] = "first" /\ snap' = snap /\ reply' = reply /\ snap = NoTransaction
    BY <1>1, <1>4 DEF Request, Goto, Serving
  <2>. QED BY <2>1 DEF Serving, Sound
<1>5. CASE Leave(c)
  <2>1. pc'[c] = "closed" /\ snap' = snap /\ reply' = reply /\ snap = NoTransaction
    BY <1>1, <1>5 DEF Leave, Goto, Serving
  <2>. QED BY <2>1 DEF Serving, Sound
<1>6. CASE UNCHANGED vars
  BY <1>6 DEF vars, Serving, Sound, Timed
<1>. QED BY <1>2, <1>3, <1>4, <1>5, <1>6

\* With one client, what holds of its thread and its reply always holds.
LEMMA NextServe ==
  ASSUME OneClient
  PROVE  ServerTypes /\ ServeInv /\ [Next]_vars => ServeInv'
<1>. SUFFICES ASSUME ServerTypes, ServeInv, [Next]_vars, NEW c \in Clients
              PROVE  Serving(c)' /\ Sound(reply[c])'
  BY DEF ServeInv, Serving, Sound
<1>1. Serving(c) /\ Sound(reply[c])
  BY DEF ServeInv
<1>2. StoreRow \/ Connect(c) \/ Request(c) \/ Leave(c) \/ Serve(c) \/ UNCHANGED vars
  BY DEF OneClient, Next
<1>. QED BY <1>1, <1>2, ServeKeeps, OtherKeeps

\* With one client, ServeInv holds throughout.
THEOREM ServeInvCorrect ==
  ASSUME OneClient
  PROVE  Spec => [](ServerTypes /\ ServeInv)
<1>1. Init => ServerTypes /\ ServeInv
  BY InitTypes, InitServer
<1>2. ServerTypes /\ ServeInv /\ [Next]_vars => (ServerTypes /\ ServeInv)'
  BY NextTypes, NextServe
<1>. QED BY <1>1, <1>2, PTL DEF Spec

\* With one client, the number in the head of a reply is that of its rows,
\* though it is the sum of what two queries returned.
THEOREM HeaderCorrect ==
  ASSUME OneClient
  PROVE  Spec => []HeaderCountsRows
<1>1. ServeInv => HeaderCountsRows
  BY DEF ServeInv, Sound, HeaderCountsRows
<1>. QED BY <1>1, ServeInvCorrect, PTL

\* With one client, no reply is older than its request: each search ends with
\* a commit before the next begins.
THEOREM FreshCorrect ==
  ASSUME OneClient
  PROVE  Spec => []RepliesAreFresh
<1>1. ServeInv => RepliesAreFresh
  BY DEF ServeInv, Sound, RepliesAreFresh
<1>. QED BY <1>1, ServeInvCorrect, PTL
-----------------------------------------------------------------------------
\* What a step of a thread does to what it has got, with the answer to its
\* query where there is one.
LEMMA ServeEffects ==
  ASSUME ServerTypes, NEW c \in Clients, Serving(c), Serve(c)
  PROVE  /\ ExecuteFirst(c) =>
              /\ req[c] \in Requests /\ req' = req /\ result' = result /\ reply' = reply
              /\ pc'[c] = "fetch" /\ cur' = FirstQuery(req[c]) /\ seen'[c] = View
              /\ table' = table
         /\ FetchFirst(c) =>
              /\ pc[c] = "fetch" /\ result'[c] = cur
              /\ req' = req /\ seen' = seen /\ reply' = reply /\ table' = table
              /\ pc'[c] = IF req[c].scan \in {2, 5} THEN "second" ELSE "send"
         /\ ExecuteSecond(c) =>
              /\ pc[c] = "second" /\ req[c] \in Requests /\ req[c].scan \in {2, 5}
              /\ snap = NoTransaction /\ num[c] \in Nat
              /\ req' = req /\ seen' = seen /\ result' = result /\ reply' = reply
              /\ table' = table
              /\ pc'[c] = "fetch2" /\ cur' \in SecondQuery(req[c], num[c]) /\ cur' \in Seq(Rows)
         /\ FetchSecond(c) =>
              /\ pc[c] = "fetch2" /\ req[c].scan \in {2, 5}
              /\ req' = req /\ seen' = seen /\ reply' = reply /\ table' = table
              /\ pc'[c] = "send" /\ result'[c] = result[c] \o cur
         /\ Send(c) =>
              /\ pc[c] = "send" /\ req'[c] = None /\ table' = table
              /\ reply'[c].req = req[c] /\ reply'[c].seen = seen[c]
              /\ reply'[c].rows \in Ordered(req[c], result[c])
         /\ Fail(c) => req'[c] = None /\ reply' = reply /\ table' = table
<1>. USE DEF Goto
<1>1. /\ pc \in [Clients -> {"idle", "first", "fetch", "second", "fetch2", "send", "closed"}]
      /\ req \in [Clients -> Requests \cup {None}] /\ num \in [Clients -> Nat]
      /\ result \in [Clients -> Seq(Rows)] /\ reply \in [Clients -> Replies]
      /\ asked \in [Clients -> Nat] /\ seen \in [Clients -> Nat]
      /\ pc[c] \notin {"idle", "closed"} => req[c] \in Requests
  BY DEF ServerTypes, TypeOK
<1>2. ServerTypes'
  BY ServeTypes
<1>3. cur' \in Seq(Rows)
  BY <1>2 DEF ServerTypes, TypeOK
<1>4. ASSUME ExecuteFirst(c)
      PROVE  /\ req[c] \in Requests /\ req' = req /\ result' = result /\ reply' = reply
             /\ pc'[c] = "fetch" /\ cur' = FirstQuery(req[c]) /\ seen'[c] = View
             /\ table' = table
  BY <1>1, <1>4 DEF ExecuteFirst
<1>5. ASSUME FetchFirst(c)
      PROVE  /\ pc[c] = "fetch" /\ result'[c] = cur
             /\ req' = req /\ seen' = seen /\ reply' = reply /\ table' = table
             /\ pc'[c] = IF req[c].scan \in {2, 5} THEN "second" ELSE "send"
  BY <1>1, <1>5 DEF FetchFirst
<1>6. ASSUME ExecuteSecond(c)
      PROVE  /\ pc[c] = "second" /\ req[c] \in Requests /\ req[c].scan \in {2, 5}
             /\ snap = NoTransaction /\ num[c] \in Nat
             /\ req' = req /\ seen' = seen /\ result' = result /\ reply' = reply
             /\ table' = table
             /\ pc'[c] = "fetch2" /\ cur' \in SecondQuery(req[c], num[c]) /\ cur' \in Seq(Rows)
  BY <1>1, <1>3, <1>6 DEF ExecuteSecond, Serving
<1>7. ASSUME FetchSecond(c)
      PROVE  /\ pc[c] = "fetch2" /\ req[c].scan \in {2, 5}
             /\ req' = req /\ seen' = seen /\ reply' = reply /\ table' = table
             /\ pc'[c] = "send" /\ result'[c] = result[c] \o cur
  BY <1>1, <1>7 DEF FetchSecond, Serving
<1>8. ASSUME Send(c)
      PROVE  /\ pc[c] = "send" /\ req'[c] = None /\ table' = table
             /\ reply'[c].req = req[c] /\ reply'[c].seen = seen[c]
             /\ reply'[c].rows \in Ordered(req[c], result[c])
  <2>1. PICK rows \in Ordered(req[c], result[c]) :
          reply' = [reply EXCEPT ![c] = [req |-> req[c], num |-> num[c], rows |-> rows,
                                         asked |-> asked[c], seen |-> seen[c]]]
    BY <1>8 DEF Send
  <2>2. /\ reply'[c].req = req[c] /\ reply'[c].seen = seen[c] /\ reply'[c].rows = rows
    BY <1>1, <2>1
  <2>3. pc[c] = "send" /\ req'[c] = None /\ table' = table
    BY <1>1, <1>8 DEF Send, Forget
  <2>. QED BY <2>2, <2>3
<1>9. ASSUME Fail(c)
      PROVE  req'[c] = None /\ reply' = reply /\ table' = table
  BY <1>1, <1>9 DEF Fail, Forget
<1>. QED BY <1>4, <1>5, <1>6, <1>7, <1>8, <1>9

\* What the other steps leave alone.
LEMMA OtherEffects ==
  ASSUME ServerTypes, NEW c \in Clients,
         StoreRow \/ Connect(c) \/ Request(c) \/ Leave(c) \/ UNCHANGED vars
  PROVE  /\ cur' = cur /\ reply' = reply /\ result' = result /\ seen' = seen
         /\ \/ req' = req /\ pc'[c] = pc[c]
            \/ req' = req /\ pc'[c] \in {"idle", "closed"}
            \/ pc'[c] = "first"
         /\ StoreRow \/ table' = table
<1>. USE DEF Goto
<1>1. pc \in [Clients -> {"idle", "first", "fetch", "second", "fetch2", "send", "closed"}]
  BY DEF ServerTypes, TypeOK
<1>2. CASE StoreRow
  BY <1>2 DEF StoreRow
<1>3. CASE Connect(c)
  BY <1>1, <1>3 DEF Connect
<1>4. CASE Request(c)
  BY <1>1, <1>4 DEF Request
<1>5. CASE Leave(c)
  BY <1>1, <1>5 DEF Leave
<1>6. CASE UNCHANGED vars
  BY <1>6 DEF vars
<1>. QED BY <1>2, <1>3, <1>4, <1>5, <1>6

\* The indices of the newest rows.
LEMMA NewestIndices ==
  ASSUME NEW q \in Seq(Rows), NEW scan, NEW s \in Nat, Newest(q, scan, s)
  PROVE  Indices(q) = (s - Len(q)) .. (s - 1)
<1>1. Len(q) \in Nat /\ DOMAIN q = 1 .. Len(q)
  BY LenProperties
<1>2. \A i \in 1 .. Len(q) : q[i].index = s - i
  BY DEF Newest
<1>3. ASSUME NEW x \in Indices(q) PROVE x \in (s - Len(q)) .. (s - 1)
  <2>1. PICK i \in 1 .. Len(q) : x = q[i].index
    BY <1>1 DEF Indices
  <2>. QED BY <1>1, <1>2, <2>1
<1>4. ASSUME NEW x \in (s - Len(q)) .. (s - 1) PROVE x \in Indices(q)
  <2>1. s - x \in 1 .. Len(q) /\ s - (s - x) = x
    BY <1>1
  <2>2. q[s - x].index = x
    BY <1>2, <2>1
  <2>. QED BY <1>1, <2>1, <2>2 DEF Indices
<1>. QED BY <1>3, <1>4

\* A step keeps what holds of the latest rows.
LEMMA LatestKept ==
  ASSUME ServerTypes, NEW c \in Clients, Serving(c), LatestOf(c),
         StoreRow \/ Connect(c) \/ Request(c) \/ Leave(c) \/ Serve(c) \/ UNCHANGED vars
  PROVE  LatestOf(c)'
<1>1. CASE ~Serve(c)
  <2>1. /\ cur' = cur /\ reply' = reply /\ result' = result /\ seen' = seen
        /\ \/ req' = req /\ pc'[c] = pc[c]
           \/ req' = req /\ pc'[c] \in {"idle", "closed"}
           \/ pc'[c] = "first"
    BY <1>1, OtherEffects
  <2>. QED BY <2>1 DEF LatestOf, Newest
<1>2. CASE ExecuteFirst(c)
  <2>1. /\ req[c] \in Requests /\ req' = req
        /\ pc'[c] = "fetch" /\ cur' = FirstQuery(req[c]) /\ seen'[c] = View
    BY <1>2, ServeEffects DEF Serve
  <2>. SUFFICES ASSUME req[c].scan \in {1, 4}
                PROVE  Newest(FirstQuery(req[c]), req[c].scan, View)
    BY <2>1 DEF LatestOf, Newest
  <2>. DEFINE q == FirstQuery(req[c])
  <2>2. TableOK
    BY TypesOfTable
  <2>3. View \in Nat /\ Latest \in Nat
    BY <2>2, ViewOfTable, SizesAssumption
  <2>4. q \in {AtMost(Latest, Backwards(Stored)), Backwards(Stored)}
    BY DEF FirstQuery
  <2>5. /\ \A i \in 1 .. Len(q) : q[i].index = View - i
        /\ q = AtMost(Latest, Backwards(Stored))
             => Len(q) = IF View < Latest THEN View ELSE Latest
        /\ q = Backwards(Stored) => Len(q) = View
    BY <2>2, <2>4, NewestRows
  <2>6. Len(q) = IF req[c].scan = 1 /\ View > Latest THEN Latest ELSE View
    <3>1. CASE req[c].scan = 1
      <4>1. q = AtMost(Latest, Backwards(Stored))
        BY <3>1 DEF FirstQuery
      <4>. HIDE DEF q
      <4>. QED BY <2>3, <2>5, <3>1, <4>1
    <3>2. CASE req[c].scan = 4
      <4>1. q = Backwards(Stored)
        BY <3>2 DEF FirstQuery
      <4>. HIDE DEF q
      <4>. QED BY <2>3, <2>5, <3>2, <4>1
    <3>. QED BY <3>1, <3>2
  <2>. QED BY <2>5, <2>6 DEF Newest
<1>3. CASE FetchFirst(c)
  <2>1. /\ pc[c] = "fetch" /\ result'[c] = cur
        /\ req' = req /\ seen' = seen
        /\ pc'[c] = IF req[c].scan \in {2, 5} THEN "second" ELSE "send"
    BY <1>3, ServeEffects DEF Serve
  <2>. QED BY <2>1 DEF LatestOf, Newest
<1>4. CASE ExecuteSecond(c) \/ FetchSecond(c)
  <2>1. req[c].scan \in {2, 5} /\ req' = req
    BY <1>4, ServeEffects DEF Serve
  <2>. QED BY <2>1 DEF LatestOf
<1>5. CASE Send(c) \/ Fail(c)
  <2>1. req'[c] = None
    BY <1>5, ServeEffects DEF Serve
  <2>. QED BY <2>1 DEF LatestOf, None
<1>. QED BY <1>1, <1>2, <1>3, <1>4, <1>5 DEF Serve

\* With one client, the replies to scan1 and scan4 stay right.
LEMMA NextLatest ==
  ASSUME OneClient
  PROVE  ServerTypes /\ ServeInv /\ LatestInv /\ [Next]_vars => LatestInv'
<1>. SUFFICES ASSUME ServerTypes, ServeInv, LatestInv, [Next]_vars, NEW c \in Clients
              PROVE  /\ LatestOf(c)'
                     /\ LET rows == reply'[c].rows  n == Len(rows)  s == reply'[c].seen
                        IN  reply'[c].req.scan \in {1, 4} =>
                              /\ n = IF reply'[c].req.scan = 1 /\ s > Latest THEN Latest ELSE s
                              /\ Indices(rows) = (s - n) .. (s - 1)
                              /\ InTimeOrder(rows)
  BY DEF LatestInv, LatestRows
<1>1. Serving(c) /\ LatestOf(c)
  BY DEF ServeInv, LatestInv
<1>2. StoreRow \/ Connect(c) \/ Request(c) \/ Leave(c) \/ Serve(c) \/ UNCHANGED vars
  BY DEF OneClient, Next
<1>3. LatestOf(c)'
  BY <1>1, <1>2, LatestKept
<1>4. CASE reply' = reply
  BY <1>3, <1>4 DEF LatestInv, LatestRows
<1>5. CASE Send(c)
  <2>1. /\ pc[c] = "send" /\ reply'[c].req = req[c] /\ reply'[c].seen = seen[c]
        /\ reply'[c].rows \in Ordered(req[c], result[c])
    BY <1>1, <1>5, ServeEffects DEF Serve
  <2>. SUFFICES ASSUME req[c].scan \in {1, 4}
                PROVE  LET rows == reply'[c].rows  n == Len(rows)  s == seen[c]
                       IN  /\ n = IF req[c].scan = 1 /\ s > Latest THEN Latest ELSE s
                           /\ Indices(rows) = (s - n) .. (s - 1)
                           /\ InTimeOrder(rows)
    BY <1>3, <2>1
  <2>2. Newest(result[c], req[c].scan, seen[c])
    BY <1>1, <2>1 DEF LatestOf
  <2>3. result[c] \in Seq(Rows) /\ seen[c] \in Nat
    BY DEF ServerTypes, TypeOK
  <2>4. reply'[c].rows \in Sortings(result[c])
    BY <2>1 DEF Ordered
  <2>5. /\ Len(reply'[c].rows) = Len(result[c]) /\ Indices(reply'[c].rows) = Indices(result[c])
        /\ InTimeOrder(reply'[c].rows)
    BY <2>3, <2>4, SortingsOfRows
  <2>6. Indices(result[c]) = (seen[c] - Len(result[c])) .. (seen[c] - 1)
    BY <2>2, <2>3, NewestIndices
  <2>. QED BY <2>2, <2>5, <2>6 DEF Newest
<1>6. reply' = reply \/ Send(c)
  BY <1>1, <1>2, ServeEffects, OtherEffects DEF Serve
<1>. QED BY <1>4, <1>5, <1>6

\* With one client, scan1 and scan4 give the newest rows of the table as
\* their query found it, none left out and none twice.
THEOREM LatestCorrect ==
  ASSUME OneClient
  PROVE  Spec => []LatestRows
<1>1. Init => LatestInv
  BY InitServer
<1>2. ServerTypes /\ ServeInv /\ LatestInv /\ [Next]_vars => LatestInv'
  BY NextLatest
<1>3. LatestInv => LatestRows
  BY DEF LatestInv
<1>. QED BY <1>1, <1>2, <1>3, ServeInvCorrect, PTL DEF Spec
-----------------------------------------------------------------------------
\* What an interval of places holds are rows that follow each other.
LEMMA IntervalRows ==
  ASSUME TableOK, NEW a \in Nat, NEW b \in Nat, 1 <= a, a <= b + 1, b <= View, NEW n \in Nat
  PROVE  LET q == AtMost(n, RowsAt(a .. b))
         IN  /\ Run(q, a - 1)
             /\ Len(q) = IF b - a + 1 < n THEN b - a + 1 ELSE n
<1>. DEFINE S == a .. b  q == AtMost(n, RowsAt(S))
<1>1. View \in Nat
  BY ViewOfTable
<1>2. S \subseteq 1 .. View
  BY <1>1
<1>3. /\ Cardinality(S) = b - a + 1
      /\ \A i \in 1 .. b - a + 1 : Place(S, i) = a + i - 1
  BY IntervalPlaces
<1>. HIDE DEF S
<1>4. /\ RowsAt(S) \in Seq(Rows)
      /\ Len(RowsAt(S)) = Cardinality(S)
      /\ \A i \in 1 .. Cardinality(S) :
           RowsAt(S)[i] = [index |-> Place(S, i) - 1, time |-> table[Place(S, i)]]
  BY <1>2, RowsAtPlaces
<1>5. /\ Len(q) = IF Len(RowsAt(S)) < n THEN Len(RowsAt(S)) ELSE n
      /\ \A i \in 1 .. Len(q) : q[i] = RowsAt(S)[i]
  BY <1>4, AtMostOfRows
<1>. HIDE DEF q
<1>6. Len(q) = IF b - a + 1 < n THEN b - a + 1 ELSE n
  BY <1>3, <1>4, <1>5
<1>7. ASSUME NEW i \in 1 .. Len(q) PROVE q[i].index = a - 1 + i - 1
  <2>1. i \in 1 .. b - a + 1
    BY <1>6
  <2>2. i \in 1 .. Cardinality(S) /\ q[i] = RowsAt(S)[i]
    BY <2>1, <1>3, <1>5
  <2>3. q[i] = [index |-> Place(S, i) - 1, time |-> table[Place(S, i)]]
    BY <2>2, <1>4
  <2>4. q[i].index = Place(S, i) - 1
    BY <2>3
  <2>5. Place(S, i) = a + i - 1
    BY <2>1, <1>3
  <2>. QED BY <2>1, <2>4, <2>5
<1>. QED BY <1>6, <1>7 DEF Run, q, S

\* The rows before an index the table has, or is about to have.
LEMMA BelowRows ==
  ASSUME TableOK, NEW k \in Nat, k <= View
  PROVE  Run(Below(k), k - Len(Below(k)))
<1>. DEFINE a == IF k < Behind THEN 1 ELSE k - Behind + 1
            S == {i \in 1 .. View : i - 1 \in (k - Behind) .. (k - 1)}
<1>1. View \in Nat /\ Behind \in Nat
  BY ViewOfTable, SizesAssumption
<1>2. a \in Nat /\ 1 <= a /\ a <= k + 1
  BY <1>1
<1>3. S = a .. k
  <2>1. \A i \in S : i \in a .. k
    BY <1>1
  <2>2. \A i \in a .. k : i \in S
    BY <1>1
  <2>. QED BY <2>1, <2>2
<1>4. Below(k) = AtMost(Behind, RowsAt(a .. k))
  BY <1>3 DEF Below
<1>5. k - a + 1 = IF k < Behind THEN k ELSE Behind
  BY <1>1
<1>. HIDE DEF a, S
<1>6. /\ Run(Below(k), a - 1)
      /\ Len(Below(k)) = IF k - a + 1 < Behind THEN k - a + 1 ELSE Behind
  BY <1>1, <1>2, <1>4, IntervalRows
<1>7. k - Len(Below(k)) = a - 1
  BY <1>1, <1>2, <1>5, <1>6
<1>. QED BY <1>6, <1>7

\* The rows from an index on.
LEMMA FromRows ==
  ASSUME TableOK, NEW k \in Nat, k <= View
  PROVE  /\ Run(FromIndex(k), k)
         /\ k < View /\ Ahead > 0 => Len(FromIndex(k)) > 0
<1>. DEFINE S == {i \in 1 .. View : i - 1 >= k}
<1>1. View \in Nat /\ Ahead \in Nat
  BY ViewOfTable, SizesAssumption
<1>2. S = k + 1 .. View
  <2>1. \A i \in S : i \in k + 1 .. View
    BY <1>1
  <2>2. \A i \in k + 1 .. View : i \in S
    BY <1>1
  <2>. QED BY <2>1, <2>2
<1>3. FromIndex(k) = AtMost(Ahead, RowsAt(k + 1 .. View))
  BY <1>2 DEF FromIndex
<1>. HIDE DEF S
<1>4. k + 1 \in Nat /\ 1 <= k + 1 /\ k + 1 <= View + 1 /\ k + 1 - 1 = k
  BY <1>1
<1>5. /\ Run(FromIndex(k), k + 1 - 1)
      /\ Len(FromIndex(k))
           = IF View - (k + 1) + 1 < Ahead THEN View - (k + 1) + 1 ELSE Ahead
  BY <1>1, <1>3, <1>4, IntervalRows
<1>. QED BY <1>1, <1>4, <1>5

\* Two runs that meet make one.
LEMMA RunsJoin ==
  ASSUME NEW r \in Seq(Rows), NEW q \in Seq(Rows), NEW k \in Nat, NEW s \in Nat,
         Run(r, k - Len(r)), Run(q, k), k < s => Len(q) > 0
  PROVE  RunOver(r \o q, k, s)
<1>1. Len(r) \in Nat /\ Len(q) \in Nat
  BY LenProperties
<1>2. /\ Len(r \o q) = Len(r) + Len(q)
      /\ \A i \in 1 .. Len(r) + Len(q) :
           (r \o q)[i] = IF i <= Len(r) THEN r[i] ELSE q[i - Len(r)]
  BY ConcatProperties
<1>3. ASSUME NEW i \in 1 .. Len(r \o q)
      PROVE  (r \o q)[i].index = k - Len(r) + i - 1
  <2>1. CASE i <= Len(r)
    <3>1. i \in 1 .. Len(r) /\ (r \o q)[i] = r[i]
      BY <2>1, <1>1, <1>2
    <3>. QED BY <3>1 DEF Run
  <2>2. CASE ~(i <= Len(r))
    <3>1. i - Len(r) \in 1 .. Len(q) /\ (r \o q)[i] = q[i - Len(r)]
      BY <2>2, <1>1, <1>2
    <3>2. q[i - Len(r)].index = k + (i - Len(r)) - 1
      BY <3>1 DEF Run
    <3>3. i \in Int
      OBVIOUS
    <3>. QED BY <3>1, <3>2, <3>3, <1>1
  <2>. QED BY <2>1, <2>2
<1>4. Run(r \o q, k - Len(r))
  BY <1>3 DEF Run
<1>5. Len(r) \in 0 .. Len(r \o q) /\ (k < s => Len(r) < Len(r \o q))
  BY <1>1, <1>2
<1>. QED BY <1>4, <1>5 DEF RunOver

\* A step keeps the runs of a search around an index.
LEMMA WindowKept ==
  ASSUME Ahead > 0, ServerTypes, NEW c \in Clients, Serving(c), WindowOf(c),
         StoreRow \/ Connect(c) \/ Request(c) \/ Leave(c) \/ Serve(c) \/ UNCHANGED vars
  PROVE  WindowOf(c)'
<1>. DEFINE k == req[c].key
<1>a. TableOK /\ View \in Nat
  BY TypesOfTable, ViewOfTable
<1>b. /\ result[c] \in Seq(Rows) /\ cur \in Seq(Rows) /\ seen[c] \in 0 .. Len(table)
      /\ Len(table) \in Nat
  BY TypesOfTable DEF ServerTypes, TypeOK
<1>1. CASE ~Serve(c)
  <2>1. /\ cur' = cur /\ reply' = reply /\ result' = result /\ seen' = seen
        /\ \/ req' = req /\ pc'[c] = pc[c]
           \/ req' = req /\ pc'[c] \in {"idle", "closed"}
           \/ pc'[c] = "first"
    BY <1>1, OtherEffects
  <2>. QED BY <2>1 DEF WindowOf, Run, RunOver
<1>2. CASE ExecuteFirst(c)
  <2>1. /\ req[c] \in Requests /\ req' = req
        /\ pc'[c] = "fetch" /\ cur' = FirstQuery(req[c]) /\ seen'[c] = View
    BY <1>2, ServeEffects DEF Serve
  <2>. SUFFICES ASSUME req[c].scan = 5, k <= View
                PROVE  Run(FirstQuery(req[c]), k - Len(FirstQuery(req[c])))
    BY <2>1 DEF WindowOf, Run
  <2>2. FirstQuery(req[c]) = Below(k)
    BY DEF FirstQuery
  <2>3. k \in Nat
    BY <2>1, RequestNumbers
  <2>. QED BY <2>2, <2>3, <1>a, BelowRows
<1>3. CASE FetchFirst(c)
  <2>1. /\ pc[c] = "fetch" /\ result'[c] = cur
        /\ req' = req /\ seen' = seen
        /\ pc'[c] = IF req[c].scan \in {2, 5} THEN "second" ELSE "send"
    BY <1>3, ServeEffects DEF Serve
  <2>. QED BY <2>1 DEF WindowOf, Run
<1>4. CASE ExecuteSecond(c)
  <2>1. /\ pc[c] = "second" /\ req[c] \in Requests /\ snap = NoTransaction
        /\ req' = req /\ seen' = seen /\ result' = result
        /\ pc'[c] = "fetch2" /\ cur' \in SecondQuery(req[c], num[c])
    BY <1>4, ServeEffects DEF Serve
  <2>. SUFFICES ASSUME req[c].scan = 5, k <= seen[c]
                PROVE  /\ Run(result[c], k - Len(result[c])) /\ Run(cur', k)
                       /\ k < seen[c] => Len(cur') > 0
    BY <2>1 DEF WindowOf, Run
  <2>2. cur' = FromIndex(k)
    BY <2>1 DEF SecondQuery
  <2>3. View = Len(table)
    BY <2>1, <1>a, ViewOfTable
  <2>4. k \in Nat /\ k <= View /\ (k < seen[c] => k < View)
    BY <2>1, <2>3, <1>b, RequestNumbers
  <2>5. Run(FromIndex(k), k) /\ (k < View /\ Ahead > 0 => Len(FromIndex(k)) > 0)
    BY <2>4, <1>a, FromRows
  <2>6. Run(result[c], k - Len(result[c]))
    BY <2>1 DEF WindowOf
  <2>. QED BY <2>2, <2>4, <2>5, <2>6
<1>5. CASE FetchSecond(c)
  <2>1. /\ pc[c] = "fetch2" /\ req' = req /\ seen' = seen
        /\ pc'[c] = "send" /\ result'[c] = result[c] \o cur
    BY <1>5, ServeEffects DEF Serve
  <2>. SUFFICES ASSUME req[c].scan = 5, k <= seen[c]
                PROVE  RunOver(result[c] \o cur, k, seen[c])
    BY <2>1 DEF WindowOf, Run, RunOver
  <2>2. Run(result[c], k - Len(result[c])) /\ Run(cur, k) /\ (k < seen[c] => Len(cur) > 0)
    BY <2>1 DEF WindowOf
  <2>3. req[c] \in Requests
    BY <2>1 DEF ServerTypes
  <2>4. k \in Nat /\ seen[c] \in Nat
    BY <2>3, <1>b, RequestNumbers
  <2>. QED BY <2>2, <2>4, <1>b, RunsJoin
<1>6. CASE Send(c) \/ Fail(c)
  <2>1. req'[c] = None
    BY <1>6, ServeEffects DEF Serve
  <2>. QED BY <2>1 DEF WindowOf, None
<1>. QED BY <1>1, <1>2, <1>3, <1>4, <1>5, <1>6 DEF Serve

\* With one client, the replies to scan5 stay without gaps.
LEMMA NextWindow ==
  ASSUME OneClient, Ahead > 0
  PROVE  ServerTypes /\ ServeInv /\ WindowInv /\ [Next]_vars => WindowInv'
<1>. SUFFICES ASSUME ServerTypes, ServeInv, WindowInv, [Next]_vars, NEW c \in Clients
              PROVE  /\ WindowOf(c)'
                     /\ LET rows == reply'[c].rows  k == reply'[c].req.key
                        IN  reply'[c].req.scan = 5 /\ k <= reply'[c].seen =>
                              /\ \A i \in 1 .. Len(rows) - 1 : rows[i + 1].index = rows[i].index + 1
                              /\ k < reply'[c].seen => k \in Indices(rows)
  BY DEF WindowInv, WindowHasNoGap
<1>1. Serving(c) /\ WindowOf(c)
  BY DEF ServeInv, WindowInv
<1>2. StoreRow \/ Connect(c) \/ Request(c) \/ Leave(c) \/ Serve(c) \/ UNCHANGED vars
  BY DEF OneClient, Next
<1>3. WindowOf(c)'
  BY <1>1, <1>2, WindowKept
<1>4. CASE reply' = reply
  BY <1>3, <1>4 DEF WindowInv, WindowHasNoGap
<1>5. CASE Send(c)
  <2>. DEFINE k == req[c].key  rows == result[c]
  <2>1. /\ pc[c] = "send" /\ reply'[c].req = req[c] /\ reply'[c].seen = seen[c]
        /\ reply'[c].rows \in Ordered(req[c], result[c])
    BY <1>1, <1>5, ServeEffects DEF Serve
  <2>. SUFFICES ASSUME req[c].scan = 5, k <= seen[c]
                PROVE  /\ \A i \in 1 .. Len(rows) - 1 : rows[i + 1].index = rows[i].index + 1
                       /\ k < seen[c] => k \in Indices(rows)
    BY <1>3, <2>1 DEF Ordered
  <2>2. PICK p \in 0 .. Len(rows) : Run(rows, k - p) /\ (k < seen[c] => p < Len(rows))
    BY <1>1, <2>1 DEF WindowOf, RunOver
  <2>3. rows \in Seq(Rows) /\ req[c] \in Requests
    BY <2>1 DEF ServerTypes, TypeOK
  <2>4. Len(rows) \in Nat /\ DOMAIN rows = 1 .. Len(rows) /\ k \in Nat
    BY <2>3, LenProperties, RequestNumbers
  <2>. HIDE DEF rows, k
  <2>5. ASSUME NEW i \in 1 .. Len(rows) - 1
        PROVE  rows[i + 1].index = rows[i].index + 1
    <3>1. i \in 1 .. Len(rows) /\ i + 1 \in 1 .. Len(rows)
      BY <2>4
    <3>2. rows[i].index = k - p + i - 1 /\ rows[i + 1].index = k - p + (i + 1) - 1
      BY <3>1, <2>2 DEF Run
    <3>. QED BY <3>1, <3>2, <2>4
  <2>6. ASSUME k < seen[c] PROVE k \in Indices(rows)
    <3>1. p + 1 \in 1 .. Len(rows)
      BY <2>2, <2>4, <2>6
    <3>2. rows[p + 1].index = k - p + (p + 1) - 1
      BY <3>1, <2>2 DEF Run
    <3>3. rows[p + 1].index = k
      BY <3>1, <3>2, <2>4
    <3>. QED BY <3>1, <3>3, <2>4 DEF Indices
  <2>. QED BY <2>5, <2>6
<1>6. reply' = reply \/ Send(c)
  BY <1>1, <1>2, ServeEffects, OtherEffects DEF Serve
<1>. QED BY <1>4, <1>5, <1>6

\* With one client, the two queries of scan5 leave no row out around an index
\* the table has, though rows are stored between them; if a window has a row
\* from the index on.
THEOREM WindowCorrect ==
  ASSUME OneClient, Ahead > 0
  PROVE  Spec => []WindowHasNoGap
<1>1. Init => WindowInv
  BY InitServer
<1>2. ServerTypes /\ ServeInv /\ WindowInv /\ [Next]_vars => WindowInv'
  BY NextWindow
<1>3. WindowInv => WindowHasNoGap
  BY DEF WindowInv
<1>. QED BY <1>1, <1>2, <1>3, ServeInvCorrect, PTL DEF Spec
-----------------------------------------------------------------------------
\* The indices of the rows at some places.
LEMMA RowsAtIndices ==
  ASSUME TableOK, NEW S, S \subseteq 1 .. View
  PROVE  \A x : x \in Indices(RowsAt(S)) <=> \E k \in S : x = k - 1
<1>1. /\ RowsAt(S) \in Seq(Rows) /\ Len(RowsAt(S)) = Cardinality(S)
      /\ \A i \in 1 .. Cardinality(S) :
           /\ Place(S, i) \in S
           /\ RowsAt(S)[i] = [index |-> Place(S, i) - 1, time |-> table[Place(S, i)]]
  BY RowsAtPlaces
<1>2. DOMAIN RowsAt(S) = 1 .. Cardinality(S)
  BY <1>1, LenProperties
<1>3. ASSUME NEW x \in Indices(RowsAt(S)) PROVE \E k \in S : x = k - 1
  <2>1. PICK i \in 1 .. Cardinality(S) : x = RowsAt(S)[i].index
    BY <1>2 DEF Indices
  <2>2. PICK k \in S : RowsAt(S)[i] = [index |-> k - 1, time |-> table[k]]
    BY <1>1
  <2>. QED BY <2>1, <2>2
<1>4. ASSUME NEW k \in S PROVE k - 1 \in Indices(RowsAt(S))
  <2>1. View \in Nat
    BY ViewOfTable
  <2>2. Rank(S, k) \in 1 .. Cardinality(S) /\ Place(S, Rank(S, k)) = k
    BY <2>1, PlaceOrder
  <2>3. RowsAt(S)[Rank(S, k)].index = k - 1
    BY <1>1, <2>2
  <2>. QED BY <1>2, <2>2, <2>3 DEF Indices
<1>. QED BY <1>3, <1>4

\* The rows next after a time.
LEMMA AfterRows ==
  ASSUME TableOK, NEW t \in Nat
  PROVE  Above(table, Indices(After(t)), t)
<1>. DEFINE S == {i \in 1 .. View : table[i] > t}  q == AtMost(Ahead, RowsAt(S))
<1>1. /\ View \in Nat /\ Len(table) \in Nat /\ View <= Len(table)
      /\ \A i \in 1 .. Len(table) : table[i] \in Nat
  BY ViewOfTable
<1>2. S \subseteq 1 .. View /\ \A k \in S : k \in 1 .. View /\ table[k] > t
  OBVIOUS
<1>3. \A k \in 1 .. View : table[k] > t => k \in S
  OBVIOUS
<1>. HIDE DEF S
<1>4. /\ RowsAt(S) \in Seq(Rows) /\ Len(RowsAt(S)) = Cardinality(S) /\ Cardinality(S) \in Nat
      /\ \A i \in 1 .. Cardinality(S) :
           /\ Place(S, i) \in S
           /\ RowsAt(S)[i] = [index |-> Place(S, i) - 1, time |-> table[Place(S, i)]]
  BY <1>2, RowsAtPlaces
<1>5. /\ \A i, j \in 1 .. Cardinality(S) : i < j => Place(S, i) < Place(S, j)
      /\ \A k \in S : Rank(S, k) \in 1 .. Cardinality(S) /\ Place(S, Rank(S, k)) = k
  BY <1>1, <1>2, PlaceOrder
<1>6. Ahead \in Nat
  BY SizesAssumption
<1>7. /\ q \in Seq(Rows)
      /\ Len(q) = IF Cardinality(S) < Ahead THEN Cardinality(S) ELSE Ahead
      /\ \A i \in 1 .. Len(q) : q[i] = RowsAt(S)[i]
  BY <1>4, <1>6, AtMostOfRows
<1>. HIDE DEF q
<1>8. Len(q) \in Nat /\ Len(q) <= Cardinality(S) /\ DOMAIN q = 1 .. Len(q)
  BY <1>4, <1>6, <1>7, LenProperties
<1>9. \A i \in 1 .. Len(q) : i \in 1 .. Cardinality(S) /\ q[i].index = Place(S, i) - 1
  BY <1>4, <1>7, <1>8
<1>10. ASSUME NEW x \in Indices(q)
       PROVE  /\ x + 1 \in 1 .. Len(table) /\ table[x + 1] > t
              /\ InOrder(table) =>
                   \A k \in 1 .. Len(table) :
                     t < table[k] /\ table[k] < table[x + 1] => k - 1 \in Indices(q)
  <2>1. PICK i \in 1 .. Len(q) : x = q[i].index
    BY <1>8 DEF Indices
  <2>2. PICK l \in S : l = Place(S, i) /\ x = l - 1
    BY <1>4, <1>9, <2>1
  <2>3. l \in 1 .. View /\ table[l] > t /\ x + 1 = l
    BY <1>2, <2>2
  <2>4. ASSUME InOrder(table), NEW k \in 1 .. Len(table), t < table[k], table[k] < table[l]
        PROVE  k - 1 \in Indices(q)
    <3>1. ~(l <= k)
      <4>1. l \in 1 .. Len(table)
        BY <1>1, <2>3
      <4>2. table[l] \in Nat /\ table[k] \in Nat
        BY <1>1, <4>1
      <4>. QED BY <2>4, <4>1, <4>2 DEF InOrder
    <3>2. k \in S
      BY <1>1, <1>3, <2>3, <2>4, <3>1
    <3>3. PICK j \in 1 .. Cardinality(S) : j = Rank(S, k) /\ Place(S, j) = k
      BY <1>5, <3>2
    <3>4. ~(i < j) /\ i # j
      BY <1>5, <1>9, <2>2, <2>3, <3>1, <3>3
    <3>5. j \in 1 .. Len(q)
      BY <1>4, <1>8, <3>3, <3>4
    <3>6. q[j].index = k - 1
      BY <1>9, <3>3, <3>5
    <3>. QED BY <1>8, <3>5, <3>6 DEF Indices
  <2>. QED BY <1>1, <2>3, <2>4
<1>11. After(t) = q
  BY DEF After, q, S
<1>. QED BY <1>10, <1>11 DEF Above

\* The rows next before a time, and with one of them all that are later.
LEMMA BeforeRows ==
  ASSUME TableOK, snap = NoTransaction, NEW t \in Nat, NEW n \in Nat, NEW q \in Before(t, n)
  PROVE  \A x \in Indices(q) :
           /\ x + 1 \in 1 .. Len(table) /\ table[x + 1] < t
           /\ \A k \in 1 .. Len(table) :
                table[x + 1] < table[k] /\ table[k] < t => k - 1 \in Indices(q)
<1>. DEFINE S == {i \in 1 .. View : table[i] < t}
<1>1. /\ View = Len(table) /\ Len(table) \in Nat
      /\ \A i \in 1 .. Len(table) : table[i] \in Nat
  BY ViewOfTable
<1>2. PICK K \in SUBSET S : q = RowsAt(K) /\ \A i \in K, j \in S \ K : table[j] <= table[i]
  BY DEF Before, Limited
<1>3. K \subseteq 1 .. View /\ \A k \in K : k \in 1 .. Len(table) /\ table[k] < t
  BY <1>1
<1>4. \A k \in 1 .. Len(table) : table[k] < t => k \in S
  BY <1>1
<1>. HIDE DEF S
<1>5. \A x : x \in Indices(q) <=> \E k \in K : x = k - 1
  BY <1>2, <1>3, RowsAtIndices
<1>6. ASSUME NEW x \in Indices(q)
      PROVE  /\ x + 1 \in 1 .. Len(table) /\ table[x + 1] < t
             /\ \A k \in 1 .. Len(table) :
                  table[x + 1] < table[k] /\ table[k] < t => k - 1 \in Indices(q)
  <2>1. PICK l \in K : x = l - 1
    BY <1>5
  <2>2. l \in 1 .. Len(table) /\ table[l] < t /\ x + 1 = l
    BY <1>3, <2>1
  <2>3. ASSUME NEW k \in 1 .. Len(table), table[l] < table[k], table[k] < t
        PROVE  k - 1 \in Indices(q)
    <3>1. k \in S /\ ~(table[k] <= table[l])
      BY <1>1, <1>4, <2>2, <2>3
    <3>2. k \in K
      BY <1>2, <3>1
    <3>. QED BY <1>5, <3>2
  <2>. QED BY <2>2, <2>3
<1>. QED BY <1>6

\* The rows after a time and those before it leave none out.
LEMMA AroundJoins ==
  ASSUME NEW T \in Seq(Nat), NEW s \in Nat, s <= Len(T), NEW I, NEW J, NEW t \in Nat,
         Above(T, I, t),
         \A x \in J :
           /\ x + 1 \in 1 .. Len(T) /\ T[x + 1] < t
           /\ \A k \in 1 .. Len(T) : T[x + 1] < T[k] /\ T[k] < t => k - 1 \in J
  PROVE  Gapless(T, s, I \cup J, t)
<1>1. \A k \in 1 .. Len(T) : T[k] \in Nat
  BY ElementOfSeq
<1>2. \A x \in I \cup J : x + 1 \in 1 .. Len(T)
  BY DEF Above
<1>3. ASSUME InOrder(T), NEW i \in I \cup J, NEW j \in I \cup J, NEW k \in 1 .. Len(T),
             T[i + 1] < T[k], T[k] < T[j + 1], T[k] # t
      PROVE  k - 1 \in I \cup J
  <2>1. T[k] \in Nat /\ T[i + 1] \in Nat /\ T[j + 1] \in Nat
    BY <1>1, <1>2
  <2>2. CASE T[k] < t
    <3>1. ~(T[i + 1] > t)
      BY <1>3, <2>1, <2>2
    <3>2. i \in J
      BY <3>1 DEF Above
    <3>. QED BY <1>3, <2>2, <3>2
  <2>3. CASE t < T[k]
    <3>1. ~(T[j + 1] < t)
      BY <1>3, <2>1, <2>3
    <3>2. j \in I
      BY <3>1
    <3>. QED BY <1>3, <2>3, <3>2 DEF Above
  <2>. QED BY <1>3, <2>1, <2>2, <2>3
<1>4. ASSUME NEW i \in I \cup J, NEW k \in 1 .. s, T[i + 1] < T[k], T[k] < t
      PROVE  k - 1 \in I \cup J
  <2>1. k \in 1 .. Len(T)
    <3>1. Len(T) \in Nat
      BY LenProperties
    <3>. QED BY <3>1
  <2>2. T[k] \in Nat /\ T[i + 1] \in Nat
    BY <1>1, <1>2, <2>1
  <2>3. ~(T[i + 1] > t)
    BY <1>4, <2>2
  <2>4. i \in J
    BY <2>3 DEF Above
  <2>. QED BY <1>4, <2>1, <2>4
<1>. QED BY <1>2, <1>3, <1>4 DEF Gapless

\* A row that is stored leaves a search as it was; if the table is still in
\* order, the row is not earlier than any and opens no gap.
LEMMA StoreKeepsGapless ==
  ASSUME NEW T \in Seq(Nat), NEW x \in Nat, NEW I, NEW t \in Nat
  PROVE  /\ Above(T, I, t) => Above(Append(T, x), I, t)
         /\ \A s \in Nat : Gapless(T, s, I, t) => Gapless(Append(T, x), s, I, t)
<1>. DEFINE U == Append(T, x)
<1>1. Len(T) \in Nat /\ \A i \in 1 .. Len(T) : T[i] \in Nat
  BY ElementOfSeq, LenProperties
<1>2. /\ Len(U) = Len(T) + 1
      /\ \A i \in 1 .. Len(T) : U[i] = T[i]
      /\ U[Len(T) + 1] = x
  BY AppendProperties
<1>. HIDE DEF U
<1>3. /\ \A i \in 1 .. Len(U) : i \in 1 .. Len(T) \/ i = Len(T) + 1
      /\ \A i \in 1 .. Len(T) : i \in 1 .. Len(U)
      /\ Len(T) + 1 \in 1 .. Len(U)
  BY <1>1, <1>2
<1>4. ASSUME InOrder(U)
      PROVE  InOrder(T) /\ \A i \in 1 .. Len(T) : ~(U[Len(T) + 1] < U[i])
  <2>1. ASSUME NEW i \in 1 .. Len(T), NEW j \in 1 .. Len(T), i <= j
        PROVE  T[i] <= T[j]
    <3>1. U[i] <= U[j]
      BY <1>3, <1>4, <2>1 DEF InOrder
    <3>. QED BY <1>2, <3>1
  <2>2. ASSUME NEW i \in 1 .. Len(T)
        PROVE  ~(U[Len(T) + 1] < U[i])
    <3>1. i <= Len(T) + 1
      BY <1>1
    <3>2. U[i] <= U[Len(T) + 1]
      BY <1>3, <1>4, <3>1 DEF InOrder
    <3>3. U[i] \in Nat /\ U[Len(T) + 1] \in Nat
      BY <1>1, <1>2
    <3>. QED BY <3>2, <3>3
  <2>. QED BY <2>1, <2>2 DEF InOrder
<1>6. ASSUME Above(T, I, t) PROVE Above(U, I, t)
  <2>. SUFFICES ASSUME NEW i \in I
                PROVE  /\ i + 1 \in 1 .. Len(U) /\ U[i + 1] > t
                       /\ InOrder(U) =>
                            \A k \in 1 .. Len(U) : t < U[k] /\ U[k] < U[i + 1] => k - 1 \in I
    BY DEF Above
  <2>1. /\ i + 1 \in 1 .. Len(T) /\ T[i + 1] > t
        /\ InOrder(T) =>
             \A k \in 1 .. Len(T) : t < T[k] /\ T[k] < T[i + 1] => k - 1 \in I
    BY <1>6 DEF Above
  <2>2. i + 1 \in 1 .. Len(U) /\ U[i + 1] = T[i + 1]
    BY <1>2, <1>3, <2>1
  <2>3. ASSUME InOrder(U), NEW k \in 1 .. Len(U), t < U[k], U[k] < U[i + 1]
        PROVE  k - 1 \in I
    <3>1. InOrder(T) /\ k # Len(T) + 1
      BY <1>4, <2>1, <2>3
    <3>2. k \in 1 .. Len(T) /\ U[k] = T[k]
      BY <1>2, <1>3, <3>1
    <3>. QED BY <2>1, <2>2, <2>3, <3>1, <3>2
  <2>. QED BY <2>1, <2>2, <2>3
<1>7. ASSUME NEW s \in Nat, Gapless(T, s, I, t) PROVE Gapless(U, s, I, t)
  <2>1. s <= Len(T) /\ \A i \in I : i + 1 \in 1 .. Len(T)
    BY <1>7 DEF Gapless
  <2>2. \A i \in I : i + 1 \in 1 .. Len(U) /\ U[i + 1] = T[i + 1]
    BY <1>2, <1>3, <2>1
  <2>3. ASSUME InOrder(U), NEW i \in I, NEW j \in I, NEW k \in 1 .. Len(U),
               U[i + 1] < U[k], U[k] < U[j + 1], U[k] # t
        PROVE  k - 1 \in I
    <3>1. InOrder(T) /\ k # Len(T) + 1
      BY <1>4, <2>1, <2>3
    <3>2. k \in 1 .. Len(T) /\ U[k] = T[k]
      BY <1>2, <1>3, <3>1
    <3>3. T[i + 1] < T[k] /\ T[k] < T[j + 1] /\ T[k] # t
      BY <2>2, <2>3, <3>2
    <3>. QED BY <1>7, <3>1, <3>2, <3>3 DEF Gapless
  <2>4. ASSUME NEW i \in I, NEW k \in 1 .. s, U[i + 1] < U[k], U[k] < t
        PROVE  k - 1 \in I
    <3>1. k \in 1 .. Len(T)
      BY <1>1, <2>1
    <3>2. U[k] = T[k] /\ U[i + 1] = T[i + 1]
      BY <1>2, <2>2, <3>1
    <3>. QED BY <1>7, <2>4, <3>2 DEF Gapless
  <2>5. s <= Len(U)
    BY <1>1, <1>2, <2>1
  <2>. QED BY <2>2, <2>3, <2>4, <2>5 DEF Gapless
<1>. QED BY <1>6, <1>7 DEF U

\* The rows of two answers, one after the other.
LEMMA ConcatIndices ==
  ASSUME NEW r \in Seq(Rows), NEW q \in Seq(Rows)
  PROVE  Indices(r \o q) = Indices(r) \cup Indices(q)
<1>1. /\ Len(r) \in Nat /\ Len(q) \in Nat
      /\ DOMAIN r = 1 .. Len(r) /\ DOMAIN q = 1 .. Len(q)
  BY LenProperties
<1>2. /\ r \o q \in Seq(Rows) /\ Len(r \o q) = Len(r) + Len(q)
      /\ \A i \in 1 .. Len(r) + Len(q) :
           (r \o q)[i] = IF i <= Len(r) THEN r[i] ELSE q[i - Len(r)]
  BY ConcatProperties
<1>3. DOMAIN (r \o q) = 1 .. Len(r) + Len(q)
  BY <1>2, LenProperties
<1>4. ASSUME NEW x \in Indices(r \o q) PROVE x \in Indices(r) \cup Indices(q)
  <2>1. PICK i \in 1 .. Len(r) + Len(q) : x = (r \o q)[i].index
    BY <1>3 DEF Indices
  <2>2. CASE i <= Len(r)
    <3>1. i \in DOMAIN r /\ x = r[i].index
      BY <1>1, <1>2, <2>1, <2>2
    <3>. QED BY <3>1 DEF Indices
  <2>3. CASE ~(i <= Len(r))
    <3>1. i - Len(r) \in DOMAIN q /\ x = q[i - Len(r)].index
      BY <1>1, <1>2, <2>1, <2>3
    <3>. QED BY <3>1 DEF Indices
  <2>. QED BY <2>2, <2>3
<1>5. ASSUME NEW x \in Indices(r) PROVE x \in Indices(r \o q)
  <2>1. PICK i \in 1 .. Len(r) : x = r[i].index
    BY <1>1 DEF Indices
  <2>2. i \in 1 .. Len(r) + Len(q) /\ (r \o q)[i] = r[i]
    BY <1>1, <1>2
  <2>. QED BY <1>3, <2>1, <2>2 DEF Indices
<1>6. ASSUME NEW x \in Indices(q) PROVE x \in Indices(r \o q)
  <2>1. PICK i \in 1 .. Len(q) : x = q[i].index
    BY <1>1 DEF Indices
  <2>2. /\ Len(r) + i \in 1 .. Len(r) + Len(q) /\ ~(Len(r) + i <= Len(r))
        /\ Len(r) + i - Len(r) = i
    BY <1>1
  <2>3. (r \o q)[Len(r) + i] = q[i]
    BY <1>2, <2>2
  <2>. QED BY <1>3, <2>1, <2>2, <2>3 DEF Indices
<1>. QED BY <1>4, <1>5, <1>6

\* The table as a sequence of numbers, and the time of the row stored.
LEMMA TableTimes ==
  ASSUME ServerTypes
  PROVE  /\ table \in Seq(Nat)
         /\ StoreRow => \E x \in Nat : table' = Append(table, x)
<1>1. table \in Seq(Times) /\ Times \subseteq Nat
  BY SizesAssumption DEF ServerTypes, TypeOK
<1>2. table \in Seq(Nat)
  BY <1>1, SeqMonotonic
<1>. QED BY <1>1, <1>2 DEF StoreRow

\* A row stored keeps what holds of a search and of a reply.
LEMMA StoreKeepsAround ==
  ASSUME ServerTypes, NEW c \in Clients, AroundInv, StoreRow
  PROVE  AroundOf(c)' /\ AroundReply(reply[c])'
<1>1. PICK x \in Nat : table' = Append(table, x)
  BY TableTimes
<1>2. table \in Seq(Nat)
  BY TableTimes
<1>3. UNCHANGED <<req, pc, cur, result, reply, seen>>
  BY DEF StoreRow
<1>4. ASSUME NEW I, NEW t \in Nat
      PROVE  /\ Above(table, I, t) => Above(table', I, t)
             /\ \A s \in Nat : Gapless(table, s, I, t) => Gapless(table', s, I, t)
  BY <1>1, <1>2, StoreKeepsGapless
<1>5. seen[c] \in Nat /\ reply[c].seen \in Nat
  BY DEF ServerTypes, Replies
<1>6. req[c].scan = 2 => req[c].key \in Nat
  <2>1. req[c] \in Requests \cup {None}
    BY DEF ServerTypes, TypeOK
  <2>. QED BY <2>1, RequestNumbers DEF None
<1>7. reply[c].req.scan = 2 => reply[c].req.key \in Nat
  <2>1. reply[c].req \in Requests \cup {None}
    BY DEF ServerTypes, Replies
  <2>. QED BY <2>1, RequestNumbers DEF None
<1>8. AroundOf(c)'
  <2>. SUFFICES ASSUME req[c].scan = 2
                PROVE  /\ pc[c] = "fetch" => Above(table', Indices(cur), req[c].key)
                       /\ pc[c] = "second" => Above(table', Indices(result[c]), req[c].key)
                       /\ pc[c] = "fetch2" =>
                            Gapless(table', seen[c], Indices(result[c]) \cup Indices(cur),
                                    req[c].key)
                       /\ pc[c] = "send" =>
                            Gapless(table', seen[c], Indices(result[c]), req[c].key)
    BY <1>3 DEF AroundOf, Indices
  <2>. QED BY <1>4, <1>5, <1>6 DEF AroundInv, AroundOf
<1>9. AroundReply(reply[c])'
  <2>1. AroundReply(reply[c])
    BY DEF AroundInv
  <2>. SUFFICES ASSUME reply[c].req.scan = 2
                PROVE  /\ InTimeOrder(reply[c].rows)
                       /\ Gapless(table', reply[c].seen, Indices(reply[c].rows),
                                  reply[c].req.key)
    BY <1>3 DEF AroundReply, Indices, InTimeOrder
  <2>. QED BY <2>1, <1>4, <1>5, <1>7 DEF AroundReply
<1>. QED BY <1>8, <1>9

\* A step other than the storing of a row keeps what holds of a search.
LEMMA AroundKept ==
  ASSUME ServerTypes, NEW c \in Clients, Serving(c), AroundOf(c),
         Connect(c) \/ Request(c) \/ Leave(c) \/ Serve(c) \/ UNCHANGED vars
  PROVE  table' = table /\ AroundOf(c)'
<1>. DEFINE k == req[c].key
<1>a. TableOK
  BY TypesOfTable
<1>b. /\ result[c] \in Seq(Rows) /\ cur \in Seq(Rows)
      /\ pc[c] \notin {"idle", "closed"} => req[c] \in Requests
  BY DEF ServerTypes, TypeOK
<1>1. CASE ~Serve(c)
  <2>1. /\ cur' = cur /\ result' = result /\ table' = table /\ seen' = seen
        /\ \/ req' = req /\ pc'[c] = pc[c]
           \/ req' = req /\ pc'[c] \in {"idle", "closed"}
           \/ pc'[c] = "first"
    BY <1>1, OtherEffects DEF StoreRow, Connect, Request, Leave, vars
  <2>. QED BY <2>1 DEF AroundOf, Indices
<1>2. CASE ExecuteFirst(c)
  <2>1. /\ req[c] \in Requests /\ req' = req /\ table' = table
        /\ pc'[c] = "fetch" /\ cur' = FirstQuery(req[c])
    BY <1>2, ServeEffects DEF Serve
  <2>2. ASSUME req[c].scan = 2 PROVE Above(table, Indices(FirstQuery(req[c])), k)
    <3>1. FirstQuery(req[c]) = After(k)
      BY <2>2 DEF FirstQuery
    <3>2. k \in Nat
      BY <2>1, RequestNumbers
    <3>. QED BY <3>1, <3>2, <1>a, AfterRows
  <2>3. req[c].scan = 2 => Above(table', Indices(cur'), k)
    BY <2>1, <2>2
  <2>. QED BY <2>1, <2>3 DEF AroundOf, Indices
<1>3. CASE FetchFirst(c)
  <2>1. /\ pc[c] = "fetch" /\ result'[c] = cur /\ req' = req /\ table' = table
        /\ pc'[c] = IF req[c].scan \in {2, 5} THEN "second" ELSE "send"
    BY <1>3, ServeEffects DEF Serve
  <2>. QED BY <2>1 DEF AroundOf, Indices
<1>4. CASE ExecuteSecond(c)
  <2>1. /\ pc[c] = "second" /\ req[c] \in Requests /\ snap = NoTransaction /\ num[c] \in Nat
        /\ req' = req /\ result' = result /\ table' = table /\ seen' = seen
        /\ pc'[c] = "fetch2" /\ cur' \in SecondQuery(req[c], num[c])
    BY <1>4, ServeEffects DEF Serve
  <2>4. seen[c] \in Nat /\ seen[c] <= Len(table)
    <3>1. seen[c] \in 0 .. Len(table) /\ table \in Seq(Times)
      BY DEF ServerTypes, TypeOK
    <3>. QED BY <3>1, LenProperties
  <2>2. ASSUME req[c].scan = 2
        PROVE  Gapless(table, seen[c], Indices(result[c]) \cup Indices(cur'), k)
    <3>1. cur' \in Before(k, num[c])
      BY <2>1, <2>2 DEF SecondQuery
    <3>2. k \in Nat
      BY <2>1, RequestNumbers
    <3>3. \A x \in Indices(cur') :
            /\ x + 1 \in 1 .. Len(table) /\ table[x + 1] < k
            /\ \A l \in 1 .. Len(table) :
                 table[x + 1] < table[l] /\ table[l] < k => l - 1 \in Indices(cur')
      BY <2>1, <3>1, <3>2, <1>a, BeforeRows
    <3>4. Above(table, Indices(result[c]), k)
      BY <2>1, <2>2 DEF AroundOf
    <3>. QED BY <2>4, <3>2, <3>3, <3>4, TableTimes, AroundJoins
  <2>3. req[c].scan = 2 => Gapless(table', seen'[c], Indices(result'[c]) \cup Indices(cur'), k)
    BY <2>1, <2>2
  <2>. QED BY <2>1, <2>3 DEF AroundOf, Indices
<1>5. CASE FetchSecond(c)
  <2>1. /\ pc[c] = "fetch2" /\ req' = req /\ table' = table /\ seen' = seen
        /\ pc'[c] = "send" /\ result'[c] = result[c] \o cur
    BY <1>5, ServeEffects DEF Serve
  <2>2. Indices(result'[c]) = Indices(result[c]) \cup Indices(cur)
    BY <1>b, <2>1, ConcatIndices
  <2>3. req[c].scan = 2 => Gapless(table', seen'[c], Indices(result'[c]), k)
    BY <2>1, <2>2 DEF AroundOf
  <2>. QED BY <2>1, <2>3 DEF AroundOf, Indices
<1>6. CASE Send(c) \/ Fail(c)
  <2>1. req'[c] = None /\ table' = table
    BY <1>6, ServeEffects DEF Serve
  <2>. QED BY <2>1 DEF AroundOf, None
<1>. QED BY <1>1, <1>2, <1>3, <1>4, <1>5, <1>6 DEF Serve

\* With one client, the replies to scan2 stay without gaps.
LEMMA NextAround ==
  ASSUME OneClient
  PROVE  ServerTypes /\ ServeInv /\ AroundInv /\ [Next]_vars => AroundInv'
<1>. SUFFICES ASSUME ServerTypes, ServeInv, AroundInv, [Next]_vars
              PROVE  AroundInv'
  OBVIOUS
<1>1. StoreRow \/ (\E c \in Clients : Connect(c) \/ Request(c) \/ Leave(c) \/ Serve(c))
        \/ UNCHANGED vars
  BY DEF Next
<1>2. CASE StoreRow
  <2>1. \A c \in Clients : AroundOf(c)' /\ AroundReply(reply[c])'
    BY <1>2, StoreKeepsAround
  <2>. QED BY <2>1 DEF AroundInv
<1>3. CASE ~StoreRow
  <2>1. table' = table
    BY <1>1, <1>3 DEF Connect, Request, Leave, Serve, ExecuteFirst, FetchFirst, ExecuteSecond,
                      FetchSecond, Send, Fail, vars
  <2>2. ASSUME NEW c \in Clients
        PROVE  AroundOf(c)' /\ AroundReply(reply[c])'
    <3>1. Serving(c) /\ AroundOf(c) /\ AroundReply(reply[c])
      BY DEF ServeInv, AroundInv
    <3>2. Connect(c) \/ Request(c) \/ Leave(c) \/ Serve(c) \/ UNCHANGED vars
      BY <1>1, <1>3 DEF OneClient
    <3>3. AroundOf(c)'
      BY <3>1, <3>2, AroundKept
    <3>4. CASE reply' = reply
      BY <2>1, <3>1, <3>3, <3>4 DEF AroundReply, Indices, InTimeOrder
    <3>5. CASE Send(c)
      <4>1. /\ pc[c] = "send" /\ reply'[c].req = req[c] /\ reply'[c].seen = seen[c]
            /\ reply'[c].rows \in Ordered(req[c], result[c])
        BY <3>1, <3>5, ServeEffects DEF Serve
      <4>2. ASSUME req[c].scan = 2
            PROVE  /\ InTimeOrder(reply'[c].rows)
                   /\ Gapless(table, seen[c], Indices(reply'[c].rows), req[c].key)
        <5>1. reply'[c].rows \in Sortings(result[c]) /\ result[c] \in Seq(Rows)
          BY <4>1, <4>2 DEF Ordered, ServerTypes, TypeOK
        <5>2. /\ Indices(reply'[c].rows) = Indices(result[c])
              /\ InTimeOrder(reply'[c].rows)
          BY <5>1, SortingsOfRows
        <5>3. Gapless(table, seen[c], Indices(result[c]), req[c].key)
          BY <3>1, <4>1, <4>2 DEF AroundOf
        <5>. QED BY <5>2, <5>3
      <4>. QED BY <2>1, <3>3, <4>1, <4>2 DEF AroundReply, Indices, InTimeOrder
    <3>6. reply' = reply \/ Send(c)
      BY <3>1, <3>2, ServeEffects, OtherEffects DEF Serve
    <3>. QED BY <3>3, <3>4, <3>5, <3>6
  <2>. QED BY <2>2 DEF AroundInv
<1>. QED BY <1>2, <1>3

\* With one client, whatever the clock does, scan2 leaves out no row between an
\* earlier one it gives and the time asked for; and if the clock has never gone
\* back, its two queries leave out no row of another time between two rows they
\* give, though rows are stored between the queries and after.
THEOREM NeighboursCorrect ==
  ASSUME OneClient
  PROVE  Spec => []NeighboursOfTime
<1>1. Init => AroundInv
  BY InitServer
<1>2. ServerTypes /\ ServeInv /\ AroundInv /\ [Next]_vars => AroundInv'
  BY NextAround
<1>3. ServerTypes /\ AroundInv => NeighboursOfTime
  <2>. SUFFICES ASSUME ServerTypes, AroundInv, NEW c \in Clients, reply[c].req.scan = 2
                PROVE  LET rows == reply[c].rows  t == reply[c].req.key
                       IN  /\ InTimeOrder(rows)
                           /\ \A i \in Indices(rows), k \in 1 .. reply[c].seen :
                                table[i + 1] < table[k] /\ table[k] < t
                                  => k - 1 \in Indices(rows)
                           /\ InOrder(table) =>
                                \A i, j \in Indices(rows), k \in DOMAIN table :
                                  table[i + 1] < table[k] /\ table[k] < table[j + 1]
                                    /\ table[k] # t => k - 1 \in Indices(rows)
    BY DEF NeighboursOfTime
  <2>1. DOMAIN table = 1 .. Len(table)
    BY LenProperties DEF ServerTypes, TypeOK
  <2>. QED BY <2>1 DEF AroundInv, AroundReply, Gapless
<1>. QED BY <1>1, <1>2, <1>3, ServeInvCorrect, PTL DEF Spec
=============================================================================

--------------------------- MODULE FirewallProofs ---------------------------
(***************************************************************************)
(* Theorems about Firewall.tla for every set of workers, requests, rules   *)
(* and clients.  The inductive invariant Inv adds to the type invariant    *)
(* what a handler may rely on at each place, and what the advisory lock    *)
(* guarantees: a handler that decides looks at a table whose block rows    *)
(* are all in its snapshot, because only inserts of other kinds and        *)
(* deletions go on without the lock.                                       *)
(***************************************************************************)
EXTENDS FirewallProperties, FiniteSetTheorems, FunctionTheorems, SequenceTheorems, TLAPS

(* Facts about the operators of FirewallRules: finite sets have first and  *)
(* last elements, sorting a set and filtering a sequence give sequences of *)
(* their elements, and the table operators keep a table a table.           *)

StrictOrder(R, S) ==
    /\ \A x \in S : <<x, x>> \notin R
    /\ \A x, y, z \in S : <<x, y>> \in R /\ <<y, z>> \in R => <<x, z>> \in R

TotalOrder(R, S) ==
    /\ StrictOrder(R, S)
    /\ \A x, y \in S : x = y \/ <<x, y>> \in R \/ <<y, x>> \in R

Rank(S, R, x) == Cardinality({j \in S : <<j, x>> \in R})

\* The rank of an element is a number below the size of the set.
LEMMA RankBound ==
  ASSUME NEW S, IsFiniteSet(S), NEW R, StrictOrder(R, S), NEW x \in S
  PROVE  /\ Rank(S, R, x) \in Nat
         /\ Cardinality(S) \in Nat
         /\ Rank(S, R, x) < Cardinality(S)
<1> DEFINE P == {j \in S : <<j, x>> \in R}
<1>1. P \in SUBSET S /\ P # S
  BY DEF StrictOrder
<1>2. IsFiniteSet(P) /\ Cardinality(P) <= Cardinality(S)
        /\ (Cardinality(S) = Cardinality(P) => S = P)
  BY <1>1, FS_Subset
<1>3. Cardinality(S) \in Nat /\ Cardinality(P) \in Nat
  BY <1>2, FS_CardinalityType
<1> QED
  BY <1>1, <1>2, <1>3 DEF Rank

\* Ranks grow along the order.
LEMMA RankGrows ==
  ASSUME NEW S, IsFiniteSet(S), NEW R, StrictOrder(R, S),
         NEW x \in S, NEW y \in S, <<x, y>> \in R
  PROVE  Rank(S, R, x) < Rank(S, R, y)
<1> DEFINE P == {j \in S : <<j, x>> \in R}
           Q == {j \in S : <<j, y>> \in R}
<1>1. P \in SUBSET Q /\ P # Q
  BY DEF StrictOrder
<1>2. IsFiniteSet(Q)
  BY FS_Subset
<1>3. IsFiniteSet(P) /\ Cardinality(P) <= Cardinality(Q)
        /\ (Cardinality(Q) = Cardinality(P) => Q = P)
  BY <1>1, <1>2, FS_Subset
<1>4. Cardinality(P) \in Nat /\ Cardinality(Q) \in Nat
  BY <1>2, <1>3, FS_CardinalityType
<1> QED
  BY <1>1, <1>3, <1>4 DEF Rank

\* A finite set that is not empty has a first element.
LEMMA FirstExists ==
  ASSUME NEW S, IsFiniteSet(S), S # {}, NEW R, StrictOrder(R, S)
  PROVE  \E x \in S : \A y \in S : <<y, x>> \notin R
<1> DEFINE T == {Rank(S, R, x) : x \in S}
<1>1. T \subseteq Nat /\ T # {}
  BY RankBound
<1>2. PICK n \in T : \A m \in T : ~(<<m, n>> \in OpToRel(<, Nat))
  BY <1>1, NatLessThanWellFounded, WFMin
<1>3. \A m \in T : ~(m < n)
  BY <1>1, <1>2 DEF OpToRel
<1>4. PICK x \in S : n = Rank(S, R, x)
  BY <1>2
<1>5. \A y \in S : <<y, x>> \notin R
  BY <1>3, <1>4, RankGrows
<1> QED
  BY <1>5

\* A finite set of integers that is not empty has a greatest element.
LEMMA MaxOfFinite ==
  ASSUME NEW S, S \subseteq Int, IsFiniteSet(S), S # {}
  PROVE  Max(S) \in S /\ \A y \in S : Max(S) >= y
<1> DEFINE R == {p \in S \X S : p[1] > p[2]}
<1>1. \A x, y \in S : <<x, y>> \in R <=> x > y
  OBVIOUS
<1> HIDE DEF R
<1>2. StrictOrder(R, S)
  <2> SUFFICES /\ \A x \in S : ~(x > x)
               /\ \A x, y, z \in S : x > y /\ y > z => x > z
    BY <1>1, Zenon DEF StrictOrder
  <2> QED
    OBVIOUS
<1>3. PICK x \in S : \A y \in S : <<y, x>> \notin R
  BY <1>2, FirstExists
<1>4. \A y \in S : x >= y
  <2> SUFFICES ASSUME NEW y \in S PROVE x >= y
    OBVIOUS
  <2>1. x \in Int /\ y \in Int
    OBVIOUS
  <2>2. ~(y > x)
    BY <1>1, <1>3
  <2> QED
    BY <2>1, <2>2
<1> QED
  BY <1>4 DEF Max

\* ... and a least one.
LEMMA MinOfFinite ==
  ASSUME NEW S, S \subseteq Int, IsFiniteSet(S), S # {}
  PROVE  Min(S) \in S /\ \A y \in S : Min(S) =< y
<1> DEFINE R == {p \in S \X S : p[1] < p[2]}
<1>1. \A x, y \in S : <<x, y>> \in R <=> x < y
  OBVIOUS
<1> HIDE DEF R
<1>2. StrictOrder(R, S)
  <2> SUFFICES /\ \A x \in S : ~(x < x)
               /\ \A x, y, z \in S : x < y /\ y < z => x < z
    BY <1>1, Zenon DEF StrictOrder
  <2> QED
    OBVIOUS
<1>3. PICK x \in S : \A y \in S : <<y, x>> \notin R
  BY <1>2, FirstExists
<1>4. \A y \in S : x =< y
  <2> SUFFICES ASSUME NEW y \in S PROVE x =< y
    OBVIOUS
  <2>1. x \in Int /\ y \in Int
    OBVIOUS
  <2>2. ~(y < x)
    BY <1>1, <1>3
  <2> QED
    BY <2>1, <2>2
<1> QED
  BY <1>4 DEF Min

\* Sorting lists exactly the elements of the set, each once.
LEMMA SortedElements ==
  ASSUME NEW S, IsFiniteSet(S), NEW R, TotalOrder(R, S)
  PROVE  /\ Sorted(S, R) \in Seq(S)
         /\ Len(Sorted(S, R)) = Cardinality(S)
         /\ \A x \in S : \E k \in 1..Cardinality(S) : Sorted(S, R)[k] = x
         /\ \A k, m \in 1..Cardinality(S) :
               k < m => <<Sorted(S, R)[k], Sorted(S, R)[m]>> \in R
<1> DEFINE n == Cardinality(S)
           rank == [x \in S |-> Rank(S, R, x) + 1]
<1>0. n \in Nat
  BY FS_CardinalityType
<1>1. rank \in [S -> 1..n]
  BY <1>0, RankBound DEF TotalOrder
<1>2. \A x, y \in S : rank[x] = rank[y] => x = y
  <2> SUFFICES ASSUME NEW x \in S, NEW y \in S, x # y
               PROVE  Rank(S, R, x) # Rank(S, R, y)
    BY RankBound DEF TotalOrder
  <2>1. Rank(S, R, x) \in Nat /\ Rank(S, R, y) \in Nat
    BY RankBound DEF TotalOrder
  <2>2. Rank(S, R, x) < Rank(S, R, y) \/ Rank(S, R, y) < Rank(S, R, x)
    BY RankGrows DEF TotalOrder
  <2> QED
    BY <2>1, <2>2
<1>3. rank \in Injection(S, 1..n)
  BY <1>1, <1>2, Fun_IsInj
<1>4. IsFiniteSet(1..n) /\ Cardinality(1..n) = n
  BY <1>0, FS_Interval
<1>5. rank \in Surjection(S, 1..n)
  BY <1>3, <1>4, FS_Injection
<1>6. \A k \in 1..n : \E x \in S : Rank(S, R, x) = k - 1
  <2> SUFFICES ASSUME NEW k \in 1..n
               PROVE  \E x \in S : Rank(S, R, x) = k - 1
    OBVIOUS
  <2>0. \A t \in 1..n : \E x \in S : rank[x] = t
    <3> HIDE DEF rank, n
    <3> QED BY <1>5, Fun_SurjectionProperties
  <2>1. PICK x \in S : rank[x] = k
    BY <2>0
  <2>2. Rank(S, R, x) \in Nat
    BY RankBound DEF TotalOrder
  <2> QED
    BY <2>1, <2>2
<1>7. \A k \in 1..n : Sorted(S, R)[k] \in S /\ Rank(S, R, Sorted(S, R)[k]) = k - 1
  BY <1>6 DEF Sorted, Rank
<1>8. Sorted(S, R) \in [1..n -> S]
  BY <1>7 DEF Sorted
<1>9. Sorted(S, R) \in Seq(S) /\ Len(Sorted(S, R)) = n
  BY <1>0, <1>8
<1>10. ASSUME NEW x \in S
       PROVE  \E k \in 1..n : Sorted(S, R)[k] = x
  <2>1. rank[x] \in 1..n /\ Rank(S, R, x) \in Nat
    BY <1>1, RankBound DEF TotalOrder
  <2>2. Rank(S, R, Sorted(S, R)[rank[x]]) = Rank(S, R, x)
    BY <1>7, <2>1
  <2>3. Sorted(S, R)[rank[x]] \in S
    BY <1>7, <2>1
  <2> QED
    BY <1>2, <2>1, <2>2, <2>3
<1>11. ASSUME NEW k \in 1..n, NEW m \in 1..n, k < m
       PROVE  <<Sorted(S, R)[k], Sorted(S, R)[m]>> \in R
  <2> DEFINE x == Sorted(S, R)[k]
             y == Sorted(S, R)[m]
  <2>1. x \in S /\ y \in S /\ Rank(S, R, x) = k - 1 /\ Rank(S, R, y) = m - 1
    BY <1>7
  <2> HIDE DEF x, y
  <2>2. x # y /\ <<y, x>> \notin R
    BY <1>0, <1>11, <2>1, RankGrows DEF TotalOrder
  <2>3. <<x, y>> \in R
    BY <2>1, <2>2 DEF TotalOrder
  <2> QED
    BY <2>3 DEF x, y
<1> QED
  BY <1>9, <1>10, <1>11

\* The order in which a filtered sequence lists the chosen indexes.
Picks(s, I, order) ==
    /\ \A k \in 1..Cardinality(I) : Selected(s, I)[k] = s[order[k]]
    /\ \A i \in I : \E k \in 1..Cardinality(I) : order[k] = i
    /\ \A k, m \in 1..Cardinality(I) : k < m => order[k] < order[m]

\* Filtering a sequence lists the chosen indexes, each once, in order.
LEMMA SelectedOrder ==
  ASSUME NEW T, NEW s \in Seq(T), NEW I, I \subseteq DOMAIN s
  PROVE  /\ IsFiniteSet(I) /\ Cardinality(I) \in Nat
         /\ Selected(s, I) \in Seq(T) /\ Len(Selected(s, I)) = Cardinality(I)
         /\ \E order \in [1..Cardinality(I) -> I] : Picks(s, I, order)
<1> DEFINE R == {p \in I \X I : p[1] < p[2]}
           order == Sorted(I, R)
<1>0. Len(s) \in Nat /\ DOMAIN s = 1..Len(s) /\ IsFiniteSet(1..Len(s))
  BY FS_Interval
<1>1. IsFiniteSet(I) /\ I \subseteq Int
  BY <1>0, FS_Subset
<1>2. Cardinality(I) \in Nat
  BY <1>1, FS_CardinalityType
<1>3. \A x, y \in I : <<x, y>> \in R <=> x < y
  OBVIOUS
<1>4. TotalOrder(R, I)
  <2> HIDE DEF R
  <2> SUFFICES /\ \A x \in I : ~(x < x)
               /\ \A x, y, z \in I : x < y /\ y < z => x < z
               /\ \A x, y \in I : x = y \/ x < y \/ y < x
    BY <1>3, Zenon DEF TotalOrder, StrictOrder
  <2> QED
    BY <1>1
<1>5. Selected(s, I) = [k \in 1..Cardinality(I) |-> s[order[k]]]
  BY DEF Selected
<1> HIDE DEF R
<1>6. /\ order \in Seq(I) /\ Len(order) = Cardinality(I)
      /\ \A x \in I : \E k \in 1..Cardinality(I) : order[k] = x
      /\ \A k, m \in 1..Cardinality(I) : k < m => <<order[k], order[m]>> \in R
  BY <1>1, <1>4, SortedElements
<1> HIDE DEF order
<1>7. \A k \in 1..Cardinality(I) : order[k] \in I
  BY <1>6, ElementOfSeq
<1>8. order \in [1..Cardinality(I) -> I]
  BY <1>2, <1>6
<1>9. \A k, m \in 1..Cardinality(I) : k < m => order[k] < order[m]
  BY <1>3, <1>6, <1>7
<1>10. \A k \in 1..Cardinality(I) : s[order[k]] \in T
  BY <1>0, <1>7
<1>11. Selected(s, I) \in [1..Cardinality(I) -> T]
  BY <1>5, <1>10
<1>12. Selected(s, I) \in Seq(T) /\ Len(Selected(s, I)) = Cardinality(I)
  BY <1>2, <1>11
<1>13. Picks(s, I, order)
  BY <1>5, <1>6, <1>9 DEF Picks
<1> QED
  BY <1>1, <1>2, <1>8, <1>12, <1>13

\* A concatenation reads its first sequence, then its second.
LEMMA ConcatIs ==
  ASSUME NEW T, NEW s \in Seq(T), NEW t \in Seq(T)
  PROVE  \A m \in 1..Len(s) + Len(t) :
            (s \o t)[m] = IF m <= Len(s) THEN s[m] ELSE t[m - Len(s)]
  OBVIOUS

\* Filtering a sequence keeps elements of it, exactly those at the indexes.
LEMMA SelectedElements ==
  ASSUME NEW T, NEW s \in Seq(T), NEW I, I \subseteq DOMAIN s
  PROVE  /\ Selected(s, I) \in Seq(T)
         /\ \A k \in 1..Len(Selected(s, I)) : \E i \in I : Selected(s, I)[k] = s[i]
         /\ \A i \in I : \E k \in 1..Len(Selected(s, I)) : Selected(s, I)[k] = s[i]
<1> DEFINE n == Cardinality(I)
           sel == Selected(s, I)
<1>1. sel \in Seq(T) /\ Len(sel) = n
  BY SelectedOrder
<1>1a. PICK order \in [1..n -> I] : Picks(s, I, order)
  BY SelectedOrder
<1>2. /\ \A k \in 1..n : sel[k] = s[order[k]]
      /\ \A i \in I : \E k \in 1..n : order[k] = i
  BY <1>1a DEF Picks
<1> HIDE DEF n, sel
<1>3. \A k \in 1..Len(sel) : order[k] \in I /\ sel[k] = s[order[k]]
  BY <1>1, <1>2
<1>4. \A k \in 1..Len(sel) : \E i \in I : sel[k] = s[i]
  BY <1>3
<1>5. \A i \in I : \E k \in 1..Len(sel) : sel[k] = s[i]
  BY <1>1, <1>2
<1> QED
  BY <1>1, <1>4, <1>5 DEF sel

-----------------------------------------------------------------------------
(* Tables. *)

FiniteTable(t) == IsTable(t) /\ IsFiniteSet(DOMAIN t)

\* ORDER BY position, id lists exactly the rows it is given.
LEMMA OrderedElements ==
  ASSUME NEW t, IsTable(t), NEW S, S \subseteq DOMAIN t, IsFiniteSet(S)
  PROVE  /\ Ordered(t, S) \in Seq(S)
         /\ Len(Ordered(t, S)) = Cardinality(S)
         /\ \A x \in S : \E k \in 1..Cardinality(S) : Ordered(t, S)[k] = x
         /\ \A k, m \in 1..Cardinality(S) :
               k < m => Before(t, Ordered(t, S)[k], Ordered(t, S)[m])
<1> DEFINE R == {p \in S \X S : Before(t, p[1], p[2])}
<1>1. \A x, y \in S : <<x, y>> \in R <=> Before(t, x, y)
  OBVIOUS
<1>2. \A x \in S : x \in Int /\ t[x].pos \in Int
  BY DEF IsTable, Row
<1> HIDE DEF R
<1>3. TotalOrder(R, S)
  <2> SUFFICES /\ \A x \in S : ~Before(t, x, x)
               /\ \A x, y, z \in S : Before(t, x, y) /\ Before(t, y, z) => Before(t, x, z)
               /\ \A x, y \in S : x = y \/ Before(t, x, y) \/ Before(t, y, x)
    BY <1>1, Zenon DEF TotalOrder, StrictOrder
  <2> QED
    BY <1>2 DEF Before
<1>4. Ordered(t, S) = Sorted(S, R)
  BY DEF Ordered, R
<1>5. /\ Sorted(S, R) \in Seq(S) /\ Len(Sorted(S, R)) = Cardinality(S)
      /\ \A x \in S : \E k \in 1..Cardinality(S) : Sorted(S, R)[k] = x
      /\ \A k, m \in 1..Cardinality(S) : k < m => <<Sorted(S, R)[k], Sorted(S, R)[m]>> \in R
  BY <1>3, SortedElements
<1>6. \A k \in 1..Cardinality(S) : Sorted(S, R)[k] \in S
  BY <1>5
<1> QED
  BY <1>1, <1>4, <1>5, <1>6

\* Inserting or replacing a row, deleting one, and updating one if it is there.
LEMMA TableWith ==
  ASSUME NEW t, FiniteTable(t), NEW id \in Nat \ {0}, NEW row \in Row
  PROVE  /\ FiniteTable(With(t, id, row))
         /\ DOMAIN With(t, id, row) = DOMAIN t \cup {id}
         /\ With(t, id, row)[id] = row
         /\ \A i \in DOMAIN t \ {id} : With(t, id, row)[i] = t[i]
<1>1. IsFiniteSet(DOMAIN t \cup {id})
  BY FS_AddElement DEF FiniteTable
<1> QED
  BY <1>1 DEF FiniteTable, IsTable, With

LEMMA TableWithout ==
  ASSUME NEW t, FiniteTable(t), NEW id
  PROVE  /\ FiniteTable(Without(t, id))
         /\ DOMAIN Without(t, id) = DOMAIN t \ {id}
         /\ \A i \in DOMAIN t \ {id} : Without(t, id)[i] = t[i]
<1>1. IsFiniteSet(DOMAIN t \ {id})
  BY FS_RemoveElement DEF FiniteTable
<1> QED
  BY <1>1 DEF FiniteTable, IsTable, Without

LEMMA TableUpdated ==
  ASSUME NEW t, FiniteTable(t), NEW id, NEW row \in Row
  PROVE  /\ FiniteTable(Updated(t, id, row))
         /\ DOMAIN Updated(t, id, row) = DOMAIN t
         /\ id \in DOMAIN t => Updated(t, id, row)[id] = row
         /\ \A i \in DOMAIN t \ {id} : Updated(t, id, row)[i] = t[i]
<1>1. CASE id \in DOMAIN t
  <2>1. id \in Nat \ {0}
    BY <1>1 DEF FiniteTable, IsTable
  <2>2. Updated(t, id, row) = With(t, id, row)
    BY <1>1 DEF Updated
  <2>3. DOMAIN t \cup {id} = DOMAIN t
    BY <1>1
  <2> QED
    BY <2>1, <2>2, <2>3, TableWith
<1>2. CASE id \notin DOMAIN t
  BY <1>2 DEF Updated
<1> QED
  BY <1>1, <1>2

-----------------------------------------------------------------------------
(* Positions. *)

\* COALESCE(MAX(position), 0) + 1 is 1.0 past every position it looks at.
LEMMA PositionAfterAll ==
  ASSUME NEW t, FiniteTable(t), NEW S, S \subseteq DOMAIN t
  PROVE  /\ PositionAfter(t, S) \in Int
         /\ \A i \in S : t[i].pos < PositionAfter(t, S)
                           /\ t[i].pos + Unit <= PositionAfter(t, S)
<1> DEFINE P == {t[i].pos : i \in S}
<1>1. IsFiniteSet(P)
  <2> DEFINE pos == [i \in S |-> t[i].pos]
  <2>1. pos \in Surjection(S, P)
    <3>1. pos \in [S -> P] /\ \A x \in P : \E i \in S : pos[i] = x
      OBVIOUS
    <3> QED
      BY <3>1, Fun_IsSurj
  <2>2. IsFiniteSet(S)
    BY FS_Subset DEF FiniteTable
  <2> QED
    BY <2>1, <2>2, FS_Surjection
<1>2. P \subseteq Int
  BY DEF FiniteTable, IsTable, Row
<1>3. CASE S = {}
  BY <1>3, UnitAssumption DEF PositionAfter
<1>4. CASE S # {}
  <2>1. PositionAfter(t, S) = Max(P) + Unit
    BY <1>4 DEF PositionAfter
  <2>2. \A i \in S : t[i].pos \in P
    OBVIOUS
  <2>3. P # {}
    BY <1>4
  <2> HIDE DEF P
  <2>4. Max(P) \in Int /\ \A x \in P : Max(P) >= x
    BY <1>1, <1>2, <2>3, MaxOfFinite
  <2> DEFINE m == Max(P)
  <2> HIDE DEF m
  <2>5. m \in Int /\ \A x \in P : m >= x
    BY <2>4 DEF m
  <2>6. PositionAfter(t, S) = m + Unit
    BY <2>1 DEF m
  <2>7. ASSUME NEW i \in S PROVE t[i].pos < m + Unit /\ t[i].pos + Unit <= m + Unit
    <3>1. t[i].pos \in Int /\ m >= t[i].pos
      BY <1>2, <2>2, <2>5
    <3> QED
      BY <2>5, <3>1, UnitAssumption
  <2> QED
    BY <2>5, <2>6, <2>7, UnitAssumption
<1> QED
  BY <1>3, <1>4

LEMMA NextPositionLast ==
  ASSUME NEW t, FiniteTable(t)
  PROVE  /\ NextPosition(t) \in Int
         /\ \A i \in DOMAIN t : t[i].pos < NextPosition(t)
                                /\ t[i].pos + Unit <= NextPosition(t)
BY PositionAfterAll DEF NextPosition

\* reorder_rule computes a position, whichever rows there are.
LEMMA ReorderPositionType ==
  ASSUME NEW t, FiniteTable(t), NEW id \in DOMAIN t, NEW target \in DOMAIN t,
         NEW place \in {"before", "after"}
  PROVE  ReorderPosition(t, id, target, place) \in Int
<1> DEFINE below == {i \in Siblings(t, id) : Before(t, i, target)}
           above == {i \in Siblings(t, id) : Before(t, target, i)}
           B == {t[i].pos : i \in below}
           A == {t[i].pos : i \in above}
           pos == t[target].pos
<1>0. \A i \in DOMAIN t : t[i].pos \in Int
  BY DEF FiniteTable, IsTable, Row
<1>1. below \subseteq DOMAIN t /\ above \subseteq DOMAIN t
  BY DEF Siblings
<1>2. IsFiniteSet(below) /\ IsFiniteSet(above)
  BY <1>1, FS_Subset DEF FiniteTable
<1> HIDE DEF below, above
<1>3. IsFiniteSet(B) /\ IsFiniteSet(A)
  <2> DEFINE f == [i \in below |-> t[i].pos]
             g == [i \in above |-> t[i].pos]
  <2>1. f \in Surjection(below, B)
    <3>1. f \in [below -> B] /\ \A x \in B : \E i \in below : f[i] = x
      OBVIOUS
    <3> QED
      BY <3>1, Fun_IsSurj
  <2>2. g \in Surjection(above, A)
    <3>1. g \in [above -> A] /\ \A x \in A : \E i \in above : g[i] = x
      OBVIOUS
    <3> QED
      BY <3>1, Fun_IsSurj
  <2> QED
    BY <1>2, <2>1, <2>2, FS_Surjection
<1>4. B \subseteq Int /\ A \subseteq Int /\ pos \in Int
  BY <1>0, <1>1
<1>5. (below = {} <=> B = {}) /\ (above = {} <=> A = {})
  OBVIOUS
<1>6. below # {} => Max(B) \in Int
  <2> HIDE DEF B
  <2> QED BY <1>3, <1>4, <1>5, MaxOfFinite
<1>7. above # {} => Min(A) \in Int
  <2> HIDE DEF A
  <2> QED BY <1>3, <1>4, <1>5, MinOfFinite
<1>8. ReorderPosition(t, id, target, place) =
        CASE place = "before" /\ below = {} -> pos - Unit
          [] place = "before" /\ below # {} -> (Max(B) + pos) \div 2
          [] place = "after" /\ above = {} -> pos + Unit
          [] place = "after" /\ above # {} -> (pos + Min(A)) \div 2
  BY DEF ReorderPosition, below, above
<1> HIDE DEF A, B, pos
<1> QED
  BY <1>4, <1>6, <1>7, <1>8, UnitAssumption

\* A position found for a new slot of a chain is one.
LEMMA NewPositionType ==
  ASSUME NEW n \in Nat, NEW slots \in [1..n -> Int \cup {None}], NEW k \in 1..n
  PROVE  NewPosition(slots, k) \in Int
<1> DEFINE tracked == {j \in DOMAIN slots : slots[j] # None}
           lefts   == {j \in tracked : j < k}
           rights  == {j \in tracked : j > k}
           l       == IF lefts = {} THEN 0 ELSE Max(lefts)
           r       == IF rights = {} THEN Len(slots) + 1 ELSE Min(rights)
<1>1. lefts \subseteq 1..n /\ rights \subseteq 1..n
  OBVIOUS
<1>2. IsFiniteSet(lefts) /\ IsFiniteSet(rights)
  BY <1>1, FS_Interval, FS_Subset
<1>3. \A j \in lefts : j \in Int /\ slots[j] \in Int /\ j < k
  OBVIOUS
<1>4. \A j \in rights : j \in Int /\ slots[j] \in Int /\ k < j
  OBVIOUS
<1>5. NewPosition(slots, k) =
        CASE lefts = {} /\ rights = {} -> (k - 1) * Unit
          [] lefts = {} /\ rights # {} -> slots[r] - (r - k) * Unit
          [] lefts # {} /\ rights = {} -> slots[l] + (k - l) * Unit
          [] OTHER -> slots[l] + ((slots[r] - slots[l]) \div (r - l)) * (k - l)
  BY DEF NewPosition
<1> HIDE DEF lefts, rights
<1>6. lefts # {} => l \in Int /\ slots[l] \in Int /\ l < k
  <2>1. lefts # {} => Max(lefts) \in lefts
    BY <1>2, <1>3, MaxOfFinite
  <2> QED BY <1>3, <2>1
<1>7. rights # {} => r \in Int /\ slots[r] \in Int /\ k < r
  <2>1. rights # {} => Min(rights) \in rights
    BY <1>2, <1>4, MinOfFinite
  <2> QED BY <1>4, <2>1
<1> HIDE DEF l, r
<1>8. k \in Int /\ Unit \in Int
  BY UnitAssumption
<1>9. CASE lefts = {} /\ rights = {}
  BY <1>5, <1>8, <1>9
<1>10. CASE lefts = {} /\ rights # {}
  BY <1>5, <1>7, <1>8, <1>10
<1>11. CASE lefts # {} /\ rights = {}
  BY <1>5, <1>6, <1>8, <1>11
<1>12. CASE lefts # {} /\ rights # {}
  <2> DEFINE gap == slots[r] - slots[l]
             width == r - l
             step == gap \div width
  <2>1. gap \in Int /\ width \in Int /\ width > 0 /\ k - l \in Int /\ slots[l] \in Int
    BY <1>6, <1>7, <1>8, <1>12
  <2>2. NewPosition(slots, k) = slots[l] + step * (k - l)
    BY <1>5, <1>12
  <2>3. step \in Int
    <3> HIDE DEF gap, width
    <3> QED BY <2>1
  <2> HIDE DEF step, gap, width
  <2> QED BY <2>1, <2>2, <2>3
<1> QED
  BY <1>9, <1>10, <1>11, <1>12

\* A live rule is adopted as a shape, and never as a client block.
LEMMA AdoptedShape ==
  ASSUME NEW chain \in Chains, NEW shape \in Shape, ~IsBlock(shape),
         AdoptedAs(chain, shape) # None
  PROVE  /\ AdoptedAs(chain, shape) \in Shape
         /\ AdoptedAs(chain, shape).kind \notin {"client_block", "other"}
<1>1. shape.kind # "other"
  BY DEF AdoptedAs
<1>2. PICK kind \in Kinds \ {"client_block", "other"} :
        AdoptedAs(chain, shape) = [shape EXCEPT !.hits = shape.parsed, !.kind = kind]
  BY <1>1 DEF AdoptedAs, Chains, Kinds, Shape, IsBlock
<1> QED
  BY <1>2 DEF Shape, IsBlock, Kinds

(* What it is to take an element out of a sequence. *)

LEMMA RemoveAtIs ==
  ASSUME NEW T, NEW s \in Seq(T), NEW n \in 1..Len(s)
  PROVE  /\ RemoveAt(s, n) \in Seq(T) /\ Len(RemoveAt(s, n)) = Len(s) - 1
         /\ \A k \in 1..Len(s) - 1 : RemoveAt(s, n)[k] = IF k < n THEN s[k] ELSE s[k + 1]
<1> DEFINE l == SubSeq(s, 1, n - 1)
           r == SubSeq(s, n + 1, Len(s))
<1>1. /\ l \in Seq(T) /\ Len(l) = n - 1 /\ \A k \in 1..n - 1 : l[k] = s[k]
      /\ r \in Seq(T) /\ Len(r) = Len(s) - n /\ \A k \in 1..Len(s) - n : r[k] = s[k + n]
  BY SubSeqProperties
<1>2. RemoveAt(s, n) = l \o r
  BY DEF RemoveAt
<1> HIDE DEF l, r
<1>3. /\ l \o r \in Seq(T) /\ Len(l \o r) = Len(l) + Len(r)
      /\ \A k \in 1..Len(l) + Len(r) : (l \o r)[k] = IF k <= Len(l) THEN l[k] ELSE r[k - Len(l)]
  BY <1>1, ConcatProperties
<1>4. ASSUME NEW k \in 1..Len(s) - 1
      PROVE  (l \o r)[k] = IF k < n THEN s[k] ELSE s[k + 1]
  <2>1. CASE k < n
    BY <1>1, <1>3, <2>1
  <2>2. CASE k >= n
    <3>1. (l \o r)[k] = r[k - (n - 1)] /\ k - (n - 1) \in 1..Len(s) - n
      BY <1>1, <1>3, <2>2
    <3>2. r[k - (n - 1)] = s[k - (n - 1) + n] /\ k - (n - 1) + n = k + 1
      BY <1>1, <3>1, <2>2
    <3> QED
      BY <2>2, <3>1, <3>2
  <2>3. k < n \/ k >= n
    OBVIOUS
  <2> QED
    BY <2>1, <2>2, <2>3
<1> QED
  BY <1>1, <1>2, <1>3, <1>4

LEMMA RemoveFirstIs ==
  ASSUME NEW T, NEW s \in Seq(T), NEW e \in ToSet(s)
  PROVE  \E n \in 1..Len(s) : s[n] = e /\ RemoveFirst(s, e) = RemoveAt(s, n)
<1> DEFINE I == {i \in 1..Len(s) : s[i] = e}
           m == Min(I)
<1>1. I \subseteq Int /\ IsFiniteSet(I)
  <2>1. Len(s) \in Nat /\ IsFiniteSet(1..Len(s))
    BY FS_Interval
  <2> QED
    BY <2>1, FS_Subset
<1>2. I # {}
  BY DEF ToSet
<1>3. m \in I
  <2> HIDE DEF I
  <2> QED BY <1>1, <1>2, MinOfFinite
<1>4. RemoveFirst(s, e) = RemoveAt(s, m)
  BY <1>2 DEF RemoveFirst, SelectInSeq
<1> HIDE DEF m
<1> QED
  BY <1>3, <1>4

-----------------------------------------------------------------------------
(* The inductive invariant. *)

\* What a handler at place p may rely on in its local variables j.
PlaceOK(p, j) ==
    /\ p # "idle" => j.req \in Requests
    /\ IsFiniteSet(DOMAIN j.snap)
    /\ p \in {"max", "insert"} => j.req.op = "add"
    /\ p = "flock" => j.req.op = "discover" \/ j.chains # <<>>
    /\ p \in {"list", "strip", "fill"} => j.chains # <<>>
    /\ p \in {"adopt", "claim", "drop"} =>
          /\ j.scan # <<>>
          /\ \A k \in 1..Len(j.found) :
                /\ ~IsBlock(j.found[k].entry.shape)
                /\ AdoptedAs(Head(j.scan), j.found[k].entry.shape) # None
    /\ p \in {"claim", "drop"} => j.found # <<>>

\* A snapshot t taken under the advisory lock still describes the table:
\* no row has changed its rule, and no block row is missing from it.
Covers(t, table, next) ==
    /\ \A i \in DOMAIN t : i < next
    /\ \A i \in DOMAIN table : i \in DOMAIN t => table[i].shape = t[i].shape
    /\ \A i \in DOMAIN table : i \notin DOMAIN t => ~IsBlock(table[i].shape)

OneBlockRow(t) == \A c \in Clients : \A i, j \in BlockRows(t, c) : i = j

SharedOK ==
    /\ FiniteTable(rules) /\ nextId \in Nat \ {0}
    /\ \A i \in DOMAIN rules : i < nextId
    /\ live \in [Chains -> Seq(Entry)]
    /\ advisory \in Workers \cup {None} /\ flock \in Workers \cup {None}
    /\ spent \in [requests : 0..MaxRequests, manual : 0..MaxManual,
               losses : 0..MaxLosses, crashes : 0..MaxCrashes]

Locked == {"read", "decide", "unblock"}

Inv ==
    /\ SharedOK
    /\ OneBlockRow(rules)
    /\ pc \in [Workers -> Places]
    /\ DOMAIN job = Workers
    /\ \A w \in Workers :
          /\ IsJob(job[w])
          /\ PlaceOK(pc[w], job[w])
          /\ pc[w] \in Locked => advisory = w
          /\ pc[w] = "decide" => Covers(job[w].snap, rules, nextId)

\* What every step of worker w does to the state: w moves to place p with
\* local variables j, takes the advisory lock from nobody, and without it
\* only deletes rows or inserts rows of other kinds than client blocks.
Moves(w, p, j) ==
    /\ pc' = [pc EXCEPT ![w] = p]
    /\ DOMAIN job' = Workers /\ job'[w] = j
    /\ \A v \in Workers \ {w} : job'[v] = job[v]

TableStep(w) ==
    \/ advisory = w
    \/ UNCHANGED <<rules, nextId>>
    \/ (\E id \in Nat : rules' = Without(rules, id)) /\ UNCHANGED nextId
    \/ /\ \E row \in Row : ~IsBlock(row.shape) /\ rules' = With(rules, nextId, row)
       /\ nextId' = nextId + 1

StepOK(w) ==
    /\ SharedOK' /\ OneBlockRow(rules')
    /\ advisory' = advisory \/ advisory \in {None, w}
    /\ TableStep(w)
    /\ \E p, j :
          /\ p \in Places /\ Moves(w, p, j)
          /\ IsJob(j) /\ PlaceOK(p, j)
          /\ p \in Locked => advisory' = w
          /\ p = "decide" => Covers(j.snap, rules', nextId')

LEMMA EmptyJob == IsJob(NoJob) /\ PlaceOK("idle", NoJob)
<1>1. DOMAIN <<>> = {} /\ IsFiniteSet({})
  BY FS_EmptySet
<1> QED
  BY <1>1 DEF IsJob, NoJob, PlaceOK, IsTable

\* Deletions and inserts of other kinds keep a snapshot good.
LEMMA CoversKept ==
  ASSUME NEW t, NEW table, FiniteTable(table), NEW next \in Nat \ {0},
         FiniteTable(t), Covers(t, table, next), \A i \in DOMAIN table : i < next
  PROVE  /\ \A id \in Nat : Covers(t, Without(table, id), next)
         /\ \A row \in Row : ~IsBlock(row.shape) =>
               Covers(t, With(table, next, row), next + 1)
<1>0. \A i \in DOMAIN t : i \in Nat /\ i < next
  BY DEF FiniteTable, IsTable, Covers
<1>1. ASSUME NEW id \in Nat
      PROVE  Covers(t, Without(table, id), next)
  <2> DEFINE new == Without(table, id)
  <2>1. /\ DOMAIN new = DOMAIN table \ {id}
        /\ \A i \in DOMAIN table \ {id} : new[i] = table[i]
    BY DEF Without
  <2> HIDE DEF new
  <2> QED
    BY <2>1 DEF Covers, new
<1>2. ASSUME NEW row \in Row, ~IsBlock(row.shape)
      PROVE  Covers(t, With(table, next, row), next + 1)
  <2> DEFINE new == With(table, next, row)
  <2>1. /\ DOMAIN new = DOMAIN table \cup {next} /\ new[next] = row
        /\ \A i \in DOMAIN table \ {next} : new[i] = table[i]
    BY DEF With
  <2> HIDE DEF new
  <2>2. \A i \in DOMAIN t : i < next + 1
    BY <1>0
  <2>3. next \notin DOMAIN t
    BY <1>0
  <2> QED
    BY <1>2, <2>1, <2>2, <2>3 DEF Covers, new
<1> QED
  BY <1>1, <1>2

\* A step of one worker keeps the invariant of all.
LEMMA StepKeepsInv ==
  ASSUME Inv, NEW w \in Workers, StepOK(w)
  PROVE  Inv'
<1>1. PICK p, j :
        /\ p \in Places /\ Moves(w, p, j)
        /\ IsJob(j) /\ PlaceOK(p, j)
        /\ p \in Locked => advisory' = w
        /\ p = "decide" => Covers(j.snap, rules', nextId')
  BY DEF StepOK
<1>2. pc' \in [Workers -> Places] /\ pc'[w] = p
        /\ \A v \in Workers \ {w} : pc'[v] = pc[v] /\ job'[v] = job[v]
  BY <1>1 DEF Moves, Inv
<1>3. ASSUME NEW v \in Workers
      PROVE  /\ IsJob(job'[v])
             /\ PlaceOK(pc'[v], job'[v])
             /\ pc'[v] \in Locked => advisory' = v
             /\ pc'[v] = "decide" => Covers(job'[v].snap, rules', nextId')
  <2>1. CASE v = w
    BY <1>1, <1>2, <2>1 DEF Moves
  <2>2. CASE v # w
    <3>1. pc'[v] = pc[v] /\ job'[v] = job[v]
      BY <1>2, <2>2
    <3>2. pc[v] \in Locked => advisory = v /\ advisory' = v
      BY <2>2, WorkersAssumption DEF Inv, StepOK
    <3>3. ASSUME pc[v] = "decide"
          PROVE  Covers(job[v].snap, rules', nextId')
      <4>1. advisory # w
        BY <2>2, <3>2, <3>3 DEF Locked
      <4>2. FiniteTable(job[v].snap) /\ Covers(job[v].snap, rules, nextId)
        BY <3>3 DEF Inv, IsJob, PlaceOK, FiniteTable
      <4>3. FiniteTable(rules) /\ nextId \in Nat \ {0} /\ \A i \in DOMAIN rules : i < nextId
        BY DEF Inv, SharedOK
      <4>4. /\ \A id \in Nat : Covers(job[v].snap, Without(rules, id), nextId)
            /\ \A row \in Row : ~IsBlock(row.shape) =>
                  Covers(job[v].snap, With(rules, nextId, row), nextId + 1)
        BY <4>2, <4>3, CoversKept
      <4> QED
        BY <4>1, <4>2, <4>4 DEF StepOK, TableStep
    <3> QED
      BY <3>1, <3>2, <3>3 DEF Inv
  <2> QED
    BY <2>1, <2>2
<1>4. DOMAIN job' = Workers
  BY <1>1 DEF Moves
<1> QED
  BY <1>2, <1>3, <1>4 DEF Inv, StepOK, OneBlockRow

-----------------------------------------------------------------------------
\* The invariant holds at the start and implies the two properties.
LEMMA InvImplies == Inv => TypeOK /\ AtMostOneBlockRow
BY DEF Inv, SharedOK, TypeOK, AtMostOneBlockRow, OneBlockRow, FiniteTable

-----------------------------------------------------------------------------
(* Command lists and chains have the types the handlers keep them in. *)

LEMMA ChainsForType ==
  ASSUME NEW kind \in Kinds
  PROVE  /\ ChainsFor(kind) \in Seq(Chains) /\ Halves(kind) \in Seq(Chains)
         /\ kind \notin {"client_block", "other"} => ChainsFor(kind) # <<>>
         /\ Len(Halves(kind)) \in 0..2
<1>1. /\ <<"INPUT">> \in Seq(Chains) /\ <<"FORWARD">> \in Seq(Chains)
      /\ <<"POSTROUTING">> \in Seq(Chains) /\ <<"PREROUTING", "FORWARD">> \in Seq(Chains)
      /\ <<"FORWARD", "INPUT">> \in Seq(Chains) /\ <<>> \in Seq(Chains)
  BY DEF Chains
<1> QED
  BY <1>1 DEF ChainsFor, Halves, Kinds

LEMMA ToSetType ==
  ASSUME NEW S, NEW s \in Seq(S)
  PROVE  ToSet(s) \subseteq S
BY DEF ToSet

LEMMA HalfCommandsType ==
  ASSUME NEW op \in {"-A", "-I", "-D"}, NEW id \in Nat, NEW shape \in Shape
  PROVE  HalfCommands(op, id, shape) \in Seq(Command)
<1> DEFINE h == Halves(shape.kind)
<1>1. h \in Seq(Chains) /\ Len(h) \in 0..2
  BY ChainsForType DEF Shape
<1>2. LiveEntry(id, shape) \in Entry
  BY DEF LiveEntry, Entry
<1>3. HalfCommands(op, id, shape) =
        [k \in DOMAIN h |-> [op |-> op, chain |-> h[k], entry |-> LiveEntry(id, shape),
                             skip |-> Len(h) - k]]
  BY DEF HalfCommands
<1> HIDE DEF h
<1>4. \A k \in 1..Len(h) : h[k] \in Chains /\ Len(h) - k \in Nat
  BY <1>1
<1>5. \A k \in 1..Len(h) : [op |-> op, chain |-> h[k], entry |-> LiveEntry(id, shape),
                              skip |-> Len(h) - k] \in Command
  BY <1>2, <1>4 DEF Command
<1>6. DOMAIN h = 1..Len(h)
  BY <1>1
<1> QED
  BY <1>1, <1>3, <1>5, <1>6

\* What the commands of a rule's halves are.
LEMMA HalfCommandsAre ==
  ASSUME NEW op, NEW id, NEW shape \in Shape
  PROVE  LET cmds == HalfCommands(op, id, shape)
         IN  /\ DOMAIN cmds = 1..Len(cmds)
             /\ \A k \in 1..Len(cmds) :
                   /\ cmds[k].op = op /\ cmds[k].entry = LiveEntry(id, shape)
                   /\ cmds[k].chain = Halves(shape.kind)[k]
             /\ IsBlock(shape) => /\ Len(cmds) = 2
                                  /\ cmds[1].chain = "FORWARD" /\ cmds[2].chain = "INPUT"
<1> DEFINE h == Halves(shape.kind)
           c(k) == [op |-> op, chain |-> h[k], entry |-> LiveEntry(id, shape), skip |-> Len(h) - k]
           cmds == HalfCommands(op, id, shape)
<1>1. cmds = [k \in DOMAIN h |-> c(k)]
  BY DEF HalfCommands
<1>2. h \in Seq(Chains)
  BY ChainsForType DEF Shape
<1>3. IsBlock(shape) => Len(h) = 2 /\ h[1] = "FORWARD" /\ h[2] = "INPUT"
  BY DEF IsBlock, Halves
<1> HIDE DEF h
<1>4. \A k \in DOMAIN h :
        c(k).op = op /\ c(k).chain = h[k] /\ c(k).entry = LiveEntry(id, shape)
  OBVIOUS
<1> HIDE DEF c, cmds
<1>5. DOMAIN cmds = 1..Len(cmds) /\ Len(cmds) = Len(h) /\ DOMAIN h = 1..Len(cmds)
  BY <1>1, <1>2
<1>6. \A k \in 1..Len(cmds) :
        cmds[k].op = op /\ cmds[k].chain = h[k] /\ cmds[k].entry = LiveEntry(id, shape)
  BY <1>1, <1>4, <1>5
<1>7. IsBlock(shape) => 1 \in 1..Len(cmds) /\ 2 \in 1..Len(cmds)
  BY <1>3, <1>5
<1> QED
  BY <1>3, <1>5, <1>6, <1>7 DEF cmds, h

LEMMA ApplyTypes ==
  ASSUME NEW id \in Nat, NEW shape \in Shape
  PROVE  /\ Apply(id, shape) \in Seq(Command)
         /\ Unapply(id, shape) \in Seq(Command)
         /\ ApplyIdempotent(id, shape) \in Seq(Command)
<1>1. Apply(id, shape) \in Seq(Command) /\ Unapply(id, shape) \in Seq(Command)
  BY HalfCommandsType DEF Apply, Unapply
<1> QED
  BY <1>1, ConcatProperties DEF ApplyIdempotent

LEMMA StripType ==
  ASSUME NEW chain \in Chains, live \in [Chains -> Seq(Entry)]
  PROVE  StripCommands(chain) \in Seq(Command)
<1> DEFINE own == {k \in DOMAIN live[chain] : HasOwnedTag(live[chain][k])}
           owned == Selected(live[chain], own)
<1>1. owned \in Seq(Entry)
  BY SelectedElements
<1>2. StripCommands(chain) =
        [k \in DOMAIN owned |-> [op |-> "-D", chain |-> chain, entry |-> owned[k], skip |-> 0]]
  BY DEF StripCommands
<1> HIDE DEF owned
<1>3. \A k \in 1..Len(owned) :
        [op |-> "-D", chain |-> chain, entry |-> owned[k], skip |-> 0] \in Command
  BY <1>1 DEF Command
<1> QED
  BY <1>1, <1>2, <1>3

LEMMA FillType ==
  ASSUME NEW t, FiniteTable(t), NEW chain \in Chains
  PROVE  FillCommands(t, chain) \in Seq(Command)
<1> DEFINE S == {i \in Enabled(t) : InChain(t, i, chain)}
           ids == WantedIds(t, chain)
           add(k) == [op |-> "-A", chain |-> chain,
                      entry |-> LiveEntry(ids[k], t[ids[k]].shape), skip |-> 0]
<1>1. S \subseteq DOMAIN t /\ IsFiniteSet(S)
  BY FS_Subset DEF Enabled, FiniteTable
<1>2. ids \in Seq(S)
  BY <1>1, OrderedElements DEF FiniteTable, WantedIds
<1>3. \A k \in 1..Len(ids) : ids[k] \in DOMAIN t
  <2> HIDE DEF ids, S
  <2> QED BY <1>1, <1>2
<1>4. \A i \in DOMAIN t : LiveEntry(i, t[i].shape) \in Entry
  BY DEF FiniteTable, IsTable, Row, LiveEntry, Entry
<1>5. FillCommands(t, chain) = [k \in DOMAIN ids |-> add(k)]
  BY DEF FillCommands
<1> HIDE DEF ids, S
<1>6. \A k \in 1..Len(ids) : add(k) \in Command
  BY <1>3, <1>4 DEF Command
<1> HIDE DEF add
<1> QED
  BY <1>2, <1>5, <1>6

LEMMA SyncType ==
  ASSUME NEW t, FiniteTable(t)
  PROVE  /\ SyncCommands(t) \in Seq(Command)
         /\ \A k \in 1..Len(SyncCommands(t)) :
               \E i \in Enabled(t) : IsBlock(t[i].shape) /\
                  SyncCommands(t)[k].entry = LiveEntry(i, t[i].shape)
<1> DEFINE S == {i \in Enabled(t) : IsBlock(t[i].shape)}
           ids == Ordered(t, S)
           each == 2 * Len(Halves("client_block"))
           id(k) == ids[((k - 1) \div each) + 1]
           com(k) == ApplyIdempotent(id(k), t[id(k)].shape)[((k - 1) % each) + 1]
<1>1. S \subseteq DOMAIN t /\ IsFiniteSet(S)
  BY FS_Subset DEF Enabled, FiniteTable
<1>2. ids \in Seq(S)
  BY <1>1, OrderedElements DEF FiniteTable
<1>3. \A i \in S : i \in Nat /\ t[i].shape \in Shape /\ t[i].shape.kind = "client_block"
  BY <1>1 DEF FiniteTable, IsTable, Row, IsBlock
<1>4. Len(Halves("client_block")) = 2
  BY DEF Halves
<1>5. each = 4
  <2> DEFINE n == Len(Halves("client_block"))
  <2> HIDE DEF n
  <2>1. n = 2 => 2 * n = 4
    OBVIOUS
  <2> QED
    BY <1>4, <2>1 DEF n
<1>6. \A i \in S : /\ ApplyIdempotent(i, t[i].shape) \in Seq(Command)
                   /\ Len(ApplyIdempotent(i, t[i].shape)) = 4
                   /\ \A m \in 1..4 :
                        ApplyIdempotent(i, t[i].shape)[m].entry = LiveEntry(i, t[i].shape)
  <2> SUFFICES ASSUME NEW i \in S
               PROVE  /\ ApplyIdempotent(i, t[i].shape) \in Seq(Command)
                      /\ Len(ApplyIdempotent(i, t[i].shape)) = 4
                      /\ \A m \in 1..4 :
                           ApplyIdempotent(i, t[i].shape)[m].entry = LiveEntry(i, t[i].shape)
    OBVIOUS
  <2> DEFINE sh == t[i].shape
  <2>1. i \in Nat /\ sh \in Shape /\ sh.kind = "client_block"
    BY <1>3
  <2> HIDE DEF sh
  <2>2. /\ HalfCommands("-D", i, sh) \in Seq(Command)
        /\ HalfCommands("-I", i, sh) \in Seq(Command)
    BY <2>1, HalfCommandsType
  <2>3. /\ Len(HalfCommands("-D", i, sh)) = 2
        /\ Len(HalfCommands("-I", i, sh)) = 2
    <3>1. DOMAIN Halves(sh.kind) = 1..2
      BY <2>1 DEF Halves
    <3> QED
      BY <3>1, <2>2 DEF HalfCommands
  <2>4. ApplyIdempotent(i, sh) = HalfCommands("-D", i, sh) \o HalfCommands("-I", i, sh)
    BY <2>1 DEF ApplyIdempotent, Apply, Unapply, IsBlock
  <2>5. /\ ApplyIdempotent(i, sh) \in Seq(Command) /\ Len(ApplyIdempotent(i, sh)) = 4
        /\ \A m \in 1..4 : ApplyIdempotent(i, sh)[m].entry = LiveEntry(i, sh)
    <3> DEFINE del == HalfCommands("-D", i, sh)
               ins == HalfCommands("-I", i, sh)
    <3>0. /\ \A m \in 1..Len(del) : del[m].entry = LiveEntry(i, sh)
          /\ \A m \in 1..Len(ins) : ins[m].entry = LiveEntry(i, sh)
      BY <2>1, HalfCommandsAre
    <3> HIDE DEF del, ins
    <3>1. /\ del \in Seq(Command) /\ Len(del) = 2
          /\ ins \in Seq(Command) /\ Len(ins) = 2
      BY <2>2, <2>3 DEF del, ins
    <3>2. del \o ins \in Seq(Command) /\ Len(del \o ins) = Len(del) + Len(ins)
      BY <3>1, ConcatProperties, Zenon
    <3>3. Len(del \o ins) = 4
      BY <3>1, <3>2
    <3>4. \A m \in 1..Len(del) + Len(ins) :
             (del \o ins)[m] = IF m <= Len(del) THEN del[m] ELSE ins[m - Len(del)]
      BY <3>1, ConcatIs, Zenon
    <3>5. ASSUME NEW m \in 1..4
          PROVE  (del \o ins)[m].entry = LiveEntry(i, sh)
      <4>1. /\ m \in 1..Len(del) + Len(ins)
            /\ m <= Len(del) => m \in 1..Len(del)
            /\ ~(m <= Len(del)) => m - Len(del) \in 1..Len(ins)
        BY <3>1
      <4>2. (del \o ins)[m] = IF m <= Len(del) THEN del[m] ELSE ins[m - Len(del)]
        BY <3>4, <4>1, Zenon
      <4> QED
        BY <3>0, <4>1, <4>2, Zenon
    <3> QED
      BY <2>4, <3>2, <3>3, <3>5, Zenon DEF del, ins
  <2> QED
    BY <2>5 DEF sh
<1>7. SyncCommands(t) = [k \in 1..each * Len(ids) |-> com(k)]
  BY DEF SyncCommands
<1> HIDE DEF ids, S
<1>8. Len(ids) \in Nat /\ \A n \in 1..Len(ids) : ids[n] \in S
  BY <1>2
<1>9. ASSUME NEW k \in 1..4 * Len(ids)
      PROVE  com(k) \in Command /\ \E i \in S : com(k).entry = LiveEntry(i, t[i].shape)
  <2>1. ((k - 1) \div 4) + 1 \in 1..Len(ids) /\ ((k - 1) % 4) + 1 \in 1..4
    BY <1>8
  <2>2. id(k) \in S
    BY <1>5, <1>8, <2>1
  <2> HIDE DEF id
  <2>3. ApplyIdempotent(id(k), t[id(k)].shape) \in Seq(Command)
        /\ Len(ApplyIdempotent(id(k), t[id(k)].shape)) = 4
    BY <1>6, <2>2
  <2>4. com(k) = ApplyIdempotent(id(k), t[id(k)].shape)[((k - 1) % 4) + 1]
    BY <1>5
  <2>5. com(k).entry = LiveEntry(id(k), t[id(k)].shape)
    BY <1>6, <2>1, <2>2, <2>4
  <2> QED
    BY <2>1, <2>2, <2>3, <2>4, <2>5, ElementOfSeq
<1> HIDE DEF com
<1>10. SyncCommands(t) \in [1..4 * Len(ids) -> Command]
  BY <1>5, <1>7, <1>9
<1>11. DOMAIN SyncCommands(t) = 1..4 * Len(ids) /\ 4 * Len(ids) \in Nat
  BY <1>8, <1>10
<1>12. \A k \in 1..4 * Len(ids) : \E i \in S : SyncCommands(t)[k].entry = LiveEntry(i, t[i].shape)
  BY <1>5, <1>7, <1>9
<1>13. SyncCommands(t) \in Seq(Command) /\ Len(SyncCommands(t)) = 4 * Len(ids)
  BY <1>10, <1>11
<1> QED
  BY <1>12, <1>13 DEF S

LEMMA ExecutedType ==
  ASSUME live \in [Chains -> Seq(Entry)], NEW c \in Command
  PROVE  Executed(c) \in [Chains -> Seq(Entry)]
<1> DEFINE s == live[c.chain]
<1>1. c.chain \in Chains /\ c.entry \in Entry /\ s \in Seq(Entry)
  BY DEF Command
<1>2. Append(s, c.entry) \in Seq(Entry) /\ <<c.entry>> \o s \in Seq(Entry)
  BY <1>1
<1>3. RemoveFirst(s, c.entry) \in Seq(Entry)
  <2> DEFINE I == {i \in 1..Len(s) : s[i] = c.entry}
             m == Min(I)
  <2>1. CASE I = {}
    <3>1. RemoveFirst(s, c.entry) = s
      BY <2>1 DEF RemoveFirst
    <3> QED
      BY <1>1, <3>1
  <2>2. CASE I # {}
    <3>1. I \subseteq Int /\ IsFiniteSet(I)
      <4>1. Len(s) \in Nat /\ IsFiniteSet(1..Len(s))
        BY <1>1, FS_Interval
      <4> QED
        BY <4>1, FS_Subset
    <3>2. m \in 1..Len(s)
      <4>1. m \in I
        <5> HIDE DEF I
        <5> QED BY <2>2, <3>1, MinOfFinite
      <4> QED
        BY <4>1
    <3>3. RemoveFirst(s, c.entry) = SubSeq(s, 1, m - 1) \o SubSeq(s, m + 1, Len(s))
      BY <2>2 DEF RemoveFirst, RemoveAt, SelectInSeq
    <3> HIDE DEF m, s
    <3>4. SubSeq(s, 1, m - 1) \in Seq(Entry) /\ SubSeq(s, m + 1, Len(s)) \in Seq(Entry)
      BY <1>1, <3>2, SubSeqProperties
    <3> QED
      BY <3>3, <3>4, ConcatProperties
  <2> QED
    BY <2>1, <2>2
<1>4. c.op \in {"-A", "-I", "-D"}
  BY DEF Command
<1> QED
  BY <1>1, <1>2, <1>3, <1>4 DEF Executed

LEMMA OrdersType ==
  ASSUME NEW S, S \subseteq Chains, NEW order \in Orders(S)
  PROVE  order \in Seq(Chains) /\ (S # {} => order # <<>>)
<1>1. IsFiniteSet(Chains)
  <2>1. IsFiniteSet({} \cup {"INPUT"})
    BY FS_EmptySet, FS_AddElement
  <2>2. IsFiniteSet(({} \cup {"INPUT"}) \cup {"FORWARD"})
    BY <2>1, FS_AddElement
  <2>3. IsFiniteSet((({} \cup {"INPUT"}) \cup {"FORWARD"}) \cup {"PREROUTING"})
    BY <2>2, FS_AddElement
  <2>4. IsFiniteSet(((({} \cup {"INPUT"}) \cup {"FORWARD"}) \cup {"PREROUTING"}) \cup {"POSTROUTING"})
    BY <2>3, FS_AddElement
  <2>5. Chains = ((({} \cup {"INPUT"}) \cup {"FORWARD"}) \cup {"PREROUTING"}) \cup {"POSTROUTING"}
    BY DEF Chains
  <2> QED
    BY <2>4, <2>5
<1>2. IsFiniteSet(S)
  BY <1>1, FS_Subset
<1>3. Cardinality(S) \in Nat /\ (S # {} => Cardinality(S) # 0)
  BY <1>2, FS_CardinalityType, FS_EmptySet
<1>4. order \in [1..Cardinality(S) -> S]
  BY DEF Orders, SetToSeqs
<1>5. order \in Seq(S) /\ Len(order) = Cardinality(S)
  BY <1>3, <1>4
<1>6. order \in Seq(Chains)
  BY <1>5, SeqMonotonic
<1>7. S # {} => Len(order) # 0
  BY <1>3, <1>5
<1> QED
  BY <1>6, <1>7, EmptySeq

-----------------------------------------------------------------------------
(* One block row per client survives every way the table changes. *)

LEMMA BlockRowsWithout ==
  ASSUME NEW t, OneBlockRow(t), NEW id
  PROVE  OneBlockRow(Without(t, id))
BY DEF OneBlockRow, BlockRows, Without

LEMMA BlockRowsWith ==
  ASSUME NEW t, OneBlockRow(t), NEW id, id \notin DOMAIN t, NEW row,
         IsBlock(row.shape) => BlockRows(t, row.shape.client) = {}
  PROVE  OneBlockRow(With(t, id, row))
<1> DEFINE new == With(t, id, row)
<1>1. /\ DOMAIN new = DOMAIN t \cup {id} /\ new[id] = row
      /\ \A i \in DOMAIN t : new[i] = t[i]
  BY DEF With
<1> HIDE DEF new
<1> SUFFICES ASSUME NEW c \in Clients, NEW i \in BlockRows(new, c), NEW k \in BlockRows(new, c)
             PROVE  i = k
  BY DEF OneBlockRow, new
<1>2. \A m \in BlockRows(new, c) : m \in BlockRows(t, c) \/ (m = id /\ IsBlock(row.shape)
                                                           /\ row.shape.client = c)
  BY <1>1 DEF BlockRows
<1> QED
  BY <1>2 DEF OneBlockRow

LEMMA BlockRowsUpdated ==
  ASSUME NEW t, OneBlockRow(t), NEW id, NEW row,
         id \in DOMAIN t => row.shape = t[id].shape
  PROVE  OneBlockRow(Updated(t, id, row))
<1>1. CASE id \notin DOMAIN t
  BY <1>1 DEF Updated
<1>2. CASE id \in DOMAIN t
  <2> DEFINE new == With(t, id, row)
  <2>1. DOMAIN new = DOMAIN t /\ \A i \in DOMAIN t : new[i].shape = t[i].shape
    BY <1>2 DEF With
  <2> HIDE DEF new
  <2>2. \A c : BlockRows(new, c) = BlockRows(t, c)
    BY <2>1 DEF BlockRows
  <2>3. OneBlockRow(new)
    BY <2>2 DEF OneBlockRow
  <2> QED
    BY <1>2, <2>3 DEF Updated, new
<1> QED
  BY <1>1, <1>2

-----------------------------------------------------------------------------
(* Steps of a kind: where a handler goes, and what it leaves alone. *)

LEMMA MovesTo ==
  ASSUME Inv, NEW w \in Workers, NEW p, NEW j
  PROVE  /\ Goto(w, p) /\ job' = [job EXCEPT ![w] = j] => Moves(w, p, j)
         /\ Goto(w, p) /\ UNCHANGED job => Moves(w, p, job[w])
         /\ UNCHANGED pc /\ job' = [job EXCEPT ![w] = j] => Moves(w, pc[w], j)
         /\ Finish(w) => Moves(w, "idle", NoJob)
BY DEF Inv, Moves, Goto, Finish

\* Steps that leave the table alone, and the advisory lock or release it.
LEMMA QuietStep ==
  ASSUME Inv, NEW w \in Workers, UNCHANGED <<rules, nextId>>,
         \/ UNCHANGED advisory
         \/ advisory = w /\ advisory' = None,
         live' \in [Chains -> Seq(Entry)], flock' \in Workers \cup {None},
         UNCHANGED spent \/ spent' \in [requests : 0..MaxRequests, manual : 0..MaxManual,
                                        losses : 0..MaxLosses, crashes : 0..MaxCrashes],
         NEW p \in Places, NEW j, Moves(w, p, j), IsJob(j), PlaceOK(p, j),
         p \in Locked => pc[w] \in Locked /\ UNCHANGED advisory,
         p = "decide" => Covers(j.snap, rules, nextId)
  PROVE  StepOK(w)
<1>1. SharedOK' /\ OneBlockRow(rules')
  BY DEF Inv, SharedOK, OneBlockRow
<1>2. p \in Locked => advisory' = w
  BY DEF Inv
<1>3. TableStep(w)
  BY DEF TableStep
<1> QED
  BY <1>1, <1>2, <1>3 DEF StepOK

\* A handler that gives up or is done.
LEMMA FinishStep ==
  ASSUME Inv, NEW w \in Workers, Finish(w), UNCHANGED <<rules, nextId>>,
         \/ UNCHANGED advisory
         \/ advisory = w /\ advisory' = None,
         live' \in [Chains -> Seq(Entry)], flock' \in Workers \cup {None},
         UNCHANGED spent \/ spent' \in [requests : 0..MaxRequests, manual : 0..MaxManual,
                                        losses : 0..MaxLosses, crashes : 0..MaxCrashes]
  PROVE  StepOK(w)
<1>1. Moves(w, "idle", NoJob)
  BY MovesTo
<1>2. "idle" \in Places /\ "idle" \notin Locked
  BY DEF Places, Locked
<1> QED
  BY <1>1, <1>2, EmptyJob, QuietStep

\* A transaction that commits a new table.
LEMMA CommitStep ==
  ASSUME Inv, NEW w \in Workers, pc[w] \in Locked, EndTransaction,
         FiniteTable(rules'), nextId' \in Nat \ {0}, \A i \in DOMAIN rules' : i < nextId',
         OneBlockRow(rules'), UNCHANGED <<live, flock, spent>>,
         NEW p \in Places \ Locked, NEW j, Moves(w, p, j), IsJob(j), PlaceOK(p, j)
  PROVE  StepOK(w)
<1>1. advisory = w
  BY DEF Inv
<1>2. SharedOK'
  BY DEF Inv, SharedOK, EndTransaction
<1>3. p # "decide"
  BY DEF Locked
<1> QED
  BY <1>1, <1>2, <1>3 DEF StepOK, TableStep

\* What the invariant says of the worker that moves.
LEMMA OfWorker ==
  ASSUME Inv, NEW w \in Workers
  PROVE  /\ IsJob(job[w]) /\ PlaceOK(pc[w], job[w])
         /\ FiniteTable(job[w].snap)
         /\ pc[w] \in Locked => advisory = w
         /\ pc[w] = "decide" => Covers(job[w].snap, rules, nextId)
         /\ FiniteTable(rules) /\ nextId \in Nat \ {0} /\ nextId \notin DOMAIN rules
         /\ OneBlockRow(rules)
         /\ live \in [Chains -> Seq(Entry)]
         /\ flock \in Workers \cup {None}
<1>1. FiniteTable(job[w].snap)
  BY DEF Inv, IsJob, PlaceOK, FiniteTable
<1>2. nextId \notin DOMAIN rules
  BY DEF Inv, SharedOK
<1> QED
  BY <1>1, <1>2 DEF Inv, SharedOK

\* A place in quotes, where pc goes.
LEMMA Goes ==
  ASSUME Inv, NEW w \in Workers
  PROVE  /\ \A p : Goto(w, p) => pc'[w] = p
         /\ Finish(w) => pc'[w] = "idle" /\ job'[w] = NoJob
         /\ \A j : job' = [job EXCEPT ![w] = j] => job'[w] = j
BY DEF Inv, Goto, Finish

-----------------------------------------------------------------------------
(* Each action is such a step. *)

\* The bookkeeping of the bounds stays within them.
LEMMA SpentType ==
  ASSUME NEW s \in [requests : 0..MaxRequests, manual : 0..MaxManual,
                    losses : 0..MaxLosses, crashes : 0..MaxCrashes]
  PROVE  LET Spent == [requests : 0..MaxRequests, manual : 0..MaxManual,
                       losses : 0..MaxLosses, crashes : 0..MaxCrashes]
         IN  /\ s.requests < MaxRequests => [s EXCEPT !.requests = @ + 1] \in Spent
             /\ s.manual < MaxManual => [s EXCEPT !.manual = @ + 1] \in Spent
             /\ s.losses < MaxLosses => [s EXCEPT !.losses = @ + 1] \in Spent
             /\ s.crashes < MaxCrashes => [s EXCEPT !.crashes = @ + 1] \in Spent
<1>1. /\ MaxRequests \in Nat /\ MaxManual \in Nat
      /\ MaxLosses \in Nat /\ MaxCrashes \in Nat
  BY BoundsAssumption
<1>2. /\ s.requests < MaxRequests => s.requests + 1 \in 0..MaxRequests
      /\ s.manual < MaxManual => s.manual + 1 \in 0..MaxManual
      /\ s.losses < MaxLosses => s.losses + 1 \in 0..MaxLosses
      /\ s.crashes < MaxCrashes => s.crashes + 1 \in 0..MaxCrashes
  BY <1>1
<1> QED
  BY <1>2

LEMMA ReceiveStep ==
  ASSUME Inv, NEW w \in Workers, NEW r \in Requests, Receive(w, r)
  PROVE  StepOK(w)
<1> DEFINE j == [NoJob EXCEPT !.req = r]
           p == EntryPlace(r)
<1>1. Moves(w, p, j)
  BY MovesTo DEF Receive
<1>2. p \in {"max", "start", "flock", "lock"}
  BY DEF EntryPlace
<1>3. p \in Places /\ p \notin Locked
  BY <1>2 DEF Places, Locked
<1>4. p = "max" => r.op = "add"
  BY DEF EntryPlace
<1>5. p = "flock" => r.op = "discover"
  BY DEF EntryPlace
<1>6. IsJob(j) /\ j.req = r /\ IsFiniteSet(DOMAIN j.snap)
  BY EmptyJob DEF IsJob, NoJob, PlaceOK
<1>7. PlaceOK(p, j)
  <2> HIDE DEF p, j
  <2> QED BY <1>2, <1>4, <1>5, <1>6 DEF PlaceOK
<1>8. spent' \in [requests : 0..MaxRequests, manual : 0..MaxManual,
                  losses : 0..MaxLosses, crashes : 0..MaxCrashes]
  BY SpentType DEF Receive, Inv, SharedOK
<1>9. UNCHANGED <<rules, nextId, advisory, live, flock>>
  BY DEF Receive
<1> HIDE DEF p, j
<1>10. live' \in [Chains -> Seq(Entry)] /\ flock' \in Workers \cup {None}
  BY <1>9, OfWorker
<1>11. p # "decide"
  BY <1>2
<1> QED
  BY <1>1, <1>3, <1>6, <1>7, <1>8, <1>9, <1>10, <1>11, QuietStep

LEMMA LockStep ==
  ASSUME Inv, NEW w \in Workers, Lock(w)
  PROVE  StepOK(w)
<1>1. Moves(w, "read", job[w])
  BY MovesTo DEF Lock
<1>2. UNCHANGED <<rules, nextId, live, flock, spent>> /\ advisory' = w /\ advisory = None
  BY DEF Lock, AdvisoryFree
<1>3. IsJob(job[w]) /\ PlaceOK("read", job[w]) /\ "read" \in Places
  BY OfWorker DEF PlaceOK, Places, Lock
<1>4. SharedOK' /\ OneBlockRow(rules')
  BY <1>2 DEF Inv, SharedOK, OneBlockRow
<1>5. TableStep(w)
  BY <1>2 DEF TableStep
<1> QED
  BY <1>1, <1>2, <1>3, <1>4, <1>5 DEF StepOK

LEMMA LockTimeoutStep ==
  ASSUME Inv, NEW w \in Workers, LockTimeout(w)
  PROVE  StepOK(w)
BY OfWorker, FinishStep DEF LockTimeout

LEMMA ReadStep ==
  ASSUME Inv, NEW w \in Workers, Read(w)
  PROVE  StepOK(w)
<1> DEFINE j == [job[w] EXCEPT !.snap = rules]
<1>1. Moves(w, "decide", j)
  BY MovesTo DEF Read, Inv
<1>2. UNCHANGED <<rules, nextId, advisory, live, flock, spent>> /\ pc[w] = "read"
  BY DEF Read
<1>3. IsJob(j) /\ PlaceOK("decide", j) /\ j.snap = rules
  BY <1>2, OfWorker DEF IsJob, PlaceOK, FiniteTable, NoJob
<1>4. Covers(j.snap, rules, nextId)
  BY <1>3 DEF Covers, Inv, SharedOK
<1>5. "decide" \in Places /\ pc[w] \in Locked
  BY <1>2 DEF Places, Locked
<1> HIDE DEF j
<1> QED
  BY <1>1, <1>2, <1>3, <1>4, <1>5, OfWorker, QuietStep

LEMMA DeclineStep ==
  ASSUME Inv, NEW w \in Workers, pc[w] = "decide", Decline(w)
  PROVE  StepOK(w)
<1>1. advisory = w /\ advisory' = None
  BY OfWorker DEF Decline, EndTransaction, Locked
<1> QED
  BY <1>1, OfWorker, FinishStep DEF Decline

LEMMA CommitInsertStep ==
  ASSUME Inv, NEW w \in Workers, pc[w] = "decide",
         NEW shape \in Shape, shape.kind # "other", CommitInsert(w, shape),
         IsBlock(shape) => BlockRows(rules, shape.client) = {}
  PROVE  StepOK(w)
<1> DEFINE row == [shape |-> shape, enabled |-> TRUE, pos |-> NextPosition(rules)]
           j == [job[w] EXCEPT !.id = nextId, !.cmds = Apply(nextId, shape)]
<1>1. /\ rules' = With(rules, nextId, row) /\ nextId' = nextId + 1
      /\ EndTransaction /\ Moves(w, "apply", j) /\ UNCHANGED <<live, flock, spent>>
  BY MovesTo DEF CommitInsert, Commit
<1>2. row \in Row
  BY OfWorker, NextPositionLast DEF Row
<1>3. nextId \in Nat \ {0} /\ \A i \in DOMAIN rules : i \in Nat /\ i < nextId
  BY DEF Inv, SharedOK, FiniteTable, IsTable
<1>4. IsJob(j)
  BY <1>3, OfWorker, ApplyTypes DEF IsJob, NoJob
<1>5. PlaceOK("apply", j)
  BY OfWorker DEF PlaceOK, IsJob, NoJob
<1>6. FiniteTable(rules') /\ DOMAIN rules' = DOMAIN rules \cup {nextId}
  <2> HIDE DEF row
  <2>1. FiniteTable(rules)
    BY OfWorker
  <2>2. nextId \in Nat \ {0}
    BY <1>3
  <2>3. FiniteTable(With(rules, nextId, row))
          /\ DOMAIN With(rules, nextId, row) = DOMAIN rules \cup {nextId}
    BY <1>2, <2>1, <2>2, TableWith
  <2> QED BY <1>1, <2>3
<1>7. OneBlockRow(rules')
  <2>1. row.shape = shape
    OBVIOUS
  <2> HIDE DEF row
  <2> QED BY <1>1, <2>1, OfWorker, BlockRowsWith
<1>8. nextId' \in Nat \ {0} /\ \A i \in DOMAIN rules' : i < nextId'
  BY <1>1, <1>3, <1>6
<1>9. pc[w] \in Locked /\ "apply" \in Places \ Locked
  BY DEF Locked, Places
<1> HIDE DEF j, row
<1> QED
  BY <1>1, <1>4, <1>5, <1>6, <1>7, <1>8, <1>9, CommitStep

LEMMA AddInputStep ==
  ASSUME Inv, NEW w \in Workers, AddInput(w)
  PROVE  StepOK(w)
<1>1. pc[w] = "decide" /\ job[w].req.op = "add" /\ job[w].req \in Requests
  BY OfWorker DEF AddInput, Deciding, PlaceOK
<1>2. job[w].req.shape \in Shape /\ job[w].req.shape.kind \notin {"client_block", "other"}
  BY <1>1, RequestsAssumption DEF Request
<1>3. Decline(w) \/ CommitInsert(w, job[w].req.shape)
  BY DEF AddInput
<1> QED
  BY <1>1, <1>2, <1>3, DeclineStep, CommitInsertStep DEF IsBlock

\* Under the lock, a client without a block row in the snapshot has none.
LEMMA NoBlockRow ==
  ASSUME NEW t, NEW table, NEW next, Covers(t, table, next), NEW c, BlockRows(t, c) = {}
  PROVE  BlockRows(table, c) = {}
BY DEF Covers, BlockRows

LEMMA BlockStep ==
  ASSUME Inv, NEW w \in Workers, Block(w)
  PROVE  StepOK(w)
<1> DEFINE r == job[w].req
<1>1. pc[w] = "decide" /\ r.op = "block" /\ r \in Requests
  BY OfWorker DEF Block, Deciding, PlaceOK
<1>2. r.shape \in Shape /\ r.shape.kind # "other"
  BY <1>1, RequestsAssumption DEF Request, IsBlock
<1>3. Decline(w) \/ (CommitInsert(w, r.shape) /\ BlockRows(job[w].snap, r.shape.client) = {})
  BY DEF Block
<1>4. BlockRows(job[w].snap, r.shape.client) = {} => BlockRows(rules, r.shape.client) = {}
  BY <1>1, OfWorker, NoBlockRow
<1> HIDE DEF r
<1> QED
  BY <1>1, <1>2, <1>3, <1>4, DeclineStep, CommitInsertStep

\* A transaction that rewrites a row of its snapshot without its shape.
LEMMA CommitUpdateStep ==
  ASSUME Inv, NEW w \in Workers, pc[w] = "decide",
         NEW id \in DOMAIN job[w].snap, NEW row \in Row, row.shape = job[w].snap[id].shape,
         rules' = Updated(rules, id, row), UNCHANGED nextId, EndTransaction,
         UNCHANGED <<live, flock, spent>>,
         NEW p \in Places \ Locked, NEW j, Moves(w, p, j), IsJob(j), PlaceOK(p, j)
  PROVE  StepOK(w)
<1>1. FiniteTable(rules') /\ DOMAIN rules' = DOMAIN rules
  BY OfWorker, TableUpdated
<1>2. id \in DOMAIN rules => row.shape = rules[id].shape
  BY OfWorker DEF Covers
<1>3. OneBlockRow(rules')
  BY <1>2, OfWorker, BlockRowsUpdated
<1>4. nextId' \in Nat \ {0} /\ \A i \in DOMAIN rules' : i < nextId'
  BY <1>1 DEF Inv, SharedOK
<1>5. pc[w] \in Locked
  BY DEF Locked
<1> QED
  BY <1>1, <1>3, <1>4, <1>5, CommitStep

LEMMA ToggleStep ==
  ASSUME Inv, NEW w \in Workers, Toggle(w)
  PROVE  StepOK(w)
<1> DEFINE r   == job[w].req
           t   == job[w].snap
           row == t[r.id]
           on  == ~row.enabled
           new == [row EXCEPT !.enabled = on]
           j0  == [job[w] EXCEPT !.id = r.id]
           ja  == [j0 EXCEPT !.chains = ChainsFor(row.shape.kind)]
           jb  == [j0 EXCEPT !.cmds = Apply(r.id, row.shape)]
           jc  == [j0 EXCEPT !.cmds = Unapply(r.id, row.shape)]
<1>1. pc[w] = "decide" /\ r.op = "toggle" /\ r \in Requests
  BY OfWorker DEF Toggle, Deciding, PlaceOK
<1>2. r.id \in Nat
  BY <1>1, RequestsAssumption DEF Request
<1>3. \/ Decline(w)
      \/ /\ r.id \in DOMAIN t /\ UNCHANGED nextId
         /\ \/ ~IsBlock(row.shape) /\ Commit(w, Updated(rules, r.id, new), "flock", ja)
            \/ Commit(w, Updated(rules, r.id, new), "enable", jb)
            \/ Commit(w, Updated(rules, r.id, new), "unapply", jc)
  BY DEF Toggle
<1>4. CASE Decline(w)
  BY <1>1, <1>4, DeclineStep
<1>5. ASSUME r.id \in DOMAIN t, UNCHANGED nextId,
             NEW p \in {"flock", "enable", "unapply"}, NEW j \in {ja, jb, jc},
             p = "flock" => j = ja /\ ~IsBlock(row.shape),
             Commit(w, Updated(rules, r.id, new), p, j)
      PROVE  StepOK(w)
  <2>1. row \in Row
    BY <1>5, OfWorker DEF FiniteTable, IsTable
  <2>2. new \in Row /\ new.shape = row.shape /\ row.shape \in Shape
        /\ row.shape.kind \in Kinds \ {"other"}
    BY <2>1 DEF Row, Shape
  <2>3. /\ ChainsFor(row.shape.kind) \in Seq(Chains)
        /\ ~IsBlock(row.shape) => ChainsFor(row.shape.kind) # <<>>
    BY <2>2, ChainsForType DEF IsBlock
  <2>4. IsJob(j0) /\ j0.req = r /\ j0.snap = t /\ DOMAIN j0 = DOMAIN NoJob
    BY <1>2, OfWorker DEF IsJob, NoJob
  <2>5. Apply(r.id, row.shape) \in Seq(Command) /\ Unapply(r.id, row.shape) \in Seq(Command)
    BY <1>2, <2>2, ApplyTypes
  <2> HIDE DEF j0
  <2>6. IsJob(ja) /\ IsJob(jb) /\ IsJob(jc)
    BY <2>3, <2>4, <2>5 DEF IsJob, NoJob
  <2>7. ja.chains = ChainsFor(row.shape.kind)
        /\ \A x \in {ja, jb, jc} : x.req = r /\ x.snap = t
    BY <2>4 DEF NoJob
  <2> HIDE DEF ja, jb, jc
  <2>8. PlaceOK(p, j)
    BY <1>1, <1>5, <2>3, <2>7, OfWorker DEF PlaceOK, FiniteTable
  <2>9. Moves(w, p, j)
    BY <1>5, MovesTo DEF Commit
  <2>10. p \in Places \ Locked
    BY DEF Places, Locked
  <2>11. rules' = Updated(rules, r.id, new) /\ EndTransaction /\ UNCHANGED <<live, flock, spent>>
    BY <1>5 DEF Commit
  <2> HIDE DEF new
  <2> QED
    BY <1>1, <1>5, <2>2, <2>6, <2>8, <2>9, <2>10, <2>11, CommitUpdateStep
<1> HIDE DEF new, ja, jb, jc
<1> QED
  BY <1>3, <1>4, <1>5

\* disable_rule and delete_rule: t1 is the table without, or with less of, the row.
LEMMA TakeOutStep ==
  ASSUME Inv, NEW w \in Workers, NEW op \in {"disable", "delete"}, NEW present, NEW t1,
         TakeOut(w, op, present, t1), present => job[w].req.id \in DOMAIN job[w].snap,
         present => /\ FiniteTable(t1) /\ OneBlockRow(t1)
                    /\ \A i \in DOMAIN t1 : i < nextId
  PROVE  StepOK(w)
<1> DEFINE r == job[w].req
           t == job[w].snap
           cmds == IF t[r.id].enabled THEN Unapply(r.id, t[r.id].shape) ELSE <<>>
           j == [job[w] EXCEPT !.id = r.id, !.cmds = cmds]
<1>1. pc[w] = "decide" /\ r.op = op /\ r \in Requests
  BY OfWorker DEF TakeOut, Deciding, PlaceOK
<1>2. r.id \in Nat
  BY <1>1, RequestsAssumption DEF Request
<1>3. Decline(w) \/ (present /\ UNCHANGED nextId /\ Commit(w, t1, "unapply", j))
  BY DEF TakeOut
<1>4. CASE Decline(w)
  BY <1>1, <1>4, DeclineStep
<1>5. CASE present /\ UNCHANGED nextId /\ Commit(w, t1, "unapply", j)
  <2>1. t[r.id].shape \in Shape
    BY <1>5, OfWorker DEF FiniteTable, IsTable, Row
  <2>2. cmds \in Seq(Command)
    BY <1>2, <2>1, ApplyTypes
  <2> HIDE DEF cmds
  <2>3. IsJob(j) /\ j.req = r /\ j.snap = t
    BY <1>2, <2>2, OfWorker DEF IsJob, NoJob
  <2>4. Moves(w, "unapply", j)
    BY <1>5, MovesTo DEF Commit
  <2> HIDE DEF j
  <2>5. PlaceOK("unapply", j)
    BY <1>1, <2>3, OfWorker DEF PlaceOK
  <2>6. "unapply" \in Places \ Locked /\ pc[w] \in Locked
    BY <1>1 DEF Places, Locked
  <2>7. rules' = t1 /\ EndTransaction /\ UNCHANGED <<nextId, live, flock, spent>>
    BY <1>5 DEF Commit
  <2>8. nextId' \in Nat \ {0}
    BY <2>7, OfWorker
  <2> QED
    BY <1>5, <2>3, <2>4, <2>5, <2>6, <2>7, <2>8, CommitStep
<1> HIDE DEF j
<1> QED
  BY <1>3, <1>4, <1>5

LEMMA DisableStep ==
  ASSUME Inv, NEW w \in Workers, Disable(w)
  PROVE  StepOK(w)
<1> DEFINE id  == job[w].req.id
           t   == job[w].snap
           row == [t[id] EXCEPT !.enabled = FALSE]
           t1  == Updated(rules, id, row)
           present == id \in DOMAIN t /\ t[id].enabled
<1>1. TakeOut(w, "disable", present, t1)
  BY DEF Disable
<1>2. pc[w] = "decide"
  BY <1>1 DEF TakeOut, Deciding
<1>3. ASSUME id \in DOMAIN t
      PROVE  FiniteTable(t1) /\ OneBlockRow(t1) /\ \A i \in DOMAIN t1 : i < nextId
  <2>1. t[id] \in Row
    BY <1>3, OfWorker DEF FiniteTable, IsTable
  <2>2. row \in Row /\ row.shape = t[id].shape
    BY <2>1 DEF Row
  <2>3. id \in DOMAIN rules => row.shape = rules[id].shape
    BY <1>2, <1>3, <2>2, OfWorker DEF Covers
  <2> HIDE DEF row, id
  <2>4. FiniteTable(t1) /\ DOMAIN t1 = DOMAIN rules
    BY <2>2, OfWorker, TableUpdated
  <2>5. OneBlockRow(t1)
    BY <2>3, OfWorker, BlockRowsUpdated
  <2> QED
    BY <2>4, <2>5 DEF Inv, SharedOK
<1> HIDE DEF t1
<1> QED
  BY <1>1, <1>3, TakeOutStep

LEMMA DeleteStep ==
  ASSUME Inv, NEW w \in Workers, Delete(w)
  PROVE  StepOK(w)
<1> DEFINE id == job[w].req.id
           t1 == Without(rules, id)
           present == id \in DOMAIN job[w].snap
<1>1. TakeOut(w, "delete", present, t1)
  BY DEF Delete
<1>2. FiniteTable(rules) /\ OneBlockRow(rules)
  BY OfWorker
<1>3. FiniteTable(t1) /\ DOMAIN t1 \subseteq DOMAIN rules
  <2> HIDE DEF id
  <2> QED BY <1>2, TableWithout
<1>4. OneBlockRow(t1)
  BY <1>2, BlockRowsWithout
<1>5. \A i \in DOMAIN t1 : i < nextId
  BY <1>3 DEF Inv, SharedOK
<1> HIDE DEF t1
<1> QED
  BY <1>1, <1>3, <1>4, <1>5, TakeOutStep

LEMMA ReorderStep ==
  ASSUME Inv, NEW w \in Workers, Reorder(w)
  PROVE  StepOK(w)
<1> DEFINE r == job[w].req
           t == job[w].snap
           pos == ReorderPosition(t, r.id, r.target, r.place)
           moved == [t[r.id] EXCEPT !.pos = pos]
           chains == ToSet(ChainsFor(t[r.id].shape.kind))
<1>1. pc[w] = "decide" /\ r.op = "reorder" /\ r \in Requests
  BY OfWorker DEF Reorder, Deciding, PlaceOK
<1>2. r.id \in Nat /\ r.target \in Nat /\ r.place \in {"before", "after"}
  BY <1>1, RequestsAssumption DEF Request
<1>3. \/ Decline(w)
      \/ /\ r.id \in DOMAIN t /\ r.target \in Siblings(t, r.id) /\ UNCHANGED nextId
         /\ \E order \in Orders(chains) :
               Commit(w, Updated(rules, r.id, moved), "flock",
                      [job[w] EXCEPT !.id = r.id, !.chains = order])
  BY DEF Reorder
<1>4. CASE Decline(w)
  BY <1>1, <1>4, DeclineStep
<1>5. ASSUME r.id \in DOMAIN t, r.target \in Siblings(t, r.id), UNCHANGED nextId,
             NEW order \in Orders(chains),
             Commit(w, Updated(rules, r.id, moved), "flock",
                    [job[w] EXCEPT !.id = r.id, !.chains = order])
      PROVE  StepOK(w)
  <2> DEFINE j == [job[w] EXCEPT !.id = r.id, !.chains = order]
  <2>1. r.target \in DOMAIN t /\ t[r.id] \in Row /\ t[r.id].shape.kind \in Kinds
    BY <1>5, OfWorker DEF Siblings, FiniteTable, IsTable, Row, Shape
  <2>2. pos \in Int
    BY <1>2, <1>5, <2>1, OfWorker, ReorderPositionType
  <2> HIDE DEF pos
  <2>3. moved \in Row /\ moved.shape = t[r.id].shape
    BY <2>1, <2>2 DEF Row
  <2>4. chains \subseteq Chains /\ chains # {}
    <3>1. ChainsFor(t[r.id].shape.kind) \in Seq(Chains)
      BY <2>1, ChainsForType
    <3>2. chains \subseteq Chains
      BY <3>1, ToSetType
    <3>3. \E c \in Chains : c \in chains
      BY <1>5 DEF Siblings, InChain
    <3> QED
      BY <3>2, <3>3
  <2> HIDE DEF chains
  <2>5. order \in Seq(Chains) /\ order # <<>>
    BY <1>5, <2>4, OrdersType
  <2>6. IsJob(j) /\ j.req = r /\ j.snap = t /\ j.chains = order
    BY <1>2, <2>5, OfWorker DEF IsJob, NoJob
  <2>7. Moves(w, "flock", j)
    BY <1>5, MovesTo DEF Commit
  <2> HIDE DEF j
  <2>8. PlaceOK("flock", j)
    BY <1>1, <2>5, <2>6, OfWorker DEF PlaceOK
  <2>9. "flock" \in Places \ Locked
    BY DEF Places, Locked
  <2>10. rules' = Updated(rules, r.id, moved) /\ EndTransaction /\ UNCHANGED <<live, flock, spent>>
    BY <1>5 DEF Commit
  <2> HIDE DEF moved
  <2> QED
    BY <1>1, <1>5, <2>3, <2>6, <2>7, <2>8, <2>9, <2>10, CommitUpdateStep
<1> HIDE DEF moved, chains
<1> QED
  BY <1>3, <1>4, <1>5

LEMMA UnblockStep ==
  ASSUME Inv, NEW w \in Workers, Unblock(w)
  PROVE  StepOK(w)
<1> DEFINE t == job[w].snap
           blocks == BlockRows(t, job[w].req.shape.client)
<1>1. pc[w] = "decide"
  BY DEF Unblock, Deciding
<1>2. CASE Decline(w)
  BY <1>1, <1>2, DeclineStep
<1>3. ASSUME NEW i \in blocks,
             job' = [job EXCEPT ![w].id = i, ![w].cmds = Unapply(i, t[i].shape)],
             Goto(w, "unblock"), UNCHANGED <<rules, nextId, live, advisory, flock, spent>>
      PROVE  StepOK(w)
  <2> DEFINE j == [job[w] EXCEPT !.id = i, !.cmds = Unapply(i, t[i].shape)]
  <2>1. i \in Nat /\ t[i].shape \in Shape
    BY OfWorker DEF BlockRows, FiniteTable, IsTable, Row
  <2>2. IsJob(j) /\ j.req = job[w].req /\ j.snap = t
    BY <2>1, OfWorker, ApplyTypes DEF IsJob, NoJob
  <2>3. DOMAIN job' = Workers /\ job'[w] = j /\ \A v \in Workers \ {w} : job'[v] = job[v]
    BY <1>3 DEF Inv
  <2>4. Moves(w, "unblock", j)
    BY <1>3, <2>3 DEF Moves, Goto
  <2> HIDE DEF j
  <2>5. PlaceOK("unblock", j)
    BY <1>1, <2>2, OfWorker DEF PlaceOK
  <2>6. "unblock" \in Places /\ pc[w] \in Locked
    BY <1>1 DEF Places, Locked
  <2> QED
    BY <1>3, <2>2, <2>4, <2>5, <2>6, OfWorker, QuietStep
<1> QED
  BY <1>2, <1>3 DEF Unblock

LEMMA UnblockCommitStep ==
  ASSUME Inv, NEW w \in Workers, UnblockCommit(w)
  PROVE  StepOK(w)
<1>1. Moves(w, "idle", NoJob)
  BY MovesTo DEF UnblockCommit
<1>2. FiniteTable(rules') /\ DOMAIN rules' \subseteq DOMAIN rules
  <2>1. rules' = Without(rules, job[w].id)
    BY DEF UnblockCommit
  <2>2. FiniteTable(rules)
    BY OfWorker
  <2>3. /\ FiniteTable(Without(rules, job[w].id))
        /\ DOMAIN Without(rules, job[w].id) = DOMAIN rules \ {job[w].id}
    BY <2>2, TableWithout, Zenon
  <2> QED
    BY <2>1, <2>3
<1>3. OneBlockRow(rules')
  BY OfWorker, BlockRowsWithout DEF UnblockCommit
<1>4. UNCHANGED <<nextId, live, flock, spent>> /\ EndTransaction /\ pc[w] \in Locked
  BY DEF UnblockCommit, Locked
<1>5. nextId' \in Nat \ {0} /\ \A i \in DOMAIN rules' : i < nextId'
  BY <1>2, <1>4 DEF Inv, SharedOK
<1>6. "idle" \in Places \ Locked
  BY DEF Places, Locked
<1> QED
  BY <1>1, <1>2, <1>3, <1>4, <1>5, <1>6, EmptyJob, CommitStep

-----------------------------------------------------------------------------
\* The unlocked insert.

LEMMA ReadMaxStep ==
  ASSUME Inv, NEW w \in Workers, ReadMax(w)
  PROVE  StepOK(w)
<1> DEFINE j == [job[w] EXCEPT !.pos = NextPosition(rules)]
<1>1. Moves(w, "insert", j)
  BY DEF ReadMax, Inv, Moves, Goto
<1>2. UNCHANGED <<rules, nextId, live, advisory, flock, spent>> /\ pc[w] = "max"
  BY DEF ReadMax
<1>3. NextPosition(rules) \in Int
  BY OfWorker, NextPositionLast
<1>4. IsJob(j) /\ j.req = job[w].req /\ j.snap = job[w].snap
  BY <1>3, OfWorker DEF IsJob, NoJob
<1> HIDE DEF j
<1>5. PlaceOK("insert", j)
  BY <1>2, <1>4, OfWorker DEF PlaceOK
<1>6. "insert" \in Places \ Locked /\ "insert" # "decide"
  BY DEF Places, Locked
<1> QED
  BY <1>1, <1>2, <1>4, <1>5, <1>6, OfWorker, QuietStep

\* An unlocked insert of a row that is not a client block.
LEMMA InsertStepOK ==
  ASSUME Inv, NEW w \in Workers, NEW row \in Row, ~IsBlock(row.shape),
         rules' = With(rules, nextId, row), nextId' = nextId + 1,
         UNCHANGED <<live, advisory, flock, spent>>,
         NEW p \in Places \ Locked, NEW j, Moves(w, p, j), IsJob(j), PlaceOK(p, j)
  PROVE  StepOK(w)
<1>1. FiniteTable(rules') /\ DOMAIN rules' = DOMAIN rules \cup {nextId}
  BY OfWorker, TableWith
<1>2. OneBlockRow(rules')
  BY OfWorker, BlockRowsWith
<1>3. nextId \in Nat \ {0} /\ \A i \in DOMAIN rules : i \in Nat /\ i < nextId
  BY DEF Inv, SharedOK, FiniteTable, IsTable
<1>4. nextId' \in Nat \ {0} /\ \A i \in DOMAIN rules' : i < nextId'
  BY <1>1, <1>3
<1>5. SharedOK'
  BY <1>1, <1>4 DEF Inv, SharedOK
<1>6. TableStep(w)
  BY DEF TableStep
<1>7. p \notin Locked /\ p # "decide"
  BY DEF Locked
<1> QED
  BY <1>2, <1>5, <1>6, <1>7 DEF StepOK

\* An unlocked delete.
LEMMA DropStepOK ==
  ASSUME Inv, NEW w \in Workers, NEW id \in Nat,
         rules' = Without(rules, id), UNCHANGED <<nextId, live, advisory, flock, spent>>,
         NEW p \in Places \ Locked, NEW j, Moves(w, p, j), IsJob(j), PlaceOK(p, j)
  PROVE  StepOK(w)
<1>1. FiniteTable(rules') /\ DOMAIN rules' \subseteq DOMAIN rules
  BY OfWorker, TableWithout
<1>2. OneBlockRow(rules')
  BY OfWorker, BlockRowsWithout
<1>3. SharedOK'
  BY <1>1 DEF Inv, SharedOK
<1>4. TableStep(w)
  BY DEF TableStep
<1>5. p \notin Locked /\ p # "decide"
  BY DEF Locked
<1> QED
  BY <1>2, <1>3, <1>4, <1>5 DEF StepOK

LEMMA InsertStep ==
  ASSUME Inv, NEW w \in Workers, Insert(w)
  PROVE  StepOK(w)
<1> DEFINE shape == job[w].req.shape
           row == [shape |-> shape, enabled |-> TRUE, pos |-> job[w].pos]
           j == [job[w] EXCEPT !.id = nextId, !.cmds = Apply(nextId, shape)]
<1>1. pc[w] = "insert" /\ job[w].req.op = "add" /\ job[w].req \in Requests
  BY OfWorker DEF Insert, PlaceOK
<1>2. shape \in Shape /\ shape.kind \notin {"client_block", "other"}
  BY <1>1, RequestsAssumption DEF Request
<1>3. /\ rules' = With(rules, nextId, row) /\ nextId' = nextId + 1
      /\ UNCHANGED <<live, advisory, flock, spent>>
  BY DEF Insert
<1>4. DOMAIN job' = Workers /\ job'[w] = j /\ \A v \in Workers \ {w} : job'[v] = job[v]
  BY DEF Insert, Inv
<1>5. Moves(w, "apply", j)
  BY <1>4 DEF Insert, Moves, Goto
<1> HIDE DEF shape
<1>6. row \in Row /\ ~IsBlock(row.shape)
  BY <1>2, OfWorker DEF Row, IsBlock, IsJob
<1>7. nextId \in Nat /\ Apply(nextId, shape) \in Seq(Command)
  BY <1>2, OfWorker, ApplyTypes
<1>8. IsJob(j) /\ j.req = job[w].req /\ j.snap = job[w].snap
  BY <1>7, OfWorker DEF IsJob, NoJob
<1> HIDE DEF j, row
<1>9. PlaceOK("apply", j)
  BY <1>1, <1>8, OfWorker DEF PlaceOK
<1>10. "apply" \in Places \ Locked
  BY DEF Places, Locked
<1> QED
  BY <1>3, <1>5, <1>6, <1>8, <1>9, <1>10, InsertStepOK

-----------------------------------------------------------------------------
\* Commands.

LEMMA RunCommandStep ==
  ASSUME Inv, NEW w \in Workers, RunCommand(w)
  PROVE  StepOK(w)
<1> DEFINE c == Head(job[w].cmds)
           j == [job[w] EXCEPT !.cmds = Tail(job[w].cmds)]
<1>1. c \in Command /\ Tail(job[w].cmds) \in Seq(Command)
  BY OfWorker, HeadTailProperties DEF RunCommand, IsJob
<1>2. DOMAIN job' = Workers /\ job'[w] = j /\ \A v \in Workers \ {w} : job'[v] = job[v]
  BY DEF RunCommand, Inv
<1>3. Moves(w, pc[w], j)
  BY <1>2 DEF RunCommand, Moves, Inv
<1>4. IsJob(j) /\ PlaceOK(pc[w], j)
  BY <1>1, OfWorker DEF IsJob, NoJob, PlaceOK
<1>5. live' = Executed(c) /\ UNCHANGED <<rules, nextId, advisory, flock, spent>> /\ pc[w] \in Running
  BY DEF RunCommand
<1> HIDE DEF c, j
<1>6. live' \in [Chains -> Seq(Entry)]
  BY <1>1, <1>5, OfWorker, ExecutedType
<1>7. pc[w] \in Places /\ pc[w] # "decide"
  BY <1>5 DEF Inv, Running
<1> QED
  BY <1>3, <1>4, <1>5, <1>6, <1>7, OfWorker, QuietStep

LEMMA AbortRebuildStep ==
  ASSUME Inv, NEW w \in Workers, pc[w] \in {"list", "strip", "fill"}, AbortRebuild(w),
         UNCHANGED <<rules, nextId, live, advisory, spent>>
  PROVE  StepOK(w)
<1> DEFINE j == [job[w] EXCEPT !.chains = Tail(job[w].chains), !.cmds = <<>>]
<1>0. live' \in [Chains -> Seq(Entry)] /\ flock' \in Workers \cup {None}
  BY OfWorker DEF AbortRebuild
<1>1. CASE Finish(w)
  BY <1>0, <1>1, FinishStep
<1>2. CASE /\ Tail(job[w].chains) # <<>> /\ Goto(w, "flock")
           /\ job' = [job EXCEPT ![w].chains = Tail(@), ![w].cmds = <<>>]
  <2>1. DOMAIN job' = Workers /\ job'[w] = j /\ \A v \in Workers \ {w} : job'[v] = job[v]
    BY <1>2 DEF Inv
  <2>2. Moves(w, "flock", j)
    BY <1>2, <2>1 DEF Moves, Goto
  <2>3. job[w].chains # <<>> /\ job[w].chains \in Seq(Chains)
    BY OfWorker DEF PlaceOK, IsJob
  <2>4. Tail(job[w].chains) \in Seq(Chains)
    BY <2>3, HeadTailProperties
  <2>5. <<>> \in Seq(Command)
    BY EmptySeq
  <2>6. IsJob(j) /\ j.req = job[w].req /\ j.snap = job[w].snap /\ j.chains # <<>>
    BY <1>2, <2>4, <2>5, OfWorker DEF IsJob, NoJob
  <2> HIDE DEF j
  <2>7. PlaceOK("flock", j)
    BY <2>6, OfWorker DEF PlaceOK
  <2>8. "flock" \in Places \ Locked /\ "flock" # "decide"
    BY DEF Places, Locked
  <2> QED
    BY <1>0, <2>2, <2>6, <2>7, <2>8, QuietStep
<1> QED
  BY <1>1, <1>2 DEF AbortRebuild

LEMMA FailCommandStep ==
  ASSUME Inv, NEW w \in Workers, FailCommand(w)
  PROVE  StepOK(w)
<1> DEFINE c == Head(job[w].cmds)
           rest == SubSeq(job[w].cmds, 2 + c.skip, Len(job[w].cmds))
<1>0. UNCHANGED <<rules, nextId, live, spent>>
  BY DEF FailCommand
<1>1. job[w].cmds \in Seq(Command) /\ job[w].cmds # <<>>
  BY OfWorker DEF FailCommand, IsJob
<1>2. rest \in Seq(Command)
  <2>1. c.skip \in Nat
    <3>1. c \in Command
      BY <1>1, HeadTailProperties
    <3> HIDE DEF c
    <3> QED
      BY <3>1 DEF Command
  <2> DEFINE s == job[w].cmds
             n == 2 + c.skip
  <2>2. n \in Int /\ n >= 1 /\ s \in Seq(Command)
    BY <1>1, <2>1
  <2> HIDE DEF s, n
  <2>3. SubSeq(s, n, Len(s)) \in Seq(Command)
    BY <2>2, SubSeqProperties
  <2> QED
    BY <2>3 DEF s, n
<1>3. CASE /\ pc[w] = "apply" /\ Goto(w, "undo")
           /\ job' = [job EXCEPT ![w].cmds = <<>>] /\ UNCHANGED <<advisory, flock>>
  <2> DEFINE j == [job[w] EXCEPT !.cmds = <<>>]
  <2>1. Moves(w, "undo", j)
    BY <1>3 DEF Inv, Moves, Goto
  <2>2. <<>> \in Seq(Command)
    BY EmptySeq
  <2>3. IsJob(j) /\ PlaceOK("undo", j)
    BY <1>3, <2>2, OfWorker DEF IsJob, NoJob, PlaceOK
  <2>4. "undo" \in Places \ Locked /\ "undo" # "decide"
    BY DEF Places, Locked
  <2> HIDE DEF j
  <2> QED
    BY <1>0, <1>3, <2>1, <2>3, <2>4, OfWorker, QuietStep
<1>4. CASE /\ pc[w] \in {"unapply", "sync"}
           /\ job' = [job EXCEPT ![w].cmds = SubSeq(@, 2 + c.skip, Len(@))]
           /\ UNCHANGED <<pc, advisory, flock>>
  <2> DEFINE j == [job[w] EXCEPT !.cmds = rest]
  <2>1. DOMAIN job' = Workers /\ job'[w] = j /\ \A v \in Workers \ {w} : job'[v] = job[v]
    BY <1>4 DEF Inv
  <2>2. Moves(w, pc[w], j)
    BY <1>4, <2>1 DEF Inv, Moves
  <2> HIDE DEF rest
  <2>3. IsJob(j) /\ PlaceOK(pc[w], j)
    BY <1>2, <1>4, OfWorker DEF IsJob, NoJob, PlaceOK
  <2>4. pc[w] \in Places \ Locked /\ pc[w] # "decide"
    BY <1>4 DEF Places, Locked
  <2> HIDE DEF j
  <2> QED
    BY <1>0, <1>4, <2>2, <2>3, <2>4, OfWorker, QuietStep
<1>5. CASE pc[w] = "enable" /\ Finish(w) /\ UNCHANGED <<advisory, flock>>
  BY <1>0, <1>5, OfWorker, FinishStep
<1>6. CASE pc[w] = "unblock" /\ EndTransaction /\ Finish(w) /\ UNCHANGED flock
  <2>1. advisory = w /\ advisory' = None
    BY <1>6, OfWorker DEF EndTransaction, Locked
  <2> QED
    BY <1>0, <1>6, <2>1, OfWorker, FinishStep
<1>7. CASE pc[w] \in {"strip", "fill"} /\ AbortRebuild(w) /\ UNCHANGED advisory
  BY <1>0, <1>7, AbortRebuildStep
<1> QED
  BY <1>3, <1>4, <1>5, <1>6, <1>7 DEF FailCommand

LEMMA AppliedStep ==
  ASSUME Inv, NEW w \in Workers, Applied(w)
  PROVE  StepOK(w)
BY OfWorker, FinishStep DEF Applied

LEMMA UndoStep ==
  ASSUME Inv, NEW w \in Workers, Undo(w)
  PROVE  StepOK(w)
<1>1. Moves(w, "idle", NoJob)
  BY MovesTo DEF Undo
<1>2. job[w].id \in Nat
  BY OfWorker DEF IsJob
<1>3. "idle" \in Places \ Locked
  BY DEF Places, Locked
<1> QED
  BY <1>1, <1>2, <1>3, EmptyJob, DropStepOK DEF Undo

-----------------------------------------------------------------------------
\* Synchronisation and rebuild.

LEMMA SyncStartStep ==
  ASSUME Inv, NEW w \in Workers, SyncStart(w)
  PROVE  StepOK(w)
<1> DEFINE needed == {c \in Chains : \E i \in Enabled(rules) : InChain(rules, i, c)}
<1>1. PICK order \in Orders(needed) :
        job' = [job EXCEPT ![w].cmds = SyncCommands(rules), ![w].chains = order]
  BY DEF SyncStart
<1> DEFINE j == [job[w] EXCEPT !.cmds = SyncCommands(rules), !.chains = order]
<1>2. order \in Seq(Chains)
  BY OrdersType
<1>3. SyncCommands(rules) \in Seq(Command)
  BY OfWorker, SyncType
<1>4. DOMAIN job' = Workers /\ job'[w] = j /\ \A v \in Workers \ {w} : job'[v] = job[v]
  BY <1>1 DEF Inv
<1>5. Moves(w, "sync", j)
  BY <1>4 DEF SyncStart, Moves, Goto
<1>6. IsJob(j) /\ j.req = job[w].req /\ j.snap = job[w].snap
  BY <1>2, <1>3, OfWorker DEF IsJob, NoJob
<1> HIDE DEF j
<1>7. PlaceOK("sync", j)
  BY <1>6, OfWorker DEF PlaceOK, SyncStart
<1>8. "sync" \in Places \ Locked /\ "sync" # "decide"
  BY DEF Places, Locked
<1>9. UNCHANGED <<rules, nextId, live, advisory, flock, spent>>
  BY DEF SyncStart
<1> QED
  BY <1>5, <1>6, <1>7, <1>8, <1>9, OfWorker, QuietStep

LEMMA SyncBlocksDoneStep ==
  ASSUME Inv, NEW w \in Workers, SyncBlocksDone(w)
  PROVE  StepOK(w)
<1>1. UNCHANGED <<rules, nextId, live, advisory, flock, spent>> /\ pc[w] = "sync"
  BY DEF SyncBlocksDone
<1>2. CASE Finish(w)
  BY <1>1, <1>2, OfWorker, FinishStep
<1>3. CASE job[w].chains # <<>> /\ Goto(w, "flock") /\ UNCHANGED job
  <2>1. Moves(w, "flock", job[w])
    BY <1>3, MovesTo
  <2>2. PlaceOK("flock", job[w])
    BY <1>1, <1>3, OfWorker DEF PlaceOK
  <2>3. "flock" \in Places \ Locked /\ "flock" # "decide"
    BY DEF Places, Locked
  <2> QED
    BY <1>1, <2>1, <2>2, <2>3, OfWorker, QuietStep
<1> QED
  BY <1>2, <1>3 DEF SyncBlocksDone

LEMMA TakeFlockStep ==
  ASSUME Inv, NEW w \in Workers, TakeFlock(w)
  PROVE  StepOK(w)
<1> DEFINE p == IF job[w].req.op = "discover" THEN "snapshot" ELSE "list"
<1>1. Moves(w, p, job[w])
  BY MovesTo DEF TakeFlock
<1>2. UNCHANGED <<rules, nextId, live, advisory, spent>> /\ pc[w] = "flock" /\ flock' = w
  BY DEF TakeFlock
<1>3. PlaceOK(p, job[w])
  BY <1>2, OfWorker DEF PlaceOK
<1>4. p \in Places \ Locked /\ p # "decide"
  BY DEF Places, Locked
<1> HIDE DEF p
<1> QED
  BY <1>1, <1>2, <1>3, <1>4, OfWorker, QuietStep

LEMMA ListChainStep ==
  ASSUME Inv, NEW w \in Workers, ListChain(w)
  PROVE  StepOK(w)
<1> DEFINE chain == Head(job[w].chains)
           j == [job[w] EXCEPT !.cmds = StripCommands(chain)]
<1>1. UNCHANGED <<rules, nextId, live, advisory, flock, spent>> /\ pc[w] = "list"
  BY DEF ListChain
<1>2. chain \in Chains
  BY <1>1, OfWorker, HeadTailProperties DEF PlaceOK, IsJob
<1>3. StripCommands(chain) \in Seq(Command)
  BY <1>2, OfWorker, StripType
<1>4. Moves(w, "strip", j)
  BY DEF ListChain, Inv, Moves, Goto
<1>5. /\ IsJob(j) /\ j.req = job[w].req /\ j.snap = job[w].snap
      /\ j.chains = job[w].chains
  BY <1>3, OfWorker DEF IsJob, NoJob
<1> HIDE DEF j
<1>6. PlaceOK("strip", j)
  BY <1>1, <1>5, OfWorker DEF PlaceOK
<1>7. "strip" \in Places \ Locked /\ "strip" # "decide"
  BY DEF Places, Locked
<1> QED
  BY <1>1, <1>4, <1>5, <1>6, <1>7, OfWorker, QuietStep

LEMMA ListFailsStep ==
  ASSUME Inv, NEW w \in Workers, ListFails(w)
  PROVE  StepOK(w)
BY AbortRebuildStep DEF ListFails

LEMMA ReloadRulesStep ==
  ASSUME Inv, NEW w \in Workers, ReloadRules(w)
  PROVE  StepOK(w)
<1> DEFINE chain == Head(job[w].chains)
           j == [job[w] EXCEPT !.cmds = FillCommands(rules, chain)]
<1>1. UNCHANGED <<rules, nextId, live, advisory, flock, spent>> /\ pc[w] = "strip"
  BY DEF ReloadRules
<1>2. chain \in Chains
  BY <1>1, OfWorker, HeadTailProperties DEF PlaceOK, IsJob
<1>3. FillCommands(rules, chain) \in Seq(Command)
  BY <1>2, OfWorker, FillType
<1>4. Moves(w, "fill", j)
  BY DEF ReloadRules, Inv, Moves, Goto
<1>5. /\ IsJob(j) /\ j.req = job[w].req /\ j.snap = job[w].snap
      /\ j.chains = job[w].chains
  BY <1>3, OfWorker DEF IsJob, NoJob
<1> HIDE DEF j
<1>6. PlaceOK("fill", j)
  BY <1>1, <1>5, OfWorker DEF PlaceOK
<1>7. "fill" \in Places \ Locked /\ "fill" # "decide"
  BY DEF Places, Locked
<1> QED
  BY <1>1, <1>4, <1>5, <1>6, <1>7, OfWorker, QuietStep

LEMMA ChainRebuiltStep ==
  ASSUME Inv, NEW w \in Workers, ChainRebuilt(w)
  PROVE  StepOK(w)
<1> DEFINE rest == Tail(job[w].chains)
           p == IF job[w].req.op = "discover" THEN "list" ELSE "flock"
           j == [job[w] EXCEPT !.chains = rest]
<1>1. UNCHANGED <<rules, nextId, live, advisory, spent>> /\ pc[w] = "fill"
        /\ flock' \in Workers \cup {None}
  BY DEF ChainRebuilt
<1>2. CASE Finish(w)
  BY <1>1, <1>2, OfWorker, FinishStep
<1>3. CASE rest # <<>> /\ Goto(w, p) /\ job' = [job EXCEPT ![w].chains = rest]
  <2>1. rest \in Seq(Chains)
    BY <1>1, OfWorker, HeadTailProperties DEF PlaceOK, IsJob
  <2>2. Moves(w, p, j)
    BY <1>3 DEF Inv, Moves, Goto
  <2>3. /\ IsJob(j) /\ j.req = job[w].req /\ j.snap = job[w].snap
        /\ j.chains = rest
    BY <2>1, OfWorker DEF IsJob, NoJob
  <2>4. p \in {"list", "flock"} /\ p \in Places \ Locked /\ p # "decide"
    BY DEF Places, Locked
  <2> HIDE DEF p, j, rest
  <2>5. PlaceOK(p, j)
    BY <1>1, <1>3, <2>3, <2>4, OfWorker DEF PlaceOK
  <2> QED
    BY <1>1, <2>2, <2>3, <2>4, <2>5, OfWorker, QuietStep
<1> QED
  BY <1>2, <1>3 DEF ChainRebuilt

-----------------------------------------------------------------------------
\* Discovery.

LEMMA SnapshotStep ==
  ASSUME Inv, NEW w \in Workers, Snapshot(w)
  PROVE  StepOK(w)
<1> DEFINE scan == <<"FORWARD", "INPUT", "PREROUTING", "POSTROUTING">>
           j == [job[w] EXCEPT !.snap = rules, !.scan = scan]
<1>1. UNCHANGED <<rules, nextId, live, advisory, flock, spent>> /\ pc[w] = "snapshot"
  BY DEF Snapshot
<1>2. scan \in Seq(Chains)
  BY DEF Chains
<1>3. DOMAIN job' = Workers /\ job'[w] = j /\ \A v \in Workers \ {w} : job'[v] = job[v]
  BY DEF Snapshot, Inv
<1>4. Moves(w, "scan", j)
  BY <1>3 DEF Snapshot, Moves, Goto
<1> HIDE DEF scan
<1>5. IsJob(j) /\ j.req = job[w].req /\ j.snap = rules
  BY <1>2, OfWorker DEF IsJob, NoJob, FiniteTable
<1> HIDE DEF j
<1>6. PlaceOK("scan", j)
  BY <1>1, <1>5, OfWorker DEF PlaceOK, FiniteTable
<1>7. "scan" \in Places \ Locked /\ "scan" # "decide"
  BY DEF Places, Locked
<1> QED
  BY <1>1, <1>4, <1>5, <1>6, <1>7, OfWorker, QuietStep

LEMMA ScanChainStep ==
  ASSUME Inv, NEW w \in Workers, ScanChain(w)
  PROVE  StepOK(w)
<1> DEFINE chain == Head(job[w].scan)
           t     == job[w].snap
           s     == live[chain]
           slots == [k \in DOMAIN s |-> IF Tracked(t, s[k]) THEN t[s[k].id].pos ELSE None]
           seen  == [k \in DOMAIN s |-> [entry |-> s[k], pos |-> NewPosition(slots, k)]]
           good  == {k \in DOMAIN seen : Adoptable(t, chain, seen[k].entry)}
           found == Selected(seen, good)
           Found == [entry : Entry, pos : Int]
           j     == [job[w] EXCEPT !.found = found]
<1>1. UNCHANGED <<rules, nextId, live, advisory, flock, spent>> /\ pc[w] = "scan"
        /\ job[w].scan # <<>>
  BY DEF ScanChain
<1>2. job' = [job EXCEPT ![w].found = found] /\ Goto(w, "adopt")
  BY DEF ScanChain
<1>3. chain \in Chains
  BY <1>1, OfWorker, HeadTailProperties DEF IsJob
<1>4. s \in Seq(Entry)
  BY <1>3, OfWorker
<1>5. \A i \in DOMAIN t : t[i].pos \in Int
  BY OfWorker DEF FiniteTable, IsTable, Row
<1> HIDE DEF s, t, chain
<1>6. slots \in [1..Len(s) -> Int \cup {None}] /\ Len(s) \in Nat
  <2>1. DOMAIN s = 1..Len(s) /\ Len(s) \in Nat
    BY <1>4
  <2>2. \A k \in DOMAIN s :
          (IF Tracked(t, s[k]) THEN t[s[k].id].pos ELSE None) \in Int \cup {None}
    BY <1>5, Zenon DEF Tracked
  <2>3. slots \in [DOMAIN s -> Int \cup {None}]
    BY <2>2, Zenon
  <2> QED
    BY <2>1, <2>3
<1> HIDE DEF slots
<1>7. \A k \in 1..Len(s) : NewPosition(slots, k) \in Int /\ s[k] \in Entry
  BY <1>4, <1>6, NewPositionType
<1>8. seen \in Seq(Found) /\ DOMAIN seen = 1..Len(s)
  <2>1. DOMAIN s = 1..Len(s) /\ Len(s) \in Nat
    BY <1>4
  <2>2. \A k \in 1..Len(s) : [entry |-> s[k], pos |-> NewPosition(slots, k)] \in Found
    BY <1>7
  <2> HIDE DEF Found
  <2>3. seen \in [1..Len(s) -> Found]
    BY <2>1, <2>2, Zenon
  <2> QED
    BY <2>1, <2>3
<1>9. /\ found \in Seq(Found)
      /\ \A k \in 1..Len(found) : \E i \in good : found[k] = seen[i]
  <2>1. good \subseteq DOMAIN seen
    OBVIOUS
  <2> HIDE DEF seen, good, Found
  <2> QED
    BY <1>8, <2>1, SelectedElements
<1>10. \A k \in 1..Len(found) :
         /\ ~IsBlock(found[k].entry.shape)
         /\ AdoptedAs(chain, found[k].entry.shape) # None
  <2> HIDE DEF found, seen
  <2> QED
    BY <1>9 DEF Adoptable
<1> HIDE DEF found
<1>11. DOMAIN job' = Workers /\ job'[w] = j /\ \A v \in Workers \ {w} : job'[v] = job[v]
  BY <1>2 DEF Inv
<1>12. Moves(w, "adopt", j)
  BY <1>2, <1>11 DEF Moves, Goto
<1>13. /\ IsJob(j) /\ j.req = job[w].req /\ j.snap = job[w].snap
       /\ j.scan = job[w].scan /\ j.found = found
  BY <1>9, OfWorker DEF IsJob, NoJob
<1> HIDE DEF j
<1>14. PlaceOK("adopt", j)
  BY <1>1, <1>10, <1>13, OfWorker DEF PlaceOK, chain
<1>15. "adopt" \in Places \ Locked /\ "adopt" # "decide"
  BY DEF Places, Locked
<1> QED
  BY <1>1, <1>12, <1>13, <1>14, <1>15, OfWorker, QuietStep

\* Handlers that only drop the head of a list they walk.
LEMMA ScanTail ==
  ASSUME Inv, NEW w \in Workers, pc[w] \in {"scan", "adopt"}, job[w].scan # <<>>,
         Goto(w, "scan"), job' = [job EXCEPT ![w].scan = Tail(@)],
         UNCHANGED <<rules, nextId, live, advisory, flock, spent>>
  PROVE  StepOK(w)
<1> DEFINE j == [job[w] EXCEPT !.scan = Tail(job[w].scan)]
<1>1. Tail(job[w].scan) \in Seq(Chains)
  BY OfWorker, HeadTailProperties DEF IsJob
<1>2. Moves(w, "scan", j)
  BY DEF Inv, Moves, Goto
<1>3. IsJob(j) /\ j.req = job[w].req /\ j.snap = job[w].snap
  BY <1>1, OfWorker DEF IsJob, NoJob
<1> HIDE DEF j
<1>4. PlaceOK("scan", j)
  BY <1>3, OfWorker DEF PlaceOK
<1>5. "scan" \in Places \ Locked /\ "scan" # "decide"
  BY DEF Places, Locked
<1> QED
  BY <1>2, <1>3, <1>4, <1>5, OfWorker, QuietStep

LEMMA ScanFailsStep ==
  ASSUME Inv, NEW w \in Workers, ScanFails(w)
  PROVE  StepOK(w)
<1>1. Goto(w, "scan")
  BY DEF ScanFails, Goto, Inv
<1> QED
  BY <1>1, ScanTail DEF ScanFails

LEMMA ChainScannedStep ==
  ASSUME Inv, NEW w \in Workers, ChainScanned(w)
  PROVE  StepOK(w)
<1>1. pc[w] = "adopt" /\ job[w].scan # <<>>
  BY OfWorker DEF ChainScanned, PlaceOK
<1> QED
  BY <1>1, ScanTail DEF ChainScanned

\* The rule being adopted.
LEMMA Adopting ==
  ASSUME Inv, NEW w \in Workers, pc[w] \in {"adopt", "claim", "drop"}, job[w].found # <<>>
  PROVE  LET f == Head(job[w].found)
             chain == Head(job[w].scan)
         IN  /\ chain \in Chains
             /\ f.entry \in Entry /\ f.pos \in Int
             /\ AdoptedAs(chain, f.entry.shape) \in Shape
             /\ AdoptedAs(chain, f.entry.shape).kind \notin {"client_block", "other"}
             /\ Tail(job[w].found) \in Seq([entry : Entry, pos : Int])
             /\ Len(Tail(job[w].found)) = Len(job[w].found) - 1
             /\ Len(job[w].found) \in Nat
             /\ \A k \in 1..Len(Tail(job[w].found)) : Tail(job[w].found)[k] = job[w].found[k + 1]
<1> DEFINE f == Head(job[w].found)
           chain == Head(job[w].scan)
           found == job[w].found
           Found == [entry : Entry, pos : Int]
<1>1. found \in Seq(Found) /\ found # <<>> /\ job[w].scan \in Seq(Chains)
        /\ job[w].scan # <<>>
  BY OfWorker DEF IsJob, PlaceOK
<1>2. /\ ~IsBlock(found[1].entry.shape)
      /\ AdoptedAs(chain, found[1].entry.shape) # None
  <2>1. 1 \in 1..Len(found)
    BY <1>1, EmptySeq
  <2> QED
    BY <2>1, OfWorker DEF PlaceOK
<1>3. f = found[1]
  BY <1>1
<1>4. /\ f \in Found /\ Tail(found) \in Seq(Found) /\ Len(Tail(found)) = Len(found) - 1
      /\ \A k \in 1..Len(Tail(found)) : Tail(found)[k] = found[k + 1]
  <2> HIDE DEF Found, found
  <2> QED BY <1>1, HeadTailProperties DEF found
<1>5. chain \in Chains
  BY <1>1, HeadTailProperties
<1>6. f.entry \in Entry /\ f.pos \in Int /\ f.entry.shape \in Shape
  <2> HIDE DEF f
  <2> QED BY <1>4 DEF Entry
<1>7. Len(found) \in Nat
  BY <1>1
<1> HIDE DEF f, chain, found
<1>8. /\ AdoptedAs(chain, f.entry.shape) \in Shape
      /\ AdoptedAs(chain, f.entry.shape).kind \notin {"client_block", "other"}
  BY <1>2, <1>3, <1>5, <1>6, AdoptedShape
<1> QED
  BY <1>4, <1>5, <1>6, <1>7, <1>8 DEF f, chain, found

LEMMA AdoptStep ==
  ASSUME Inv, NEW w \in Workers, Adopt(w)
  PROVE  StepOK(w)
<1> DEFINE f == Head(job[w].found)
           shape == AdoptedAs(Head(job[w].scan), f.entry.shape)
           row == [shape |-> shape, enabled |-> TRUE, pos |-> f.pos]
           j == [job[w] EXCEPT !.id = nextId]
<1>1. /\ rules' = With(rules, nextId, row) /\ nextId' = nextId + 1
      /\ UNCHANGED <<live, advisory, flock, spent>> /\ pc[w] = "adopt" /\ job[w].found # <<>>
  BY DEF Adopt
<1>2. shape \in Shape /\ shape.kind \notin {"client_block", "other"} /\ f.pos \in Int
  BY <1>1, Adopting
<1>3. Moves(w, "claim", j)
  BY DEF Adopt, Inv, Moves, Goto
<1>4. nextId \in Nat
  BY OfWorker
<1> HIDE DEF shape, f
<1>5. row \in Row /\ ~IsBlock(row.shape)
  BY <1>2 DEF Row, IsBlock
<1>6. /\ IsJob(j) /\ j.req = job[w].req /\ j.snap = job[w].snap
      /\ j.scan = job[w].scan /\ j.found = job[w].found
  BY <1>4, OfWorker DEF IsJob, NoJob
<1> HIDE DEF j, row
<1>7. PlaceOK("claim", j)
  BY <1>1, <1>6, OfWorker DEF PlaceOK
<1>8. "claim" \in Places \ Locked
  BY DEF Places, Locked
<1> QED
  BY <1>1, <1>3, <1>5, <1>6, <1>7, <1>8, InsertStepOK

\* Going on to the next rule found leaves a good list.
LEMMA NextFound ==
  ASSUME Inv, NEW w \in Workers, pc[w] \in {"claim", "drop"}, NEW j,
         j.req = job[w].req, j.snap = job[w].snap, j.scan = job[w].scan,
         j.found = Tail(job[w].found)
  PROVE  PlaceOK("adopt", j)
<1>1. job[w].found # <<>> /\ job[w].scan # <<>> /\ PlaceOK(pc[w], job[w])
  BY OfWorker DEF PlaceOK
<1> DEFINE found == job[w].found
           rest == Tail(job[w].found)
<1>2. /\ Len(rest) = Len(found) - 1 /\ Len(found) \in Nat
      /\ \A k \in 1..Len(rest) : rest[k] = found[k + 1]
  BY <1>1, Adopting
<1>3. \A k \in 1..Len(found) :
        /\ ~IsBlock(found[k].entry.shape)
        /\ AdoptedAs(Head(job[w].scan), found[k].entry.shape) # None
  BY <1>1 DEF PlaceOK
<1> HIDE DEF found, rest
<1>4. \A k \in 1..Len(rest) :
        /\ ~IsBlock(rest[k].entry.shape)
        /\ AdoptedAs(Head(job[w].scan), rest[k].entry.shape) # None
  <2> SUFFICES ASSUME NEW k \in 1..Len(rest)
               PROVE  /\ ~IsBlock(rest[k].entry.shape)
                      /\ AdoptedAs(Head(job[w].scan), rest[k].entry.shape) # None
    OBVIOUS
  <2>1. k + 1 \in 1..Len(found) /\ rest[k] = found[k + 1]
    BY <1>2
  <2> QED
    BY <1>3, <2>1
<1> QED
  BY <1>1, <1>4 DEF PlaceOK, rest

LEMMA ClaimStep ==
  ASSUME Inv, NEW w \in Workers, Claim(w)
  PROVE  StepOK(w)
<1> DEFINE f == Head(job[w].found)
           c == [op |-> "-D", chain |-> Head(job[w].scan), entry |-> f.entry, skip |-> 0]
           kind == AdoptedAs(c.chain, f.entry.shape).kind
           touched == job[w].touched \cup ToSet(ChainsFor(kind))
           j == [job[w] EXCEPT !.found = Tail(job[w].found), !.touched = touched]
<1>1. pc[w] = "claim" /\ UNCHANGED <<rules, nextId, advisory, flock, spent>> /\ job[w].found # <<>>
  BY OfWorker DEF Claim, PlaceOK
<1>2. CASE /\ live' = Executed(c) /\ Goto(w, "adopt")
           /\ job' = [job EXCEPT ![w].found = Tail(@),
                         ![w].touched = @ \cup
                             ToSet(ChainsFor(AdoptedAs(c.chain, f.entry.shape).kind))]
  <2>1. /\ c \in Command /\ kind \in Kinds
        /\ Tail(job[w].found) \in Seq([entry : Entry, pos : Int])
    BY <1>1, Adopting DEF Command, Shape
  <2>2. DOMAIN job' = Workers /\ job'[w] = j /\ \A v \in Workers \ {w} : job'[v] = job[v]
    BY <1>2 DEF Inv
  <2>3. Moves(w, "adopt", j)
    BY <1>2, <2>2 DEF Moves, Goto
  <2> HIDE DEF kind, c
  <2>4. touched \in SUBSET Chains
    <3>1. ToSet(ChainsFor(kind)) \subseteq Chains
      BY <2>1, ChainsForType, ToSetType
    <3> QED
      BY <3>1, OfWorker DEF IsJob
  <2> HIDE DEF touched
  <2>5. /\ IsJob(j) /\ j.req = job[w].req /\ j.snap = job[w].snap
        /\ j.scan = job[w].scan /\ j.found = Tail(job[w].found)
    BY <2>1, <2>4, OfWorker DEF IsJob, NoJob
  <2> HIDE DEF j
  <2>6. PlaceOK("adopt", j)
    BY <1>1, <2>5, NextFound
  <2>7. live' \in [Chains -> Seq(Entry)]
    BY <1>2, <2>1, OfWorker, ExecutedType
  <2>8. "adopt" \in Places \ Locked /\ "adopt" # "decide"
    BY DEF Places, Locked
  <2> QED
    BY <1>1, <2>3, <2>5, <2>6, <2>7, <2>8, OfWorker, QuietStep
<1>3. CASE Goto(w, "drop") /\ UNCHANGED <<live, job>>
  <2>1. Moves(w, "drop", job[w])
    BY <1>3, MovesTo
  <2>2. PlaceOK("drop", job[w])
    BY <1>1, OfWorker DEF PlaceOK
  <2>3. "drop" \in Places \ Locked /\ "drop" # "decide"
    BY DEF Places, Locked
  <2> QED
    BY <1>1, <1>3, <2>1, <2>2, <2>3, OfWorker, QuietStep
<1> QED
  BY <1>2, <1>3 DEF Claim

LEMMA DropAdoptedStep ==
  ASSUME Inv, NEW w \in Workers, DropAdopted(w)
  PROVE  StepOK(w)
<1> DEFINE j == [job[w] EXCEPT !.found = Tail(job[w].found)]
<1>1. /\ pc[w] = "drop" /\ UNCHANGED <<nextId, live, advisory, flock, spent>>
      /\ rules' = Without(rules, job[w].id)
  BY DEF DropAdopted
<1>2. Tail(job[w].found) \in Seq([entry : Entry, pos : Int])
  <2>1. job[w].found # <<>>
    BY <1>1, OfWorker DEF PlaceOK
  <2> QED
    BY <1>1, <2>1, Adopting
<1>3. Moves(w, "adopt", j)
  BY DEF DropAdopted, Inv, Moves, Goto
<1>4. /\ IsJob(j) /\ j.req = job[w].req /\ j.snap = job[w].snap
      /\ j.scan = job[w].scan /\ j.found = Tail(job[w].found)
  BY <1>2, OfWorker DEF IsJob, NoJob
<1> HIDE DEF j
<1>5. PlaceOK("adopt", j)
  BY <1>1, <1>4, NextFound
<1>6. "adopt" \in Places \ Locked /\ job[w].id \in Nat
  BY OfWorker DEF Places, Locked, IsJob
<1> QED
  BY <1>1, <1>3, <1>4, <1>5, <1>6, DropStepOK

LEMMA AllScannedStep ==
  ASSUME Inv, NEW w \in Workers, AllScanned(w)
  PROVE  StepOK(w)
<1>1. UNCHANGED <<rules, nextId, live, advisory, spent>> /\ pc[w] = "scan"
        /\ flock' \in Workers \cup {None}
  BY OfWorker DEF AllScanned
<1>2. CASE Finish(w)
  BY <1>1, <1>2, OfWorker, FinishStep
<1>3. ASSUME job[w].touched # {}, NEW order \in Orders(job[w].touched),
             job' = [job EXCEPT ![w].chains = order], Goto(w, "list")
      PROVE  StepOK(w)
  <2> DEFINE j == [job[w] EXCEPT !.chains = order]
  <2>1. job[w].touched \subseteq Chains
    BY OfWorker DEF IsJob
  <2>2. order \in Seq(Chains) /\ order # <<>>
    BY <1>3, <2>1, OrdersType
  <2>3. Moves(w, "list", j)
    BY <1>3 DEF Inv, Moves, Goto
  <2>4. IsJob(j) /\ j.req = job[w].req /\ j.snap = job[w].snap /\ j.chains = order
    BY <2>2, OfWorker DEF IsJob, NoJob
  <2> HIDE DEF j
  <2>5. PlaceOK("list", j)
    BY <1>1, <2>2, <2>4, OfWorker DEF PlaceOK
  <2>6. "list" \in Places \ Locked /\ "list" # "decide"
    BY DEF Places, Locked
  <2> QED
    BY <1>1, <2>3, <2>4, <2>5, <2>6, OfWorker, QuietStep
<1> QED
  BY <1>2, <1>3 DEF AllScanned, UnlockedRebuild

-----------------------------------------------------------------------------
\* The environment.

LEMMA CrashStep ==
  ASSUME Inv, NEW w \in Workers, Crash(w)
  PROVE  StepOK(w)
<1>1. UNCHANGED <<rules, nextId, live>> /\ Finish(w)
  BY DEF Crash
<1>2. UNCHANGED advisory \/ (advisory = w /\ advisory' = None)
  BY DEF Crash
<1>3. flock' \in Workers \cup {None}
  BY OfWorker DEF Crash
<1>4. spent' \in [requests : 0..MaxRequests, manual : 0..MaxManual,
                  losses : 0..MaxLosses, crashes : 0..MaxCrashes]
  BY SpentType DEF Crash, Inv, SharedOK
<1> QED
  BY <1>1, <1>2, <1>3, <1>4, OfWorker, FinishStep

\* Hands on the live chains only touch them.
LEMMA LiveStep ==
  ASSUME Inv, UNCHANGED <<rules, nextId, advisory, flock, pc, job>>,
         live' \in [Chains -> Seq(Entry)],
         spent' \in [requests : 0..MaxRequests, manual : 0..MaxManual,
                     losses : 0..MaxLosses, crashes : 0..MaxCrashes]
  PROVE  Inv'
BY DEF Inv, SharedOK, OneBlockRow

LEMMA ManualAppendStep ==
  ASSUME Inv, NEW m \in ManualRules, ManualAppend(m[1], m[2])
  PROVE  Inv'
<1>1. m[1] \in Chains /\ [id |-> 0, shape |-> m[2]] \in Entry
  BY ManualAssumption DEF Entry
<1>2. live' \in [Chains -> Seq(Entry)]
  BY <1>1 DEF ManualAppend, Inv, SharedOK
<1>3. spent' \in [requests : 0..MaxRequests, manual : 0..MaxManual,
                  losses : 0..MaxLosses, crashes : 0..MaxCrashes]
  BY SpentType DEF ManualAppend, Inv, SharedOK
<1> QED
  BY <1>2, <1>3, LiveStep DEF ManualAppend

LEMMA ManualDeleteStep ==
  ASSUME Inv, NEW chain \in Chains, NEW k \in DOMAIN live[chain], ManualDelete(chain, k)
  PROVE  Inv'
<1> DEFINE s == live[chain]
<1>1. s \in Seq(Entry) /\ k \in 1..Len(s) /\ Len(s) \in Nat
  BY DEF Inv, SharedOK
<1> HIDE DEF s
<1>2. RemoveAt(s, k) \in Seq(Entry)
  <2>1. SubSeq(s, 1, k - 1) \in Seq(Entry) /\ SubSeq(s, k + 1, Len(s)) \in Seq(Entry)
    BY <1>1, SubSeqProperties
  <2> QED
    BY <2>1, ConcatProperties DEF RemoveAt
<1>3. live' \in [Chains -> Seq(Entry)]
  BY <1>2 DEF ManualDelete, Inv, SharedOK, s
<1>4. spent' \in [requests : 0..MaxRequests, manual : 0..MaxManual,
                  losses : 0..MaxLosses, crashes : 0..MaxCrashes]
  BY SpentType DEF ManualDelete, Inv, SharedOK
<1> QED
  BY <1>3, <1>4, LiveStep DEF ManualDelete

LEMMA FlushStep ==
  ASSUME Inv, Flush
  PROVE  Inv'
<1>1. live' \in [Chains -> Seq(Entry)]
  BY EmptySeq DEF Flush
<1>2. spent' \in [requests : 0..MaxRequests, manual : 0..MaxManual,
                  losses : 0..MaxLosses, crashes : 0..MaxCrashes]
  BY SpentType DEF Flush, Inv, SharedOK
<1> QED
  BY <1>1, <1>2, LiveStep DEF Flush

-----------------------------------------------------------------------------
\* The initial state: the live chains reflect the table.

LEMMA ReflectedTypes ==
  ASSUME NEW t, FiniteTable(t)
  PROVE  /\ BlockEntries(t) \in Seq(Entry)
         /\ \A c \in Chains : OrderedEntries(t, c) \in Seq(Entry)
<1>1. ASSUME NEW S, S \subseteq DOMAIN t
      PROVE  [k \in DOMAIN Ordered(t, S) |->
                 LiveEntry(Ordered(t, S)[k], t[Ordered(t, S)[k]].shape)] \in Seq(Entry)
  <2> DEFINE ids == Ordered(t, S)
             e(k) == LiveEntry(ids[k], t[ids[k]].shape)
  <2>1. IsFiniteSet(S)
    BY <1>1, FS_Subset DEF FiniteTable
  <2>2. ids \in Seq(S) /\ IsTable(t)
    BY <1>1, <2>1, OrderedElements DEF FiniteTable
  <2> HIDE DEF ids
  <2>3. DOMAIN ids = 1..Len(ids) /\ Len(ids) \in Nat /\ \A k \in 1..Len(ids) : ids[k] \in S
    BY <2>2
  <2>4. \A i \in DOMAIN t : LiveEntry(i, t[i].shape) \in Entry
    BY <2>2 DEF IsTable, Row, LiveEntry, Entry
  <2>5. \A k \in 1..Len(ids) : e(k) \in Entry
    BY <1>1, <2>3, <2>4
  <2> HIDE DEF e
  <2>6. [k \in DOMAIN ids |-> e(k)] \in Seq(Entry)
    BY <2>3, <2>5
  <2> QED
    BY <2>6 DEF e, ids
<1>2. BlockEntries(t) \in Seq(Entry)
  BY <1>1 DEF BlockEntries, Enabled
<1>3. \A c \in Chains : OrderedEntries(t, c) \in Seq(Entry)
  BY <1>1 DEF OrderedEntries, WantedIds, Enabled
<1> QED
  BY <1>2, <1>3

LEMMA ReflectionType ==
  ASSUME NEW t, FiniteTable(t)
  PROVE  Reflection(t) \in [Chains -> Seq(Entry)]
<1>1. BlockEntries(t) \in Seq(Entry) /\ \A c \in Chains : OrderedEntries(t, c) \in Seq(Entry)
  BY ReflectedTypes
<1>2. <<>> \in Seq(Entry)
  BY EmptySeq
<1>3. \A c \in Chains : (IF c \in {"FORWARD", "INPUT"} THEN BlockEntries(t) ELSE <<>>)
                          \o OrderedEntries(t, c) \in Seq(Entry)
  BY <1>1, <1>2, ConcatProperties
<1> QED
  BY <1>3, Zenon DEF Reflection

\* The identity sequence starts above every id in use.
LEMMA UnusedId ==
  ASSUME NEW D, D \subseteq Nat, IsFiniteSet(D)
  PROVE  /\ Max({0} \cup D) + 1 \in Nat \ {0}
         /\ \A i \in D : i < Max({0} \cup D) + 1
<1> DEFINE ids == {0} \cup D
           m   == Max(ids)
<1>1. IsFiniteSet({0})
  BY FS_Singleton
<1>2. IsFiniteSet(ids)
  BY <1>1, FS_Union
<1>3. ids \subseteq Nat /\ ids \subseteq Int /\ ids # {} /\ D \subseteq ids
  OBVIOUS
<1> HIDE DEF ids
<1>4. m \in ids /\ \A i \in ids : m >= i
  BY <1>2, <1>3, MaxOfFinite, Zenon
<1> HIDE DEF m
<1>5. m + 1 \in Nat \ {0} /\ \A i \in D : i < m + 1
  BY <1>3, <1>4
<1> QED
  BY <1>5 DEF m, ids

LEMMA InitInv == Init => Inv
<1> SUFFICES ASSUME Init
             PROVE  Inv
  OBVIOUS
<1>1. FiniteTable(rules) /\ OneBlockRow(rules)
  BY TablesAssumption DEF Init, FiniteTable, OneBlockRow
<1>2. nextId \in Nat \ {0} /\ \A i \in DOMAIN rules : i < nextId
  <2>1. DOMAIN rules \subseteq Nat /\ IsFiniteSet(DOMAIN rules)
    BY <1>1 DEF FiniteTable, IsTable
  <2> QED
    BY <2>1, UnusedId DEF Init
<1>3. live \in [Chains -> Seq(Entry)]
  BY <1>1, ReflectionType DEF Init
<1>4. spent \in [requests : 0..MaxRequests, manual : 0..MaxManual,
                 losses : 0..MaxLosses, crashes : 0..MaxCrashes]
  BY BoundsAssumption DEF Init
<1>5. SharedOK
  BY <1>1, <1>2, <1>3, <1>4 DEF Init, SharedOK
<1>6. pc \in [Workers -> Places] /\ \A w \in Workers : pc[w] = "idle"
  BY DEF Init, Places
<1>7. DOMAIN job = Workers /\ \A w \in Workers : job[w] = NoJob
  BY DEF Init
<1> QED
  BY <1>1, <1>5, <1>6, <1>7, EmptyJob DEF Inv, Locked

-----------------------------------------------------------------------------
\* Every step keeps the invariant.

LEMMA EveryStepOK ==
  ASSUME Inv, NEW w \in Workers, Step(w)
  PROVE  StepOK(w)
<1>1. ASSUME Transaction(w)
      PROVE  StepOK(w)
  BY <1>1, LockStep, LockTimeoutStep, ReadStep, AddInputStep, ToggleStep, DisableStep,
     DeleteStep, ReorderStep, BlockStep, UnblockStep, UnblockCommitStep DEF Transaction
<1>2. ASSUME UnlockedInsert(w)
      PROVE  StepOK(w)
  BY <1>2, ReadMaxStep, InsertStep DEF UnlockedInsert
<1>3. ASSUME Commands(w)
      PROVE  StepOK(w)
  BY <1>3, RunCommandStep, FailCommandStep, AppliedStep, UndoStep DEF Commands
<1>4. ASSUME Rebuild(w)
      PROVE  StepOK(w)
  BY <1>4, SyncStartStep, SyncBlocksDoneStep, TakeFlockStep, ListChainStep,
     ListFailsStep, ReloadRulesStep, ChainRebuiltStep DEF Rebuild
<1>5. ASSUME Discovery(w)
      PROVE  StepOK(w)
  BY <1>5, SnapshotStep, ScanChainStep, ScanFailsStep, AdoptStep, ClaimStep,
     DropAdoptedStep, ChainScannedStep, AllScannedStep DEF Discovery
<1> QED
  BY <1>1, <1>2, <1>3, <1>4, <1>5 DEF Step

LEMMA StepInv ==
  ASSUME Inv, NEW w \in Workers, Step(w)
  PROVE  Inv'
BY EveryStepOK, StepKeepsInv

LEMMA EnvironmentInv ==
  ASSUME Inv, Environment
  PROVE  Inv'
<1>1. ASSUME NEW w \in Workers, NEW r \in Requests, Receive(w, r)
      PROVE  Inv'
  BY <1>1, ReceiveStep, StepKeepsInv
<1>2. ASSUME NEW w \in Workers, Crash(w)
      PROVE  Inv'
  BY <1>2, CrashStep, StepKeepsInv
<1> QED
  BY <1>1, <1>2, ManualAppendStep, ManualDeleteStep, FlushStep DEF Environment

LEMMA NextInv == Inv /\ [Next]_vars => Inv'
<1> SUFFICES ASSUME Inv, [Next]_vars
             PROVE  Inv'
  OBVIOUS
<1>1. CASE UNCHANGED vars
  BY <1>1 DEF vars, Inv, SharedOK, OneBlockRow
<1> QED
  BY <1>1, StepInv, EnvironmentInv DEF Next

\* The bounds are charged by what happens around the workers.
LEMMA StepSpends ==
  ASSUME NEW w \in Workers, Step(w)
  PROVE  spent' = spent
<1>1. ASSUME Decline(w)
      PROVE  spent' = spent
  BY <1>1 DEF Decline
<1>2. ASSUME NEW t, NEW p, NEW j, Commit(w, t, p, j)
      PROVE  spent' = spent
  BY <1>2 DEF Commit
<1>3. ASSUME Transaction(w)
      PROVE  spent' = spent
  <2>1. CASE Lock(w) \/ LockTimeout(w) \/ Read(w) \/ UnblockCommit(w) \/ Unblock(w)
    BY <1>1, <2>1 DEF Lock, LockTimeout, Read, UnblockCommit, Unblock
  <2>2. CASE AddInput(w) \/ Block(w)
    BY <1>1, <2>2 DEF AddInput, Block, CommitInsert, Commit
  <2>3. CASE Toggle(w)
    BY <1>1, <2>3 DEF Toggle, Commit
  <2>4. CASE Disable(w) \/ Delete(w)
    BY <1>1, <2>4 DEF Disable, Delete, TakeOut, Commit
  <2>5. CASE Reorder(w)
    BY <1>1, <2>5 DEF Reorder, Commit
  <2> QED
    BY <1>3, <2>1, <2>2, <2>3, <2>4, <2>5 DEF Transaction
<1>4. ASSUME UnlockedInsert(w) \/ Commands(w) \/ Rebuild(w) \/ Discovery(w)
      PROVE  spent' = spent
  <2>1. CASE UnlockedInsert(w) \/ Commands(w)
    BY <2>1 DEF UnlockedInsert, ReadMax, Insert, Commands, RunCommand, FailCommand, Applied, Undo
  <2>2. CASE Rebuild(w)
    BY <2>2 DEF Rebuild, SyncStart, SyncBlocksDone, TakeFlock, ListChain, ListFails, ReloadRules,
                ChainRebuilt
  <2>3. CASE Discovery(w)
    BY <2>3 DEF Discovery, Snapshot, ScanChain, ScanFails, Adopt, Claim, DropAdopted, ChainScanned,
                AllScanned
  <2> QED
    BY <1>4, <2>1, <2>2, <2>3
<1> QED
  BY <1>3, <1>4 DEF Step

\* Inv is an inductive invariant of the specification.
THEOREM Inductive == Spec => []Inv
BY InitInv, NextInv, PTL DEF Spec

\* Type correctness of app/firewall.py's state, for any number of workers,
\* clients and rules: no handler ever follows an id, a chain or a command
\* that is not there.
THEOREM TypeCorrect == Spec => []TypeOK
<1>1. Inv => TypeOK
  BY InvImplies
<1> QED
  BY <1>1, Inductive, PTL

\* set_client_block's check and insert share one transaction under the
\* advisory lock, so no interleaving of requests, crashes, failed commands,
\* discoveries and hand edits gives a client two block rows.
THEOREM OneBlockRowPerClient == Spec => []AtMostOneBlockRow
<1>1. Inv => AtMostOneBlockRow
  BY InvImplies
<1> QED
  BY <1>1, Inductive, PTL
=============================================================================

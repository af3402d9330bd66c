------------------------ MODULE MemberListing_proofs ------------------------
(***************************************************************************)
(* Proofs about MemberListing: the pages of a listing partition its rows,  *)
(* for any number of rows, any values of the column it is sorted by and    *)
(* any size of a page.                                                     *)
(*                                                                         *)
(* Before is a strict total order, because the id decides between equal    *)
(* keys.  So Offset, the number of rows before a row, numbers n rows with  *)
(* 0 .. n-1, one by one, and a page is an interval of numbers.             *)
(***************************************************************************)
EXTENDS MemberListing, FiniteSetTheorems, FunctionTheorems, TLAPS

-----------------------------------------------------------------------------
(***************************************************************************)
(* The order of the rows.                                                  *)
(***************************************************************************)

\* Any rows with any keys: the listing's own assumptions do not matter.
Listing(rows, key) == rows \subseteq Nat /\ IsFiniteSet(rows) /\ key \in [rows -> Int]

LEMMA BeforeIsStrict ==
    ASSUME NEW rows, NEW key, Listing(rows, key), NEW desc \in BOOLEAN, NEW m \in rows
    PROVE  ~Before(key, desc, m, m)
BY DEF Listing, Before

LEMMA BeforeIsTransitive ==
    ASSUME NEW rows, NEW key, Listing(rows, key), NEW desc \in BOOLEAN,
           NEW l \in rows, NEW m \in rows, NEW n \in rows,
           Before(key, desc, l, m), Before(key, desc, m, n)
    PROVE  Before(key, desc, l, n)
<1>1. /\ key[l] \in Int /\ key[m] \in Int /\ key[n] \in Int
      /\ l \in Nat /\ m \in Nat /\ n \in Nat
  BY DEF Listing
<1> QED
  BY <1>1 DEF Before

\* The id decides between equal keys.
LEMMA BeforeIsTotal ==
    ASSUME NEW rows, NEW key, Listing(rows, key), NEW desc \in BOOLEAN,
           NEW m \in rows, NEW n \in rows, m # n
    PROVE  Before(key, desc, m, n) \/ Before(key, desc, n, m)
<1>1. key[m] \in Int /\ key[n] \in Int /\ m \in Nat /\ n \in Nat
  BY DEF Listing
<1> QED
  BY <1>1 DEF Before

-----------------------------------------------------------------------------
(***************************************************************************)
(* The offsets number the rows.                                            *)
(***************************************************************************)

Predecessors(rows, key, desc, m) == {n \in rows : Before(key, desc, n, m)}

LEMMA OffsetBound ==
    ASSUME NEW rows, NEW key, Listing(rows, key), NEW desc \in BOOLEAN, NEW m \in rows
    PROVE  Offset(rows, key, desc, m) \in 0 .. Cardinality(rows) - 1
<1> DEFINE P == Predecessors(rows, key, desc, m)
<1>1. IsFiniteSet(rows) /\ Cardinality(rows) \in Nat
  BY FS_CardinalityType DEF Listing
<1>2. P \subseteq rows \ {m}
  BY BeforeIsStrict DEF Predecessors
<1>3. /\ IsFiniteSet(rows \ {m}) /\ Cardinality(rows \ {m}) = Cardinality(rows) - 1
  BY <1>1, FS_RemoveElement
<1>4. /\ IsFiniteSet(P) /\ Cardinality(P) <= Cardinality(rows) - 1
  BY <1>2, <1>3, FS_Subset
<1>5. Cardinality(P) \in Nat
  BY <1>4, FS_CardinalityType
<1> QED
  BY <1>1, <1>4, <1>5 DEF Offset, Predecessors

LEMMA OffsetIncreases ==
    ASSUME NEW rows, NEW key, Listing(rows, key), NEW desc \in BOOLEAN,
           NEW m \in rows, NEW n \in rows, Before(key, desc, m, n)
    PROVE  Offset(rows, key, desc, m) < Offset(rows, key, desc, n)
<1> DEFINE P == Predecessors(rows, key, desc, m)
           Q == Predecessors(rows, key, desc, n)
<1>1. P \subseteq rows /\ Q \subseteq rows /\ IsFiniteSet(rows)
  BY DEF Predecessors, Listing
<1>2. IsFiniteSet(P) /\ IsFiniteSet(Q) /\ Cardinality(P) \in Nat /\ Cardinality(Q) \in Nat
  BY <1>1, FS_Subset, FS_CardinalityType
<1>3. m \notin P /\ P \cup {m} \subseteq Q
  BY BeforeIsStrict, BeforeIsTransitive DEF Predecessors
<1>4. Cardinality(P \cup {m}) = Cardinality(P) + 1
  BY <1>2, <1>3, FS_AddElement
<1>5. Cardinality(P \cup {m}) <= Cardinality(Q)
  BY <1>2, <1>3, FS_Subset
<1> QED
  BY <1>2, <1>4, <1>5 DEF Offset, Predecessors

\* Every number below the number of rows is the offset of exactly one row.
LEMMA OffsetIsBijection ==
    ASSUME NEW rows, NEW key, Listing(rows, key), NEW desc \in BOOLEAN
    PROVE  [m \in rows |-> Offset(rows, key, desc, m)]
              \in Bijection(rows, 0 .. Cardinality(rows) - 1)
<1> DEFINE f == [m \in rows |-> Offset(rows, key, desc, m)]
           T == 0 .. Cardinality(rows) - 1
<1>1. IsFiniteSet(rows) /\ Cardinality(rows) \in Nat
  BY FS_CardinalityType DEF Listing
<1>2. f \in [rows -> T]
  BY OffsetBound
<1>3. ASSUME NEW m \in rows, NEW n \in rows, f[m] = f[n] PROVE m = n
  <2>1. f[m] \in Int /\ f[n] \in Int
    BY <1>2
  <2>2. Before(key, desc, m, n) => f[m] < f[n]
    BY OffsetIncreases
  <2>3. Before(key, desc, n, m) => f[n] < f[m]
    BY OffsetIncreases
  <2> QED
    BY <1>3, <2>1, <2>2, <2>3, BeforeIsTotal
<1>4. f \in Injection(rows, T)
  BY <1>2, <1>3, Fun_IsInj
<1>5. IsFiniteSet(T) /\ Cardinality(T) = Cardinality(rows)
  <2>1. 0 \in Int /\ Cardinality(rows) - 1 \in Int
    BY <1>1
  <2>2. /\ IsFiniteSet(T)
        /\ Cardinality(T) = IF 0 > Cardinality(rows) - 1 THEN 0
                            ELSE Cardinality(rows) - 1 - 0 + 1
    BY <2>1, FS_Interval
  <2> QED
    BY <1>1, <2>2
<1>6. f \in Surjection(rows, T)
  BY <1>4, <1>5, FS_Injection
<1> QED
  BY <1>4, <1>6, Fun_IsBij

\* A page within the listing is full.
LEMMA RowsOfAnInterval ==
    ASSUME NEW rows, NEW key, Listing(rows, key), NEW desc \in BOOLEAN,
           NEW lo \in Nat, NEW hi \in Int, lo <= hi + 1, hi <= Cardinality(rows) - 1
    PROVE  Cardinality({m \in rows : Offset(rows, key, desc, m) \in lo .. hi}) = hi - lo + 1
<1> DEFINE f == [m \in rows |-> Offset(rows, key, desc, m)]
           T == 0 .. Cardinality(rows) - 1
           S == {m \in rows : Offset(rows, key, desc, m) \in lo .. hi}
           g == [m \in S |-> Offset(rows, key, desc, m)]
<1>1. IsFiniteSet(rows) /\ Cardinality(rows) \in Nat
  BY FS_CardinalityType DEF Listing
<1>2. f \in Bijection(rows, T)
  BY OffsetIsBijection
<1>3. /\ \A a, b \in rows : f[a] = f[b] => a = b
      /\ \A t \in T : \E m \in rows : f[m] = t
  <2> HIDE DEF f, T
  <2> QED
    BY <1>2, Fun_BijectionProperties
<1>4. g \in [S -> lo .. hi]
  OBVIOUS
<1>5. \A a, b \in S : g[a] = g[b] => a = b
  BY <1>3
<1>6. ASSUME NEW t \in lo .. hi PROVE \E m \in S : g[m] = t
  <2>1. t \in T
    BY <1>1
  <2>2. PICK m \in rows : f[m] = t
    BY <1>3, <2>1
  <2> QED
    BY <2>2
<1>7. g \in Bijection(S, lo .. hi)
  BY <1>4, <1>5, <1>6, Fun_IsBij
<1>8. IsFiniteSet(S)
  BY <1>1, FS_Subset
<1>9. Cardinality(lo .. hi) = Cardinality(S)
  <2>1. ExistsBijection(S, lo .. hi)
    BY <1>7 DEF ExistsBijection
  <2> QED
    BY <2>1, <1>8, FS_Bijection
<1>10. Cardinality(lo .. hi) = IF lo > hi THEN 0 ELSE hi - lo + 1
  BY FS_Interval
<1> QED
  BY <1>9, <1>10

-----------------------------------------------------------------------------
(***************************************************************************)
(* The pages of an interval of numbers.                                    *)
(***************************************************************************)

\* How a quotient relates to what is divided.
LEMMA Quotient ==
    ASSUME NEW n \in Nat, NEW s \in Nat \ {0}
    PROVE  /\ n \div s \in Nat
           /\ (n \div s) * s <= n
           /\ n < (n \div s) * s + s
OBVIOUS

\* The pages follow each other without a gap and without an overlap.
LEMMA PagesInOrder ==
    ASSUME NEW i \in Int, NEW j \in Int, NEW s \in Nat \ {0}, i < j
    PROVE  /\ i * s \in Int /\ (j - 1) * s \in Int
           /\ i * s <= (j - 1) * s
<1>1. i * s \in Int /\ (j - 1) * s \in Int
  OBVIOUS
<1>2. (j - 1 - i) * s >= 0
  OBVIOUS
<1>3. (j - 1) * s = i * s + (j - 1 - i) * s
  OBVIOUS
<1> QED
  BY <1>1, <1>2, <1>3

\* Every number is on a page, and page p ends before number p * s.
LEMMA PageOfNumber ==
    ASSUME NEW o \in Nat, NEW s \in Nat \ {0}
    PROVE  \E p \in Nat \ {0} : o \in (p - 1) * s .. p * s - 1
<1> DEFINE p == o \div s + 1
<1>1. o \div s \in Nat /\ (o \div s) * s <= o /\ o < (o \div s) * s + s
  BY Quotient
<1>2. p \in Nat \ {0} /\ p - 1 = o \div s
  BY <1>1
<1>3. (p - 1) * s = (o \div s) * s /\ p * s = (o \div s) * s + s
  BY <1>1, <1>2
<1>4. (o \div s) * s \in Int
  BY <1>1
<1>5. o \in (p - 1) * s .. p * s - 1
  BY <1>1, <1>3, <1>4
<1> QED
  BY <1>2, <1>5

\* The last page is the one with the last row; the one after it begins after that row.
LEMMA LastPage ==
    ASSUME NEW rows, IsFiniteSet(rows), NEW s \in Nat \ {0}
    PROVE  LET last == TotalPages(rows, s)
           IN  /\ last \in Nat
               /\ last * s \in Nat
               /\ Cardinality(rows) <= last * s
               /\ (last - 1) * s \in Int
               /\ (last - 1) * s <= Cardinality(rows) - 1
<1> DEFINE n == Cardinality(rows)
           last == TotalPages(rows, s)
<1>1. n \in Nat /\ n + s - 1 \in Nat
  BY FS_CardinalityType
<1>2. last \in Nat /\ last * s <= n + s - 1 /\ n + s - 1 < last * s + s
  <2> HIDE DEF n
  <2>1. last = (n + s - 1) \div s
    BY DEF TotalPages, n
  <2> HIDE DEF last
  <2> QED
    BY <1>1, <2>1, Quotient
<1> HIDE DEF n, last
<1>3. last * s \in Nat /\ (last - 1) * s = last * s - s
  BY <1>2
<1> QED
  BY <1>1, <1>2, <1>3 DEF n, last

-----------------------------------------------------------------------------
(***************************************************************************)
(* The pages of a listing.                                                 *)
(***************************************************************************)

\* Going through the pages of any listing, up or down, by any column and with any size of a
\* page, shows every row exactly once, and only the last page may have room left.
THEOREM PagesPartition ==
    ASSUME NEW rows, NEW key, Listing(rows, key), NEW desc \in BOOLEAN,
           NEW size \in Nat \ {0}
    PROVE  Partitioned(rows, key, desc, size)
<1> DEFINE n == Cardinality(rows)
           last == TotalPages(rows, size)
           off(m) == Offset(rows, key, desc, m)
           items(page) == Items(rows, key, desc, page, size)
<1>1. /\ n \in Nat /\ IsFiniteSet(rows)
      /\ last \in Nat /\ last * size \in Nat /\ n <= last * size
      /\ (last - 1) * size \in Int /\ (last - 1) * size <= n - 1
  BY LastPage, FS_CardinalityType DEF Listing
<1>2. \A m \in rows : off(m) \in 0 .. n - 1
  BY OffsetBound
<1>3. \A page, m : m \in items(page) <=>
          m \in rows /\ off(m) \in (page - 1) * size .. page * size - 1
  BY DEF Items
<1> HIDE DEF n, last, off, items
<1>4. \A page : items(page) \subseteq rows
  BY <1>3
<1>5. \A i, j \in Int : i < j => items(i) \cap items(j) = {}
  <2> SUFFICES ASSUME NEW i \in Int, NEW j \in Int, i < j, NEW m \in rows,
                      m \in items(i), m \in items(j)
               PROVE  FALSE
    BY <1>4
  <2>1. i * size \in Int /\ (j - 1) * size \in Int /\ i * size <= (j - 1) * size
    BY PagesInOrder
  <2>2. (i - 1) * size \in Int /\ j * size \in Int
    OBVIOUS
  <2>3. off(m) \in Int /\ off(m) <= i * size - 1 /\ (j - 1) * size <= off(m)
    BY <1>1, <1>2, <1>3, <2>1, <2>2
  <2> QED
    BY <2>1, <2>3
<1>6. rows = UNION {items(page) : page \in 1 .. last}
  <2>1. ASSUME NEW m \in rows PROVE \E page \in 1 .. last : m \in items(page)
    <3>1. off(m) \in Nat /\ off(m) <= n - 1
      BY <1>1, <1>2
    <3>2. PICK page \in Nat \ {0} : off(m) \in (page - 1) * size .. page * size - 1
      BY <3>1, PageOfNumber
    <3>3. (page - 1) * size \in Int /\ page * size \in Int
      OBVIOUS
    <3>4. (page - 1) * size <= off(m)
      BY <3>2, <3>3
    <3>5. page <= last
      <4> SUFFICES ASSUME last < page PROVE FALSE
        BY <1>1
      <4>1. last * size <= (page - 1) * size
        BY <1>1, PagesInOrder
      <4> QED
        BY <1>1, <3>1, <3>3, <3>4, <4>1
    <3>6. m \in items(page)
      BY <1>3, <3>2
    <3>7. page \in 1 .. last
      BY <1>1, <3>2, <3>5
    <3> QED
      BY <3>6, <3>7
  <2> QED
    BY <1>4, <2>1
<1>7. \A i, j \in 1 .. last : i # j => items(i) \cap items(j) = {}
  BY <1>1, <1>5
<1>8. ASSUME NEW i \in 1 .. last, i < last PROVE Cardinality(items(i)) = size
  <2>1. i \in Nat /\ i - 1 \in Nat
    BY <1>1
  <2>2. i * size \in Int /\ (i - 1) * size \in Nat /\ i * size = (i - 1) * size + size
    <3>1. i * size \in Int /\ i * size = (i - 1) * size + size
      BY <2>1
    <3>2. \A k \in Nat : k * size \in Nat
      OBVIOUS
    <3> QED
      BY <2>1, <3>1, <3>2
  <2>3. i * size <= (last - 1) * size
    BY <1>1, <1>8, <2>1, PagesInOrder
  <2>4. i * size - 1 <= n - 1
    BY <1>1, <2>2, <2>3
  <2> DEFINE lo == (i - 1) * size
             hi == i * size - 1
  <2>5. items(i) = {m \in rows : off(m) \in lo .. hi}
    BY <1>3
  <2>6. lo \in Nat /\ hi \in Int /\ lo <= hi + 1 /\ hi <= n - 1 /\ hi - lo + 1 = size
    BY <2>2, <2>4
  <2> HIDE DEF lo, hi
  <2>7. Cardinality({m \in rows : off(m) \in lo .. hi}) = hi - lo + 1
    BY <2>6, RowsOfAnInterval DEF n, off
  <2> QED
    BY <2>5, <2>6, <2>7
<1>9. items(last + 1) = {}
  <2> SUFFICES ASSUME NEW m \in rows, NEW next, next = last + 1, m \in items(next)
               PROVE  FALSE
    BY <1>4
  <2>1. off(m) \in (next - 1) * size .. next * size - 1
    BY <1>3
  <2>2. next - 1 = last /\ next * size \in Int
    BY <1>1
  <2>3. last * size <= off(m)
    BY <1>1, <2>1, <2>2
  <2> QED
    BY <1>1, <1>2, <2>3
<1> QED
  BY <1>6, <1>7, <1>8, <1>9 DEF Partitioned, last, items

\* What a run checks of the listings up to a number of rows holds of them all.
THEOREM AlwaysPartitionedHolds ==
    \A n \in 0 .. MaxRows : AlwaysPartitioned[n]
<1> SUFFICES ASSUME NEW n \in 0 .. MaxRows,
                    NEW key \in [1 .. n -> 1 .. 2], NEW desc \in BOOLEAN,
                    NEW size \in 1 .. PageLimit
             PROVE  Partitioned(1 .. n, key, desc, size)
  BY DEF AlwaysPartitioned
<1>1. n \in Nat /\ size \in Nat \ {0}
  BY ListingAssumption
<1>2. IsFiniteSet(1 .. n)
  <2>1. 1 \in Int /\ n \in Int
    BY <1>1
  <2> QED
    BY <2>1, FS_Interval
<1>3. key \in [1 .. n -> Int]
  OBVIOUS
<1>4. Listing(1 .. n, key)
  BY <1>1, <1>2, <1>3 DEF Listing
<1> QED
  BY <1>1, <1>4, PagesPartition
=============================================================================

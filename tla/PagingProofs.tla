---------------------------- MODULE PagingProofs ----------------------------
(***************************************************************************)
(* What the offset strategy of storage/pagination computes, for every      *)
(* number of rows and every page size.                                     *)
(***************************************************************************)
EXTENDS AuthorService, FiniteSetTheorems, TLAPS

\* Division rounds down.
LEMMA Quotient ==
    ASSUME NEW n \in Nat, NEW size \in Nat \ {0}
    PROVE  /\ n \div size \in Nat
           /\ (n \div size) * size <= n
           /\ n < (n \div size) * size + size
OBVIOUS

\* A later page starts where an earlier one has ended.
LEMMA PagesAdvance ==
    ASSUME NEW p \in Nat, NEW q \in Nat, NEW size \in Nat \ {0}, p < q
    PROVE  p * size + size <= q * size /\ p * size \in Nat /\ q * size \in Nat
<1> DEFINE d == q - (p + 1)
<1>1. d \in Nat /\ q = d + (p + 1)
  OBVIOUS
<1>2. q * size = d * size + (p * size + size)
  BY <1>1
<1>3. d * size \in Nat /\ p * size \in Nat
  BY <1>1
<1> QED BY <1>2, <1>3

\* A page not after another one starts no later.
LEMMA PagesOrdered ==
    ASSUME NEW p \in Nat, NEW q \in Nat, NEW size \in Nat \ {0}, p <= q
    PROVE  p * size <= q * size /\ p * size \in Nat /\ q * size \in Nat
<1>1. p * size \in Nat /\ q * size \in Nat
  OBVIOUS
<1>2. CASE p < q
  BY <1>1, <1>2, PagesAdvance
<1>3. CASE p = q
  BY <1>1, <1>3
<1> QED BY <1>1, <1>2, <1>3

\* PageCount rounds up: the pages hold n rows, and one page less would not.
LEMMA PageCountExact ==
    ASSUME NEW n \in Nat, NEW size \in Nat \ {0}
    PROVE  /\ PageCount(n, size) \in Nat
           /\ n <= PageCount(n, size) * size
           /\ n > 0 => /\ PageCount(n, size) >= 1
                       /\ (PageCount(n, size) - 1) * size < n
           /\ n = 0 => PageCount(n, size) = 0
<1>1. CASE n = 0
  BY <1>1 DEF PageCount
<1>2. CASE n > 0
  <2> DEFINE last == (n + size - 1) \div size
  <2>1. PageCount(n, size) = last
    BY <1>2 DEF PageCount
  <2>2. last \in Nat /\ last * size <= n + size - 1 /\ n + size - 1 < last * size + size
    BY <1>2, Quotient, n + size - 1 \in Nat
  <2> HIDE DEF last
  <2>3. last * size \in Nat /\ n <= last * size
    BY <2>2
  <2>4. last # 0
    BY <1>2, <2>3
  <2>5. (last - 1) * size + size = last * size /\ (last - 1) * size \in Nat
    BY <2>2, <2>4
  <2> QED BY <1>2, <2>1, <2>2, <2>3, <2>4, <2>5
<1> QED BY <1>1, <1>2

\* What is on a page.
LEMMA OnPage ==
    ASSUME NEW n \in Nat, NEW size \in Nat \ {0}, NEW page \in Nat \ {0}
    PROVE  /\ (page - 1) * size \in Nat
           /\ (page - 1) * size + size = page * size
           /\ Items(n, page, size) =
                  {k \in 1 .. n : (page - 1) * size < k /\ k <= page * size}
<1>1. (page - 1) * size \in Nat /\ (page - 1) * size + size = page * size
  OBVIOUS
<1> QED BY <1>1 DEF Items, Fetched, Offset

\* The query returns one row more than the page's size exactly when rows follow.
LEMMA ExtraRow ==
    ASSUME NEW n \in Nat, NEW size \in Nat \ {0}, NEW page \in Nat \ {0}
    PROVE  MoreRows(n, page, size) <=> page * size < n
<1> DEFINE o == Offset(page, size)
<1>1. o \in Nat /\ o + size = page * size
  BY OnPage DEF Offset
<1>2. Fetched(n, page, size) = {k \in 1 .. n : k > o /\ k <= o + size + 1}
  BY DEF Fetched
<1> HIDE DEF o
<1>3. CASE page * size < n
  <2>1. Fetched(n, page, size) = (o + 1) .. (o + size + 1)
    BY <1>1, <1>2, <1>3
  <2>2. Cardinality((o + 1) .. (o + size + 1)) = size + 1
    BY <1>1, FS_Interval
  <2> QED BY <1>3, <2>1, <2>2 DEF MoreRows
<1>4. CASE ~(page * size < n)
  <2>1. Fetched(n, page, size) = (o + 1) .. n
    BY <1>1, <1>2, <1>4
  <2>2. Cardinality((o + 1) .. n) = IF o + 1 > n THEN 0 ELSE n - (o + 1) + 1
    BY <1>1, FS_Interval
  <2>3. Cardinality((o + 1) .. n) <= size
    BY <1>1, <1>4, <2>2
  <2> QED BY <1>1, <1>4, <2>1, <2>2, <2>3 DEF MoreRows
<1> QED BY <1>3, <1>4

\* The pages of n rows hold every row once and has_more is right on each, for
\* every number of rows and every page size.
LEMMA OffsetPages ==
    ASSUME NEW n \in Nat, NEW size \in Nat \ {0}
    PROVE  OffsetPagesExact(n, size)
<1> DEFINE last == PageCount(n, size)
<1>0. /\ last \in Nat /\ n <= last * size
      /\ n > 0 => last >= 1 /\ (last - 1) * size < n
      /\ n = 0 => last = 0
  BY PageCountExact
<1> HIDE DEF last
<1>1. ASSUME NEW k \in 1 .. n
      PROVE  \E page \in 1 .. last : k \in Items(n, page, size)
  <2> DEFINE q == (k - 1) \div size
  <2>1. q \in Nat /\ q * size <= k - 1 /\ k - 1 < q * size + size
    BY Quotient, k - 1 \in Nat
  <2> HIDE DEF q
  <2>2. q + 1 <= last
    <3> SUFFICES ASSUME last <= q PROVE FALSE
      BY <1>0, <2>1
    <3>1. last * size <= q * size
      BY <1>0, <2>1, PagesOrdered
    <3> QED BY <1>0, <2>1, <3>1
  <2>3. (q + 1) - 1 = q /\ q + 1 \in Nat \ {0}
    BY <2>1
  <2>4. k \in Items(n, q + 1, size)
    BY <2>1, <2>3, OnPage
  <2> QED BY <1>0, <2>2, <2>3, <2>4
<1>2. ASSUME NEW p \in 1 .. last, NEW q \in 1 .. last, p < q
      PROVE  Items(n, p, size) \cap Items(n, q, size) = {}
  <2>1. p \in Nat \ {0} /\ q \in Nat \ {0} /\ q - 1 \in Nat /\ p <= q - 1
    BY <1>0, <1>2
  <2>2. p * size <= (q - 1) * size /\ p * size \in Nat /\ (q - 1) * size \in Nat
    BY <2>1, PagesOrdered
  <2>3. \A k \in Items(n, p, size) : k \in Nat /\ k <= p * size
    BY <2>1, OnPage
  <2>4. \A k \in Items(n, q, size) : k \in Nat /\ (q - 1) * size < k
    BY <2>1, OnPage
  <2> QED BY <2>2, <2>3, <2>4
<1>3. \A p, q \in 1 .. last :
         p # q => Items(n, p, size) \cap Items(n, q, size) = {}
  <2> SUFFICES ASSUME NEW p \in 1 .. last, NEW q \in 1 .. last, p # q
               PROVE  Items(n, p, size) \cap Items(n, q, size) = {}
    OBVIOUS
  <2>1. p < q \/ q < p
    BY <1>0
  <2> QED BY <1>2, <2>1
<1>4. ASSUME NEW page \in 1 .. (last + 1)
      PROVE  MoreRows(n, page, size) <=> page < last
  <2>1. page \in Nat \ {0}
    BY <1>0
  <2>2. CASE page < last
    <3>1. page <= last - 1 /\ last - 1 \in Nat /\ n > 0
      BY <1>0, <2>1, <2>2
    <3>2. page * size <= (last - 1) * size /\ page * size \in Nat
                                          /\ (last - 1) * size \in Nat
      BY <2>1, <3>1, PagesOrdered
    <3>3. page * size < n
      BY <1>0, <3>1, <3>2
    <3> QED BY <2>1, <2>2, <3>3, ExtraRow
  <2>3. CASE ~(page < last)
    <3>1. last * size <= page * size /\ last * size \in Nat /\ page * size \in Nat
      BY <1>0, <2>1, <2>3, PagesOrdered
    <3>2. ~(page * size < n)
      BY <1>0, <3>1
    <3> QED BY <2>1, <2>3, <3>2, ExtraRow
  <2> QED BY <2>2, <2>3
<1>5. Items(n, last + 1, size) = {}
  <2>1. last + 1 \in Nat \ {0} /\ (last + 1) - 1 = last
    BY <1>0
  <2>2. Items(n, last + 1, size) =
           {k \in 1 .. n : last * size < k /\ k <= (last + 1) * size}
    BY <2>1, OnPage
  <2>3. last * size \in Nat
    BY <1>0, PagesOrdered
  <2> QED BY <1>0, <2>2, <2>3
<1> QED BY <1>1, <1>3, <1>4, <1>5 DEF OffsetPagesExact, last

-----------------------------------------------------------------------------
(* The pages of the table.                                                 *)

\* However many rows the calls have left in the table, its offset pages
\* partition them, with has_more right on each: the arithmetic of PageCount,
\* Items and MoreRows agrees at every count and every page size.
THEOREM OffsetPagesHold == Spec => []OffsetPagesPartition
<1>1. OffsetPagesPartition
  <2>1. Live \subseteq 1 .. MaxId /\ IsFiniteSet(1 .. MaxId)
    BY BoundsAssumption, FS_Interval DEF Live, Ids
  <2>2. Cardinality(Live) \in Nat
    BY <2>1, FS_Subset, FS_CardinalityType
  <2> QED BY <2>2, BoundsAssumption, OffsetPages DEF OffsetPagesPartition
<1> QED BY <1>1, PTL
=============================================================================

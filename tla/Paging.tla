------------------------------- MODULE Paging -------------------------------
(***************************************************************************)
(* What get_paginated_results (storage/db.py) makes of a request for a     *)
(* page, and the arithmetic of the two strategies (storage/pagination):    *)
(* rows are numbered 1..n in the order one query returns them.             *)
(***************************************************************************)
EXTENDS Integers, FiniteSets

CONSTANTS None,
          DefaultPageSize,  \* DEFAULT_PAGE_SIZE
          MaxPageSize       \* MAX_PAGE_SIZE

\* per_page as the strategies get it; below 1 is a ValueError.
Capped(perPage) == IF perPage = None THEN DefaultPageSize
                   ELSE IF perPage < MaxPageSize THEN perPage ELSE MaxPageSize
Accepted(perPage) == Capped(perPage) >= 1

\* A cursor, even the empty one, selects the cursor strategy.
Strategy(cursor) == IF cursor # None THEN "cursor" ELSE "offset"

\* The empty cursor decodes to no row; ids start at 1.
LastId(cursor) == IF cursor = "" THEN 0 ELSE cursor

\* OFFSET, LIMIT size + 1: PostgreSQL refuses a negative OFFSET.
Offset(page, size) == (page - 1) * size
Fetched(n, page, size) == {k \in 1..n : k > Offset(page, size)
                                        /\ k <= Offset(page, size) + size + 1}

\* Mutant: has_more when a full page came back.
FullPage(n, page, size) == Cardinality(Fetched(n, page, size)) >= size

\* The extra row only says that there is more; it is not part of the page.
MoreRows(n, page, size) == Cardinality(Fetched(n, page, size)) > size
Items(n, page, size) == {k \in Fetched(n, page, size) : k <= Offset(page, size) + size}

\* math.ceil(total / page_size)
PageCount(total, size) == IF total > 0 THEN (total + size - 1) \div size ELSE 0

\* Of n rows, pages 1 to PageCount hold every row once, has_more is true on all
\* of them but the last, and the page after the last is empty.
OffsetPagesExact(n, size) ==
    LET last == PageCount(n, size)
    IN  /\ \A k \in 1..n : \E page \in 1..last : k \in Items(n, page, size)
        /\ \A p, q \in 1..last : p # q => Items(n, p, size) \cap Items(n, q, size) = {}
        /\ \A page \in 1..(last + 1) : MoreRows(n, page, size) <=> page < last
        /\ Items(n, last + 1, size) = {}
=============================================================================

--------------------------- MODULE MemberListing ---------------------------
(***************************************************************************)
(* The listings of a tenant's members and of its tutors, as functions of   *)
(* the rows their queries match: paging, sorting and the answers to a      *)
(* request for a page.                                                     *)
(***************************************************************************)
EXTENDS Integers, FiniteSets

CONSTANTS
    MaxRows,       \* bound: rows of a listing
    PageLimit,     \* rows a page may have, 100
    DefaultSize    \* rows of a page of a request that names no size, 20

ASSUME ListingAssumption ==
    /\ MaxRows \in Nat
    /\ PageLimit \in Nat \ {0}
    /\ DefaultSize \in 1..PageLimit

-----------------------------------------------------------------------------
\* Rows are numbers, in the order of their ids; a key is the value of the column a listing
\* is sorted by, and several rows may have the same.

\* Mutation: the id does not decide between equal keys.
KeyBefore(key, desc, m, n) == IF desc THEN key[n] < key[m] ELSE key[m] < key[n]

\* ORDER BY key, id, both ascending or both descending.
Before(key, desc, m, n) ==
    LET less(a, b) == key[a] < key[b] \/ (key[a] = key[b] /\ a < b)
    IN  IF desc THEN less(n, m) ELSE less(m, n)

\* How many rows come before a row.
Offset(rows, key, desc, m) == Cardinality({n \in rows : Before(key, desc, n, m)})

\* LIMIT size OFFSET (page - 1) * size
Items(rows, key, desc, page, size) ==
    {m \in rows : Offset(rows, key, desc, m) \in (page - 1) * size .. page * size - 1}

TotalPages(rows, size) == (Cardinality(rows) + size - 1) \div size

-----------------------------------------------------------------------------
\* A parameter of a request: absent or a number.  Anything else is answered as 0 is.

Parameter == {{}} \cup {{n} : n \in -1 .. PageLimit + 1}

Sort == {"", "joined_at", "created_at", "updated_at", "email", "name", "unknown"}

Given(value, default) == IF value = {} THEN default ELSE CHOOSE n \in value : TRUE

Page(value) == Given(value, 1)

Size(value) == Given(value, DefaultSize)

ValidPage(value) == Page(value) >= 1

ValidSize(value) == Size(value) \in 1..PageLimit

\* 400 for what cannot be a page; the permission is checked after that.
ListMembersStatus(page, size, sort, allowed) ==
    IF ~ValidPage(page) \/ ~ValidSize(size) \/ sort = "unknown" THEN 400
    ELSE IF allowed THEN 200 ELSE 403

ListMembersAnswers ==
    [allowed \in BOOLEAN |->
        {ListMembersStatus(page, size, sort, allowed) :
            page \in Parameter, size \in Parameter, sort \in Sort}]

\* The tutors are shown to every member, without a permission.
ListTutorsStatus(page, size) == IF ValidPage(page) /\ ValidSize(size) THEN 200 ELSE 400

ListTutorsAnswers == {ListTutorsStatus(page, size) : page \in Parameter, size \in Parameter}

-----------------------------------------------------------------------------

\* Going through the pages from the first to the last one, whose number comes with each,
\* shows every row once, in full pages, although rows have equal keys.
Partitioned(rows, key, desc, size) ==
    LET last == TotalPages(rows, size)
        items(page) == Items(rows, key, desc, page, size)
    IN  /\ rows = UNION {items(page) : page \in 1..last}
        /\ \A i, j \in 1..last : i # j => items(i) \cap items(j) = {}
        /\ \A i \in 1..last : i < last => Cardinality(items(i)) = size
        /\ items(last + 1) = {}

\* The same for every listing of n rows.
AlwaysPartitioned ==
    [n \in 0..MaxRows |->
        \A key \in [1..n -> 1..2], desc \in BOOLEAN, size \in 1..PageLimit :
            Partitioned(1..n, key, desc, size)]
=============================================================================

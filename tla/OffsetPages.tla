----------------------------- MODULE OffsetPages -----------------------------
(***************************************************************************)
(* A client lists the users page by page: each request reads the rows of a *)
(* page and then counts all users, in two queries, while users are created *)
(* and deleted.  As the answer never tells a next page, the client goes by *)
(* the number of pages.                                                    *)
(***************************************************************************)
EXTENDS Integers, Sequences, FiniteSets

CONSTANTS
  Users,      \* the users that ever exist
  CreatedAt,  \* when they are created; equal for users of one transaction
  PageLimits, \* the limits that are asked for
  Starts      \* the pages that are asked for first

ASSUME PagesAssumption ==
  /\ IsFiniteSet(Users) /\ CreatedAt \in [Users -> Nat]
  /\ PageLimits \subseteq Int /\ Starts \subseteq Int

VARIABLES
  rows,     \* the users whose row is there, and not soft-deleted
  stage,    \* of the walk: next request, between its queries, or how it ended
  limit,    \* what the client asks for
  first,    \* the page it asked for first
  pageNumber, \* the page it asks for now
  found,    \* the rows of the page
  pagination, \* what the answer says of the page
  listed,   \* how often each user was listed
  initial,  \* the users at the start of the walk
  changed,  \* what happened to rows since the page was read
  deleted   \* the users that were deleted during the walk

walk == <<limit, first, pageNumber, found, pagination, listed, initial>>
pagesVars == <<rows, stage, walk, changed, deleted>>

NoPagination ==
  [limit |-> 0, currentPage |-> 0, nextPage |-> 0, previousPage |-> 0,
   totalRecords |-> 0, totalPages |-> 0]

PagesInit ==
  /\ rows \in SUBSET Users
  /\ stage = "ask"
  /\ limit \in PageLimits /\ first \in Starts /\ pageNumber = first
  /\ found = <<>> /\ pagination = NoPagination
  /\ listed = [u \in Users |-> 0] /\ initial = rows
  /\ changed = FALSE /\ deleted = {}

-------------------------------------------------------------------------------
(* PageOptionsDto and OffsetPaginationDto.                                     *)

\* limit and page are integers: the minimum of 1 is documentation only.
Offset == IF pageNumber # 0 THEN (pageNumber - 1) * limit ELSE 0

Ceil(n, d) == (n + d - 1) \div d

TotalPages(count) == IF limit > 0 THEN Ceil(count, limit) ELSE 0

\* nextPage and previousPage are taken from totalPages before it is assigned,
\* and a comparison with undefined is false: neither is ever told (0).
Pagination(count) ==
  [limit |-> limit, currentPage |-> pageNumber, nextPage |-> 0, previousPage |-> 0,
   totalRecords |-> count, totalPages |-> TotalPages(count)]

-------------------------------------------------------------------------------
(* The two queries.                                                            *)

\* Newest first; users of one moment come in any order, in each query anew.
Sorted(s) ==
  {q \in [1..Cardinality(s) -> s] :
     /\ \A i, j \in DOMAIN q : q[i] = q[j] => i = j
     /\ \A i, j \in DOMAIN q : i < j => CreatedAt[q[i]] >= CreatedAt[q[j]]}

Least(a, b) == IF a < b THEN a ELSE b

\* Faulty variant: the page is read without an offset.
PageOfFirst(q) ==
  IF limit = 0 THEN q ELSE SubSeq(q, 1, Least(limit, Len(q)))

\* An offset or a limit of 0 is left out of the query.
PageOf(q) ==
  IF limit = 0 THEN q ELSE SubSeq(q, Offset + 1, Least(Offset + limit, Len(q)))

ReadPage ==
  /\ stage = "ask"
  /\ limit >= 0 /\ Offset >= 0
  /\ \E q \in Sorted(rows) : found' = PageOf(q)
  /\ stage' = "count" /\ changed' = FALSE
  /\ UNCHANGED <<rows, limit, first, pageNumber, pagination, listed, initial,
                 deleted>>

\* PostgreSQL refuses a negative LIMIT or OFFSET.
ReadPageFails ==
  /\ stage = "ask"
  /\ limit < 0 \/ Offset < 0
  /\ stage' = "failed"
  /\ UNCHANGED <<rows, walk, changed, deleted>>

\* Faulty variant: the count is skipped, and stays -1.
ReadCountSkipped ==
  /\ stage = "count"
  /\ pagination' = Pagination(-1)
  /\ listed' = [u \in Users |->
       listed[u] + Cardinality({i \in DOMAIN found : found[i] = u})]
  /\ stage' = "answered"
  /\ UNCHANGED <<rows, limit, first, pageNumber, found, initial, changed,
                 deleted>>

ReadCount ==
  /\ stage = "count"
  /\ pagination' = Pagination(Cardinality(rows))
  /\ listed' = [u \in Users |->
       listed[u] + Cardinality({i \in DOMAIN found : found[i] = u})]
  /\ stage' = "answered"
  /\ UNCHANGED <<rows, limit, first, pageNumber, found, initial, changed,
                 deleted>>

\* The client asks for the next page while there is one.
AskNext ==
  /\ stage = "answered" /\ pagination.currentPage < pagination.totalPages
  /\ pageNumber' = pageNumber + 1 /\ stage' = "ask" /\ found' = <<>>
  /\ UNCHANGED <<rows, limit, first, pagination, listed, initial, changed,
                 deleted>>

Finish ==
  /\ stage = "answered" /\ pagination.currentPage >= pagination.totalPages
  /\ stage' = "done"
  /\ UNCHANGED <<rows, walk, changed, deleted>>

-------------------------------------------------------------------------------

Walking == stage \in {"ask", "count", "answered"}

\* Also before older rows: createdAt is set before the transaction commits.
Create(u) ==
  /\ Walking /\ u \notin rows \union deleted \union initial
  /\ rows' = rows \union {u} /\ changed' = TRUE
  /\ UNCHANGED <<stage, walk, deleted>>

Delete(u) ==
  /\ Walking /\ u \in rows
  /\ rows' = rows \ {u} /\ changed' = TRUE /\ deleted' = deleted \union {u}
  /\ UNCHANGED <<stage, walk>>

PagesNext ==
  \/ ReadPage \/ ReadPageFails \/ ReadCount \/ AskNext \/ Finish
  \/ \E u \in Users : Create(u) \/ Delete(u)

PagesSpec == PagesInit /\ [][PagesNext]_pagesVars

-------------------------------------------------------------------------------
(* Properties.                                                                 *)

\* The types of the variables.
PagesTypeOK ==
  /\ rows \subseteq Users /\ initial \subseteq Users /\ deleted \subseteq Users
  /\ stage \in {"ask", "count", "answered", "done", "failed"}
  /\ limit \in PageLimits /\ first \in Starts /\ pageNumber \in Int
  /\ found \in UNION {[1..n -> Users] : n \in 0..Cardinality(Users)}
  /\ pagination.totalRecords \in Nat /\ pagination.totalPages \in Nat
  /\ listed \in [Users -> Nat]
  /\ changed \in BOOLEAN

\* How many rows the page has when there are count users.
Expected(count) ==
  IF limit = 0 THEN count
  ELSE LET left == count - Offset IN
       IF left < 0 THEN 0 ELSE Least(left, limit)

\* Page and total of an answer fit each other unless a user was created or
\* deleted between the two queries.
PageFitsTotal ==
  stage = "answered" /\ ~changed => Len(found) = Expected(pagination.totalRecords)

\* The users whose moment of creation is not theirs alone.
Tied == {u \in Users : \E v \in Users \ {u} : CreatedAt[u] = CreatedAt[v]}

\* Those of s that come before u in the order, and the users that were created
\* during the walk, gone again or not.
Newer(s, u) == {v \in s : CreatedAt[v] > CreatedAt[u]}
Arrived == (rows \union deleted) \ initial

\* A walk from the first page misses a user who was there all along only if a
\* newer one was deleted meanwhile, and lists one once more at most for every
\* newer one that was created, save for users created in the same moment; a
\* request of it fails only for a negative limit or page.
WalkIsWhole ==
  /\ stage = "done" /\ first = 1 => \A u \in (initial \ deleted) \ Tied :
       /\ Newer(deleted, u) = {} => listed[u] >= 1
       /\ listed[u] <= 1 + Cardinality(Newer(Arrived, u))
  /\ stage = "failed" => limit < 0 \/ pageNumber < 0

\* Both, of each page and of the walk that they make up.
ListingIsTrue == PageFitsTotal /\ WalkIsWhole

===============================================================================

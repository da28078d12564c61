--------------------------- MODULE PaginationProofs ---------------------------
(***************************************************************************)
(* Proofs about the two ways of listing the users, for any finite table,   *)
(* times and limits.                                                       *)
(*                                                                         *)
(* CursorWalk: a page is the nearest part of the rows that match, so what  *)
(* matches and is not on the page is no nearer than its far end, whose     *)
(* millisecond is the next cursor.                                         *)
(*                                                                         *)
(* OffsetPages: the place of a user in the order is one more than the      *)
(* number of users created after it.  Deletes only lower it and creates    *)
(* only raise it, while the walk covers ever more places.                  *)
(***************************************************************************)
EXTENDS CursorWalk, OffsetPages, FiniteSetTheorems, FunctionTheorems,
        SequenceTheorems, TLAPS

\* A cursor of the page is the millisecond of a row of the page, its oldest
\* or its newest.
CursorsOfPage ==
  /\ page.after # Null =>
       /\ \E r \in page.rows : page.after = Ms[r]
       /\ \A r \in page.rows : page.after <= Ms[r]
  /\ page.before # Null =>
       /\ \E r \in page.rows : page.before = Ms[r]
       /\ \A r \in page.rows : page.before >= Ms[r]

IInv ==
  /\ TypeOK
  /\ stayed \subseteq visible
  /\ CursorsOfPage
  /\ PagesInOrder
  /\ OnlyBoundarySkipped

LEMMA InitIInv == Init => IInv
BY DEF Init, IInv, TypeOK, NoPage, Cursors, CursorsOfPage, PagesInOrder,
       OnlyBoundarySkipped, Lost

-------------------------------------------------------------------------------
(* One page. *)

\* A page is all that matches, or it is not empty and there is more, or it is
\* that of a limit of -1 that lost the one row that matches.
LEMMA NearestIsAllOrSome ==
  ASSUME TypeOK, NEW after, NEW before, NEW size \in Limits, NEW flipped,
         Served(size), NEW nearest \in SUBSET Matching(after, before),
         Nearest(nearest, Matching(after, before), size, flipped)
  PROVE  \/ nearest = Matching(after, before)
         \/ nearest # {} /\ HasMore(Matching(after, before), size)
         \/ /\ size = -1 /\ nearest = {}
            /\ \A r, q \in Matching(after, before) : r = q
<1> DEFINE M == Matching(after, before)
<1>1. IsFiniteSet(M)
  <2>1. M \subseteq Rows
    BY DEF Matching, TypeOK
  <2> QED
    BY <2>1, WalkAssumption, FS_Subset
<1>2. Cardinality(M) \in Nat /\ size \in Int /\ size >= -1
  BY <1>1, FS_CardinalityType, WalkAssumption DEF Served, Size
<1>3. Cardinality(nearest) = Left(M, size)
  BY DEF Nearest
<1>4. IsFiniteSet(nearest)
  BY <1>1, FS_Subset
<1> HIDE DEF M
<1>5. CASE size # -1 /\ HasMore(M, size)
  <2>1. Cardinality(nearest) = Size(size) /\ Size(size) > 0
    BY <1>2, <1>3, <1>5 DEF Left, Size
  <2> QED
    BY <1>5, <2>1, FS_EmptySet DEF M
<1>6. CASE size # -1 /\ ~HasMore(M, size)
  <2>1. Cardinality(nearest) = Cardinality(M)
    BY <1>3, <1>6 DEF Left
  <2> QED
    BY <1>1, <2>1, FS_Subset DEF M
<1>7. CASE size = -1 /\ nearest # {}
  BY <1>2, <1>7 DEF HasMore, Size, M
<1>8. CASE size = -1 /\ nearest = {}
  <2>1. Cardinality(M) <= 1
    <3>1. Cardinality(nearest) = 0
      BY <1>8, FS_EmptySet
    <3> QED
      BY <1>2, <1>3, <1>8, <3>1 DEF Left
  <2>2. \A r, q \in M : r = q
    <3> SUFFICES ASSUME NEW r \in M, NEW q \in M, r # q PROVE FALSE
      OBVIOUS
    <3>1. Cardinality({r, q}) = 2
      <4>1. Cardinality({r}) = 1 /\ IsFiniteSet({r})
        BY FS_Singleton
      <4>2. q \notin {r} /\ {r} \union {q} = {r, q}
        OBVIOUS
      <4>3. Cardinality({r} \union {q}) = Cardinality({r}) + 1
        BY <4>1, <4>2, FS_AddElement
      <4> QED
        BY <4>1, <4>2, <4>3
    <3>2. {r, q} \subseteq M
      OBVIOUS
    <3>3. Cardinality({r, q}) <= Cardinality(M)
      BY <1>1, <3>2, FS_Subset
    <3> QED
      BY <1>2, <2>1, <3>1, <3>3
  <2> QED
    BY <1>8, <2>2 DEF M
<1> QED
  BY <1>5, <1>6, <1>7, <1>8

\* The request with a limit of -1 that lost the one row of a set.
LostTheOne(set) == asked' = -1 /\ page' = NoPage /\ \A r, q \in set : r = q

\* What a fetch answers: rows that match, cursors that are the milliseconds of
\* the page's ends, and nothing left out on this side of the far end, but for the
\* one row that a limit of -1 loses.
LEMMA FetchAnswers ==
  ASSUME TypeOK, NEW after \in Cursors, NEW before \in Cursors,
         Fetch(after, before)
  PROVE  /\ page' \in [rows : SUBSET Rows, after : Cursors, before : Cursors]
         /\ page'.rows \subseteq Matching(after, before)
         /\ CursorsOfPage'
         /\ asked' \in Limits
         /\ \/ LostTheOne(Matching(after, before))
            \/ /\ after # Null \/ before = Null =>
                    \A r \in Matching(after, before) \ page'.rows :
                      page'.after # Null /\ Ms[r] <= page'.after
               /\ after = Null /\ before # Null =>
                    \A r \in Matching(after, before) \ page'.rows :
                      page'.before # Null /\ Ms[r] >= page'.before
<1> DEFINE M == Matching(after, before)
           Flipped == after = Null /\ before # Null
<1>1. M \subseteq Rows
  BY DEF Matching, TypeOK
<1>2. PICK size \in Limits, nearest \in SUBSET M :
        /\ Served(size) /\ asked' = size
        /\ Nearest(nearest, M, size, Flipped)
        /\ \/ nearest = {} /\ page' = NoPage
           \/ \E newest, oldest \in nearest :
                /\ \A r \in nearest : ~Older(newest, r) /\ ~Older(r, oldest)
                /\ page' = Answer(nearest, newest, oldest, HasMore(M, size),
                                  after, before)
  BY DEF Fetch
<1>3. \/ nearest = M
      \/ nearest # {} /\ HasMore(M, size)
      \/ size = -1 /\ nearest = {} /\ \A r, q \in M : r = q
  BY <1>2, NearestIsAllOrSome
<1>4. CASE nearest = {} /\ page' = NoPage
  <2>1. M = {} \/ LostTheOne(M)
    BY <1>2, <1>3, <1>4 DEF LostTheOne
  <2>2. CursorsOfPage'
    BY <1>4 DEF CursorsOfPage, NoPage
  <2>3. page' \in [rows : SUBSET Rows, after : Cursors, before : Cursors]
    BY <1>4 DEF NoPage, Cursors
  <2>4. page'.rows = {}
    BY <1>4 DEF NoPage
  <2> QED
    BY <1>2, <2>1, <2>2, <2>3, <2>4
<1>5. ASSUME NEW newest \in nearest, NEW oldest \in nearest,
             \A r \in nearest : ~Older(newest, r) /\ ~Older(r, oldest),
             page' = Answer(nearest, newest, oldest, HasMore(M, size),
                            after, before)
      PROVE  /\ page' \in [rows : SUBSET Rows, after : Cursors, before : Cursors]
             /\ page'.rows \subseteq M
             /\ CursorsOfPage'
             /\ ~Flipped => \A r \in M \ page'.rows :
                              page'.after # Null /\ Ms[r] <= page'.after
             /\ Flipped => \A r \in M \ page'.rows :
                             page'.before # Null /\ Ms[r] >= page'.before
  <2>1. newest \in Rows /\ oldest \in Rows /\ nearest \subseteq Rows
    BY <1>1
  <2>2. /\ page'.rows = nearest
        /\ page'.after = IF before # Null \/ HasMore(M, size)
                         THEN Ms[oldest] ELSE Null
        /\ page'.before = IF after # Null
                               \/ (HasMore(M, size) /\ before # Null)
                          THEN Ms[newest] ELSE Null
    BY <1>5 DEF Answer, Encode
  <2>3. page' \in [rows : SUBSET Rows, after : Cursors, before : Cursors]
    BY <1>5, <2>1, WalkAssumption DEF Answer, Encode, Cursors
  <2>4. \A r \in nearest : Ms[oldest] <= Ms[r] /\ Ms[r] <= Ms[newest]
    BY <1>5, <2>1, WalkAssumption DEF Older
  <2>5. CursorsOfPage'
    BY <2>2, <2>4 DEF CursorsOfPage
  <2>6. ASSUME ~Flipped, NEW r \in M \ nearest
        PROVE  page'.after # Null /\ Ms[r] <= page'.after
    <3>1. HasMore(M, size)
      BY <1>3, <2>6
    <3>2. ~Older(oldest, r)
      BY <1>2, <2>6 DEF Nearest
    <3> QED
      BY <1>1, <2>1, <2>2, <2>6, <3>1, <3>2, WalkAssumption DEF Older
  <2>7. ASSUME Flipped, NEW r \in M \ nearest
        PROVE  page'.before # Null /\ Ms[r] >= page'.before
    <3>1. HasMore(M, size)
      BY <1>3, <2>7
    <3>2. ~Older(r, newest)
      BY <1>2, <2>7 DEF Nearest
    <3> QED
      BY <1>1, <2>1, <2>2, <2>7, <3>1, <3>2, WalkAssumption DEF Older
  <2> QED
    BY <2>2, <2>3, <2>5, <2>6, <2>7
<1> QED
  BY <1>2, <1>4, <1>5

-------------------------------------------------------------------------------
(* The steps of the walk. *)

LEMMA StartKeeps == IInv /\ Start => IInv'
<1> SUFFICES ASSUME IInv, Start PROVE IInv'
  OBVIOUS
<1>1. /\ page' \in [rows : SUBSET Rows, after : Cursors, before : Cursors]
      /\ CursorsOfPage' /\ asked' \in Limits
      /\ \/ LostTheOne(visible)
         \/ \A r \in visible \ page'.rows :
              page'.after # Null /\ Ms[r] <= page'.after
  <2>1. Matching(Null, Null) = visible
    BY DEF Matching
  <2> QED
    BY <2>1, FetchAnswers DEF Start, IInv, Cursors
<1>2. TypeOK' /\ (stayed \subseteq visible)'
  BY <1>1 DEF Start, IInv, TypeOK
<1>3. PagesInOrder'
  BY DEF Start, PagesInOrder
<1>4. OnlyBoundarySkipped'
  <2>1. Lost' \subseteq visible \ page'.rows
    BY DEF Start, Lost
  <2>2. CASE LostTheOne(visible)
    BY <2>1, <2>2 DEF LostTheOne, OnlyBoundarySkipped
  <2>3. CASE ~LostTheOne(visible)
    <3> SUFFICES ASSUME NEW r \in Lost' PROVE FALSE
      BY DEF OnlyBoundarySkipped
    <3>1. page'.after # Null /\ Ms[r] <= page'.after /\ page'.after \in Nat
      BY <1>1, <2>1, <2>3 DEF Cursors
    <3>2. Ms[r] \in Nat
      BY <2>1, WalkAssumption DEF IInv, TypeOK
    <3>3. ~Ahead(r)' /\ Ms[r] # page'.after
      BY DEF Lost, NextCursor, Start
    <3> QED
      BY <3>1, <3>2, <3>3 DEF Start, Ahead, NextCursor
  <2> QED
    BY <2>2, <2>3
<1> QED
  BY <1>1, <1>2, <1>3, <1>4 DEF IInv

LEMMA ForwardKeeps == IInv /\ Forward => IInv'
<1> SUFFICES ASSUME IInv, Forward PROVE IInv'
  OBVIOUS
<1> DEFINE M == {r \in visible : Ms[r] < page.after}
<1>1. /\ page.after \in Nat /\ page.after # Null
      /\ Continue("forward", page.after, M)
  BY DEF Forward, IInv, TypeOK, Cursors
<1>2. /\ page' \in [rows : SUBSET Rows, after : Cursors, before : Cursors]
      /\ page'.rows \subseteq M
      /\ CursorsOfPage' /\ asked' \in Limits
      /\ \/ LostTheOne(M)
         \/ \A r \in M \ page'.rows :
              page'.after # Null /\ Ms[r] <= page'.after
  <2>1. PICK before \in Cursors : Fetch(page.after, before)
    BY DEF Forward, IInv, TypeOK, Cursors
  <2>2. Matching(page.after, before) = M
    BY <1>1 DEF Matching
  <2> QED
    BY <1>1, <2>1, <2>2, FetchAnswers DEF IInv, Cursors
<1>3. M \subseteq Rows
  BY DEF IInv, TypeOK
<1>4. TypeOK'
  BY <1>1, <1>2, <1>3 DEF IInv, TypeOK, Continue
<1>5. (stayed \subseteq visible)'
  BY <1>1 DEF IInv, Continue
<1>6. PagesInOrder'
  <2>1. \A q \in seen' : q \in Rows /\ page.after <= Ms[q]
    BY <1>1, WalkAssumption
    DEF IInv, TypeOK, Continue, CursorsOfPage, PagesInOrder
  <2>2. \A r \in page'.rows : r \in Rows /\ Ms[r] < page.after
    BY <1>2, <1>3
  <2>3. dir' = "forward"
    BY <1>1 DEF Continue
  <2> QED
    BY <1>1, <2>1, <2>2, <2>3, WalkAssumption DEF PagesInOrder
<1>7. OnlyBoundarySkipped'
  <2>1. Lost' \subseteq M \ page'.rows
    <3> SUFFICES ASSUME NEW r \in Lost' PROVE r \in M
      BY DEF Lost
    <3>1. /\ r \in stayed' /\ r \notin seen' \union page'.rows
          /\ Ms[r] \notin used'
      BY DEF Lost
    <3>2. CASE dir = "forward"
      <4>1. /\ r \in stayed /\ r \notin seen \union page.rows
            /\ Ms[r] \notin used \union {NextCursor} /\ NextCursor = page.after
        BY <1>1, <3>1, <3>2 DEF Continue, NextCursor
      <4>2. r \notin Lost
        BY <1>1 DEF IInv, OnlyBoundarySkipped, NoPage
      <4>3. Ahead(r)
        BY <4>1, <4>2 DEF Lost
      <4> QED
        BY <3>2, <4>1, <4>3 DEF Ahead, IInv
    <3>3. CASE dir # "forward"
      BY <1>1, <3>1, <3>3 DEF Continue
    <3> QED
      BY <3>2, <3>3
  <2>2. CASE LostTheOne(M)
    BY <2>1, <2>2 DEF LostTheOne, OnlyBoundarySkipped
  <2>3. CASE ~LostTheOne(M)
    <3> SUFFICES ASSUME NEW r \in Lost' PROVE FALSE
      BY DEF OnlyBoundarySkipped
    <3>1. page'.after # Null /\ Ms[r] <= page'.after /\ page'.after \in Nat
      BY <1>2, <2>1, <2>3 DEF Cursors
    <3>2. Ms[r] \in Nat
      BY <1>3, <2>1, WalkAssumption
    <3>3. dir' = "forward"
      BY <1>1 DEF Continue
    <3>4. ~Ahead(r)' /\ Ms[r] # page'.after
      BY <3>3 DEF Lost, NextCursor
    <3> QED
      BY <3>1, <3>2, <3>3, <3>4 DEF Ahead, NextCursor
  <2> QED
    BY <2>2, <2>3
<1> QED
  BY <1>2, <1>4, <1>5, <1>6, <1>7 DEF IInv

LEMMA BackKeeps == IInv /\ Back => IInv'
<1> SUFFICES ASSUME IInv, Back PROVE IInv'
  OBVIOUS
<1> DEFINE M == {r \in visible : Ms[r] > page.before}
<1>1. /\ page.before \in Nat /\ page.before # Null
      /\ Continue("back", page.before, M)
  BY DEF Back, IInv, TypeOK, Cursors
<1>2. /\ page' \in [rows : SUBSET Rows, after : Cursors, before : Cursors]
      /\ page'.rows \subseteq M
      /\ CursorsOfPage' /\ asked' \in Limits
      /\ \/ LostTheOne(M)
         \/ \A r \in M \ page'.rows :
              page'.before # Null /\ Ms[r] >= page'.before
  <2>1. Fetch(Null, page.before)
    BY DEF Back
  <2>2. Matching(Null, page.before) = M
    BY <1>1 DEF Matching
  <2> QED
    BY <1>1, <2>1, <2>2, FetchAnswers DEF IInv, Cursors
<1>3. M \subseteq Rows
  BY DEF IInv, TypeOK
<1>4. TypeOK'
  BY <1>1, <1>2, <1>3 DEF IInv, TypeOK, Continue
<1>5. (stayed \subseteq visible)'
  BY <1>1 DEF IInv, Continue
<1>6. PagesInOrder'
  <2>1. \A q \in seen' : q \in Rows /\ page.before >= Ms[q]
    BY <1>1, WalkAssumption
    DEF IInv, TypeOK, Continue, CursorsOfPage, PagesInOrder
  <2>2. \A r \in page'.rows : r \in Rows /\ Ms[r] > page.before
    BY <1>2, <1>3
  <2>3. dir' = "back"
    BY <1>1 DEF Continue
  <2> QED
    BY <1>1, <2>1, <2>2, <2>3, WalkAssumption DEF PagesInOrder
<1>7. OnlyBoundarySkipped'
  <2>1. Lost' \subseteq M \ page'.rows
    <3> SUFFICES ASSUME NEW r \in Lost' PROVE r \in M
      BY DEF Lost
    <3>1. /\ r \in stayed' /\ r \notin seen' \union page'.rows
          /\ Ms[r] \notin used'
      BY DEF Lost
    <3>2. CASE dir = "back"
      <4>1. /\ r \in stayed /\ r \notin seen \union page.rows
            /\ Ms[r] \notin used \union {NextCursor} /\ NextCursor = page.before
        BY <1>1, <3>1, <3>2 DEF Continue, NextCursor
      <4>2. r \notin Lost
        BY <1>1 DEF IInv, OnlyBoundarySkipped, NoPage
      <4>3. Ahead(r)
        BY <4>1, <4>2 DEF Lost
      <4> QED
        BY <3>2, <4>1, <4>3 DEF Ahead, IInv
    <3>3. CASE dir # "back"
      BY <1>1, <3>1, <3>3 DEF Continue
    <3> QED
      BY <3>2, <3>3
  <2>2. CASE LostTheOne(M)
    BY <2>1, <2>2 DEF LostTheOne, OnlyBoundarySkipped
  <2>3. CASE ~LostTheOne(M)
    <3> SUFFICES ASSUME NEW r \in Lost' PROVE FALSE
      BY DEF OnlyBoundarySkipped
    <3>1. page'.before # Null /\ Ms[r] >= page'.before /\ page'.before \in Nat
      BY <1>2, <2>1, <2>3 DEF Cursors
    <3>2. Ms[r] \in Nat
      BY <1>3, <2>1, WalkAssumption
    <3>3. dir' = "back"
      BY <1>1 DEF Continue
    <3>4. ~Ahead(r)' /\ Ms[r] # page'.before
      BY <3>3 DEF Lost, NextCursor
    <3> QED
      BY <3>1, <3>2, <3>3, <3>4 DEF Ahead, NextCursor
  <2> QED
    BY <2>2, <2>3
<1> QED
  BY <1>2, <1>4, <1>5, <1>6, <1>7 DEF IInv

\* The table changes under the walk.
LEMMA TableKeeps ==
  ASSUME IInv, NEW r \in Rows, Insert(r) \/ DeleteUser(r)
  PROVE  IInv'
<1>1. TypeOK' /\ (stayed \subseteq visible)'
  BY DEF IInv, TypeOK, Insert, DeleteUser
<1>2. CursorsOfPage' /\ PagesInOrder'
  BY DEF IInv, CursorsOfPage, PagesInOrder, Insert, DeleteUser
<1>3. OnlyBoundarySkipped'
  BY DEF IInv, OnlyBoundarySkipped, Lost, Ahead, NextCursor, Insert, DeleteUser
<1> QED
  BY <1>1, <1>2, <1>3 DEF IInv

LEMMA Inductive == Spec => []IInv
<1>1. IInv /\ [Next]_vars => IInv'
  <2> SUFFICES ASSUME IInv, [Next]_vars PROVE IInv'
    OBVIOUS
  <2>1. CASE UNCHANGED vars
    BY <2>1
    DEF IInv, TypeOK, CursorsOfPage, PagesInOrder, OnlyBoundarySkipped, Lost,
        Ahead, NextCursor, vars
  <2>2. CASE Next
    BY <2>2, StartKeeps, ForwardKeeps, BackKeeps, TableKeeps DEF Next
  <2> QED
    BY <2>1, <2>2
<1> QED
  BY InitIInv, <1>1, PTL DEF Spec

-------------------------------------------------------------------------------

\* The variables of the walk have their types, for any table and limits.
THEOREM TypeCorrect == Spec => []TypeOK
<1>1. IInv => TypeOK
  BY DEF IInv
<1> QED
  BY Inductive, <1>1, PTL

\* No user is shown twice in a run, and its pages follow one another in time,
\* while users are created and deleted.
THEOREM OrderTheorem == Spec => []PagesInOrder
<1>1. IInv => PagesInOrder
  BY DEF IInv
<1> QED
  BY Inductive, <1>1, PTL

\* Whatever integers clients ask for as limits, a user that stayed is missed by
\* a run only for the millisecond of a cursor, but for the one user that a limit
\* of -1 loses.
THEOREM BoundaryTheorem == Spec => []OnlyBoundarySkipped
<1>1. IInv => OnlyBoundarySkipped
  BY DEF IInv
<1> QED
  BY Inductive, <1>1, PTL

-------------------------------------------------------------------------------
(* Walking by page numbers: the inductive invariant of OffsetPages.            *)

\* The place of a user in the order of the rows, whether it is there or not.
Rank(u) == Cardinality(Newer(rows, u)) + 1

\* How many places of the order the walk has read, if it began at page 1.
Covered ==
  LET pages == IF stage = "ask" THEN pageNumber - 1 ELSE pageNumber
  IN  IF limit # 0 THEN pages * limit
      ELSE IF stage = "ask" THEN 0 ELSE Cardinality(Users)

\* The page that is read, and not counted yet, has the user.
OnPage(u) == stage = "count" /\ \E i \in DOMAIN found : found[i] = u

\* A page has a user once, and is as long as it should be.
PageRead ==
  stage = "count" =>
    /\ \A i, j \in DOMAIN found : found[i] = found[j] => i = j
    /\ ~changed => Len(found) = Expected(Cardinality(rows))

\* The client compares the page it asked for with the pages of the answer.
AnswerTold ==
  stage = "answered" => pagination = Pagination(pagination.totalRecords)

\* How the walk got here.
Underway ==
  /\ stage \notin {"ask", "failed"} => limit >= 0
  /\ initial \ deleted \subseteq rows
  /\ pageNumber >= first
  /\ limit = 0 /\ first = 1 => pageNumber = 1

\* As long as nobody newer is deleted, who is not listed yet has a place still
\* to be read.
NoneMissed ==
  first = 1 /\ stage # "failed" => \A u \in (initial \ deleted) \ Tied :
    Newer(deleted, u) = {} =>
      \/ listed[u] >= 1
      \/ OnPage(u)
      \/ /\ stage # "done"
         /\ Rank(u) > Covered
         /\ stage = "answered" => pagination.totalRecords > Covered

\* How often a user was listed, with the page that is not counted yet, and how
\* many newer ones were created.
Times(u) == listed[u] + (IF OnPage(u) THEN 1 ELSE 0)
Pushes(u) == Cardinality(Newer(Arrived, u))

\* A user is listed again only after newer ones have pushed it beyond the places
\* that were read; what they pushed it since is left for a later page.
NoneTwice ==
  first = 1 /\ stage # "failed" => \A u \in initial \ Tied : Times(u) >= 1 =>
    /\ Times(u) <= 1 + Pushes(u)
    /\ Times(u) + Rank(u) <= 1 + Pushes(u) + Covered

\* Only a negative limit or page makes a request fail.
FailsForCause == stage = "failed" => limit < 0 \/ pageNumber < 0

PagesIInv ==
  /\ PagesTypeOK /\ PageRead /\ AnswerTold /\ PageFitsTotal /\ Underway
  /\ NoneMissed /\ NoneTwice /\ FailsForCause

-------------------------------------------------------------------------------
(* Arithmetic of pages. *)

LEMMA ProductSign ==
  ASSUME NEW x \in Int, NEW y \in Int, y >= 0
  PROVE  /\ x >= 0 => x * y >= 0
         /\ x * y < 0 => x < 0
OBVIOUS

\* The pages hold everybody, and there are no fewer.
LEMMA CeilCovers ==
  ASSUME NEW n \in Nat, NEW d \in Nat \ {0}
  PROVE  /\ Ceil(n, d) \in Nat
         /\ \A p \in Int : p >= Ceil(n, d) => p * d >= n
<1> DEFINE quotient == (n + d - 1) \div d
           rest == (n + d - 1) % d
<1>1. quotient \in Int /\ rest \in 0..(d - 1)
  OBVIOUS
<1>2. n + d - 1 = d * quotient + rest
  OBVIOUS
<1>3. quotient \in Nat
  OBVIOUS
<1>4. ASSUME NEW p \in Int, p >= quotient PROVE p * d >= n
  <2> HIDE DEF quotient, rest
  <2>1. (p - quotient) * d >= 0
    BY <1>1, <1>4, ProductSign
  <2>2. (p - quotient) * d = p * d - d * quotient
    BY <1>1
  <2> QED
    BY <1>1, <1>2, <2>1, <2>2
<1> QED
  BY <1>3, <1>4 DEF Ceil

LEMMA TotalIsNat ==
  ASSUME limit \in Int, NEW count \in Nat
  PROVE  TotalPages(count) \in Nat
BY CeilCovers DEF TotalPages

\* The sizes of sets of users.
LEMMA CountOfUsers ==
  ASSUME NEW s \in SUBSET Users
  PROVE  /\ IsFiniteSet(s)
         /\ Cardinality(s) \in Nat
         /\ Cardinality(s) <= Cardinality(Users)
         /\ \A t \in SUBSET s : Cardinality(t) <= Cardinality(s)
BY PagesAssumption, FS_Subset, FS_CardinalityType

-------------------------------------------------------------------------------
(* One page. *)

\* Every row has its place in the order.
LEMMA OrderHoldsAll ==
  ASSUME NEW s \in SUBSET Users, NEW q \in Sorted(s), NEW u \in s
  PROVE  \E i \in 1..Cardinality(s) : q[i] = u
<1> DEFINE D == 1..Cardinality(s)
<1>1. q \in [D -> s] /\ \A i, j \in D : q[i] = q[j] => i = j
  BY DEF Sorted
<1>2. q \in Injection(D, s)
  BY <1>1, Fun_IsInj
<1>3. Cardinality(D) = Cardinality(s)
  BY CountOfUsers, FS_Interval
<1>4. q \in Surjection(D, s)
  BY <1>2, <1>3, CountOfUsers, FS_Injection
<1>5. \A v \in s : \E i \in D : q[i] = v
  BY <1>4 DEF Surjection
<1> QED
  BY <1>5

\* The place of a user that shares its moment with nobody is one more than the
\* number of users created after it.
LEMMA PlaceOfUntied ==
  ASSUME rows \subseteq Users, NEW q \in Sorted(rows),
         NEW i \in 1..Cardinality(rows), q[i] \notin Tied
  PROVE  Rank(q[i]) = i
<1> DEFINE D == 1..Cardinality(rows)
           Before == Newer(rows, q[i])
           place == [j \in 1..(i - 1) |-> q[j]]
<1>1. /\ q \in [D -> rows]
      /\ \A j, k \in D : q[j] = q[k] => j = k
      /\ \A j, k \in D : j < k => CreatedAt[q[j]] >= CreatedAt[q[k]]
  BY DEF Sorted
<1>2. Cardinality(rows) \in Nat /\ i \in Nat /\ IsFiniteSet(Before)
  BY CountOfUsers DEF Newer
<1>3. \A j \in D : CreatedAt[q[j]] \in Nat
  BY <1>1, PagesAssumption
<1>4. ASSUME NEW j \in 1..(i - 1) PROVE j \in D /\ q[j] \in Before
  <2>1. j \in D /\ j < i /\ j # i
    BY <1>2
  <2>2. q[j] # q[i] /\ CreatedAt[q[j]] >= CreatedAt[q[i]]
    BY <1>1, <2>1
  <2>3. CreatedAt[q[j]] # CreatedAt[q[i]]
    BY <1>1, <2>1, <2>2 DEF Tied
  <2> QED
    BY <1>1, <1>3, <2>1, <2>2, <2>3 DEF Newer
<1>5. ASSUME NEW v \in Before PROVE \E j \in 1..(i - 1) : place[j] = v
  <2>1. PICK j \in D : q[j] = v
    BY OrderHoldsAll DEF Newer
  <2>2. ~(i < j) /\ i # j
    BY <1>1, <1>3, <2>1 DEF Newer
  <2> QED
    BY <1>2, <2>1, <2>2
<1>6. place \in Bijection(1..(i - 1), Before)
  <2>1. place \in [1..(i - 1) -> Before]
    BY <1>4
  <2>2. \A j, k \in 1..(i - 1) : place[j] = place[k] => j = k
    BY <1>1, <1>4
  <2> QED
    BY <1>5, <2>1, <2>2, Fun_IsBij
<1>7. Cardinality(Before) = i - 1
  BY <1>2, <1>6, FS_CountingElements, Fun_ExistsBij
<1> QED
  BY <1>2, <1>7 DEF Rank

\* A page is the part of the order from the offset on, as long as expected.
LEMMA PageIsPart ==
  ASSUME rows \subseteq Users, limit \in Int, limit >= 0, Offset \in Int, Offset >= 0,
         limit = 0 => Offset = 0,
         NEW q \in Sorted(rows)
  PROVE  /\ PageOf(q) \in [1..Len(PageOf(q)) -> rows]
         /\ Len(PageOf(q)) = Expected(Cardinality(rows))
         /\ Len(PageOf(q)) \in 0..Cardinality(rows)
         /\ \A i \in 1..Len(PageOf(q)) :
              /\ i + Offset \in 1..Cardinality(rows)
              /\ PageOf(q)[i] = q[i + Offset]
<1> DEFINE n == Cardinality(rows)
           last == Least(Offset + limit, n)
<1>1. n \in Nat /\ q \in [1..n -> rows] /\ q \in Seq(rows) /\ Len(q) = n
  <2>1. n \in Nat /\ q \in [1..n -> rows]
    BY CountOfUsers DEF Sorted
  <2> QED
    BY <2>1
<1>2. CASE limit = 0
  BY <1>1, <1>2 DEF PageOf, Expected
<1>3. CASE limit # 0
  <2>1. last \in Int /\ last <= n /\ PageOf(q) = SubSeq(q, Offset + 1, last)
    BY <1>1, <1>3 DEF PageOf, Least
  <2>2. \A i \in (Offset + 1)..last : q[i] \in rows
    BY <1>1, <2>1
  <2>3. /\ PageOf(q) \in Seq(rows)
        /\ Len(PageOf(q)) = IF Offset + 1 <= last THEN last - Offset ELSE 0
        /\ \A i \in 1..(last - Offset) : PageOf(q)[i] = q[Offset + i]
    <3> HIDE DEF last
    <3>1. /\ SubSeq(q, Offset + 1, last) \in Seq(rows)
          /\ Len(SubSeq(q, Offset + 1, last))
               = IF Offset + 1 <= last THEN last - (Offset + 1) + 1 ELSE 0
          /\ \A i \in 1..(last - (Offset + 1) + 1) :
               SubSeq(q, Offset + 1, last)[i] = q[Offset + 1 + i - 1]
      BY <2>1, <2>2, SubSeqProperties
    <3>2. last - (Offset + 1) + 1 = last - Offset
      BY <2>1
    <3>3. \A i \in 1..(last - Offset) : Offset + 1 + i - 1 = Offset + i
      BY <2>1
    <3> QED
      BY <2>1, <3>1, <3>2, <3>3
  <2>4. Len(PageOf(q)) = Expected(n)
    BY <1>1, <1>3, <2>3 DEF Expected, Least
  <2>5. Len(PageOf(q)) \in 0..n
    BY <1>1, <2>1, <2>3
  <2>6. \A i \in 1..Len(PageOf(q)) :
          i \in 1..(last - Offset) /\ i + Offset \in 1..n /\ Offset + i = i + Offset
    BY <1>1, <2>1, <2>3
  <2> QED
    BY <2>3, <2>4, <2>5, <2>6
<1> QED
  BY <1>2, <1>3

LEMMA OffsetFacts ==
  ASSUME limit \in Int, pageNumber \in Int
  PROVE  /\ Offset \in Int
         /\ limit = 0 => Offset = 0
         /\ limit >= 0 /\ pageNumber >= 1 => Offset >= 0
         /\ limit >= 0 /\ Offset < 0 => pageNumber < 0
         /\ pageNumber >= 1 => Offset = (pageNumber - 1) * limit
         /\ Offset + limit = IF pageNumber # 0 THEN pageNumber * limit ELSE limit
<1>1. Offset \in Int
  BY DEF Offset
<1>2. limit = 0 => Offset = 0
  BY DEF Offset
<1>3. ASSUME limit >= 0, pageNumber >= 1 PROVE Offset >= 0
  BY <1>3, ProductSign DEF Offset
<1>4. ASSUME limit >= 0, Offset < 0 PROVE pageNumber < 0
  <2>1. pageNumber # 0 /\ (pageNumber - 1) * limit < 0
    BY <1>4 DEF Offset
  <2>2. pageNumber - 1 < 0
    BY <1>4, <2>1, ProductSign
  <2> QED
    BY <2>1, <2>2
<1>5. pageNumber >= 1 => Offset = (pageNumber - 1) * limit
  BY DEF Offset
<1>6. (pageNumber - 1) * limit + limit = pageNumber * limit
  OBVIOUS
<1> QED
  BY <1>1, <1>2, <1>3, <1>4, <1>5, <1>6 DEF Offset

\* A user comes after the newer ones, among all and among the rows it is in.
LEMMA RankBound ==
  ASSUME rows \subseteq Users, NEW u \in Users
  PROVE  /\ Rank(u) \in Nat /\ Rank(u) >= 1
         /\ Rank(u) <= Cardinality(Users)
         /\ u \in rows => Rank(u) <= Cardinality(rows)
<1> DEFINE Before == Newer(rows, u)
<1>1. Before \subseteq rows /\ u \notin Before
  BY PagesAssumption DEF Newer
<1>2. ASSUME NEW s \in SUBSET Users, Before \subseteq s, u \in s
      PROVE  Cardinality(Before) + 1 <= Cardinality(s)
  <2>1. Before \subseteq s \ {u}
    BY <1>1, <1>2
  <2>2. Cardinality(s \ {u}) = Cardinality(s) - 1
    BY <1>2, CountOfUsers, FS_RemoveElement
  <2>3. Cardinality(Before) <= Cardinality(s \ {u})
    BY <2>1, CountOfUsers
  <2>4. Cardinality(s) \in Nat /\ Cardinality(Before) \in Nat
    BY <1>1, CountOfUsers
  <2> QED
    BY <2>2, <2>3, <2>4
<1>3. Cardinality(Before) \in Nat
  BY <1>1, CountOfUsers
<1>4. Cardinality(Before) + 1 <= Cardinality(Users)
  BY <1>1, <1>2
<1>5. u \in rows => Cardinality(Before) + 1 <= Cardinality(rows)
  BY <1>1, <1>2
<1> QED
  BY <1>3, <1>4, <1>5 DEF Rank

\* How often a page lists a user.
LEMMA TimesListed ==
  ASSUME found \in UNION {[1..n -> Users] : n \in 0..Cardinality(Users)},
         NEW u
  PROVE  LET times == Cardinality({i \in DOMAIN found : found[i] = u})
         IN  /\ times \in Nat
             /\ (\E i \in DOMAIN found : found[i] = u) <=> times >= 1
             /\ (\A i, j \in DOMAIN found : found[i] = found[j] => i = j) =>
                  times <= 1
<1> DEFINE Places == {i \in DOMAIN found : found[i] = u}
<1>1. PICK n \in 0..Cardinality(Users) : found \in [1..n -> Users]
  OBVIOUS
<1>2. n \in Nat
  BY PagesAssumption, FS_CardinalityType
<1>3. IsFiniteSet(Places)
  <2>1. IsFiniteSet(1..n)
    BY <1>2, FS_Interval
  <2>2. Places \subseteq 1..n
    BY <1>1
  <2> QED
    BY <2>1, <2>2, FS_Subset
<1>4. Cardinality(Places) \in Nat
  BY <1>3, FS_CardinalityType
<1>5. Cardinality(Places) = 0 <=> Places = {}
  BY <1>3, FS_EmptySet
<1>6. ASSUME \A i, j \in DOMAIN found : found[i] = found[j] => i = j
      PROVE  Cardinality(Places) <= 1
  <2>1. CASE Places = {}
    BY <1>5, <2>1
  <2>2. CASE Places # {}
    <3>1. PICK i : Places = {i}
      BY <1>6, <2>2
    <3>2. Cardinality({i}) = 1
      BY FS_Singleton
    <3> HIDE DEF Places
    <3> QED
      BY <3>1, <3>2
  <2> QED
    BY <2>1, <2>2
<1>7. Cardinality(Places) >= 1 <=> \E i \in DOMAIN found : found[i] = u
  BY <1>4, <1>5
<1> QED
  BY <1>4, <1>6, <1>7

LEMMA WalkTypes ==
  ASSUME PagesTypeOK
  PROVE  /\ limit \in Int /\ first \in Int /\ pageNumber \in Int
         /\ Cardinality(Users) \in Nat
         /\ Covered \in Int
         /\ \A u \in Users : listed[u] \in Nat
         /\ \A u : Pushes(u) \in Nat
<1>1. limit \in Int /\ first \in Int /\ pageNumber \in Int
  BY PagesAssumption DEF PagesTypeOK
<1>2. Cardinality(Users) \in Nat
  BY PagesAssumption, FS_CardinalityType
<1>3. \A u : Pushes(u) \in Nat
  <2>1. \A u : Newer(Arrived, u) \subseteq Users
    BY DEF PagesTypeOK, Newer, Arrived
  <2> QED
    BY <2>1, CountOfUsers DEF Pushes
<1> QED
  BY <1>1, <1>2, <1>3 DEF PagesTypeOK, Covered

-------------------------------------------------------------------------------
(* The steps of a listing. *)

LEMMA PagesInitIInv == PagesInit => PagesIInv
<1> SUFFICES ASSUME PagesInit PROVE PagesIInv
  OBVIOUS
<1>1. PagesTypeOK
  <2>1. Cardinality(Users) \in Nat
    BY PagesAssumption, FS_CardinalityType
  <2>2. <<>> \in [1..0 -> Users]
    OBVIOUS
  <2>3. found \in UNION {[1..n -> Users] : n \in 0..Cardinality(Users)}
    BY <2>1, <2>2 DEF PagesInit
  <2> QED
    BY <2>3, PagesAssumption DEF PagesInit, PagesTypeOK, NoPagination
<1>2. PageRead /\ AnswerTold /\ PageFitsTotal /\ FailsForCause
  BY DEF PagesInit, PageRead, AnswerTold, PageFitsTotal, FailsForCause
<1>3. Underway
  BY PagesAssumption DEF PagesInit, Underway
<1>4. first = 1 => Covered = 0
  BY PagesAssumption DEF PagesInit, Covered
<1>5. \A u \in initial : u \in Users /\ Rank(u) >= 1 /\ Rank(u) \in Nat
  BY RankBound DEF PagesInit
<1>6. NoneMissed
  BY <1>4, <1>5 DEF PagesInit, NoneMissed
<1>7. NoneTwice
  BY <1>5 DEF PagesInit, NoneTwice, OnPage, Times
<1> QED
  BY <1>1, <1>2, <1>3, <1>6, <1>7 DEF PagesIInv

LEMMA ReadPageKeeps == PagesIInv /\ ReadPage => PagesIInv'
<1> SUFFICES ASSUME PagesIInv, ReadPage PROVE PagesIInv'
  OBVIOUS
<1>1. PICK q \in Sorted(rows) : found' = PageOf(q)
  BY DEF ReadPage
<1>2. /\ rows \subseteq Users /\ limit \in Int /\ limit >= 0
      /\ pageNumber \in Int /\ Offset \in Int /\ Offset >= 0
      /\ limit = 0 => Offset = 0
  BY WalkTypes, OffsetFacts DEF ReadPage, PagesIInv, PagesTypeOK
<1>3. /\ found' \in [1..Len(found') -> rows]
      /\ Len(found') = Expected(Cardinality(rows))
      /\ Len(found') \in 0..Cardinality(rows)
      /\ \A i \in 1..Len(found') :
           /\ i + Offset \in 1..Cardinality(rows)
           /\ found'[i] = q[i + Offset]
  BY <1>1, <1>2, PageIsPart
<1>4. Cardinality(rows) \in Nat /\ Cardinality(rows) <= Cardinality(Users)
      /\ Cardinality(Users) \in Nat
  BY <1>2, CountOfUsers
<1>5. PagesTypeOK'
  <2>1. Len(found') \in 0..Cardinality(Users) /\ found' \in [1..Len(found') -> Users]
    BY <1>2, <1>3, <1>4
  <2>2. found' \in UNION {[1..n -> Users] : n \in 0..Cardinality(Users)}
    BY <2>1
  <2> QED
    BY <2>2 DEF ReadPage, PagesIInv, PagesTypeOK
<1>6. PageRead'
  <2>1. ASSUME NEW i \in 1..Len(found'), NEW j \in 1..Len(found'),
               found'[i] = found'[j]
        PROVE  i = j
    <3>1. i + Offset = j + Offset
      BY <1>3, <2>1 DEF Sorted
    <3> QED
      BY <1>2, <3>1
  <2>2. DOMAIN found' = 1..Len(found')
    BY <1>3
  <2>3. Expected(Cardinality(rows))' = Expected(Cardinality(rows))
    BY DEF ReadPage, Expected, Offset
  <2> QED
    BY <1>3, <2>1, <2>2, <2>3 DEF PageRead
<1>7. AnswerTold' /\ PageFitsTotal' /\ FailsForCause'
  BY DEF ReadPage, AnswerTold, PageFitsTotal, FailsForCause
<1>8. Underway'
  BY DEF ReadPage, PagesIInv, Underway
<1>9. \A u : Rank(u)' = Rank(u) /\ Pushes(u)' = Pushes(u) /\ ~OnPage(u)
  BY DEF ReadPage, Rank, Pushes, Newer, Arrived, OnPage
<1>10. ASSUME first = 1
       PROVE  /\ Covered = Offset
              /\ limit = 0 => Covered' = Cardinality(Users)
              /\ limit # 0 => Covered' = Offset + limit
  <2>1. pageNumber >= 1
    BY <1>2, <1>10 DEF PagesIInv, Underway
  <2>2. Offset = (pageNumber - 1) * limit /\ Offset + limit = pageNumber * limit
    BY <1>2, <2>1, OffsetFacts
  <2>3. stage = "ask" /\ stage' = "count" /\ limit' = limit
        /\ pageNumber' = pageNumber
    BY DEF ReadPage
  <2> QED
    BY <1>2, <2>2, <2>3 DEF Covered
<1>11. ASSUME first = 1, NEW u \in initial \ Tied
       PROVE  /\ Rank(u) \in Nat /\ Covered \in Int /\ Covered' \in Int
              /\ Covered <= Covered'
              /\ OnPage(u)' => Rank(u) > Covered /\ Rank(u) <= Covered'
              /\ u \in rows /\ Rank(u) > Covered => OnPage(u)' \/ Rank(u) > Covered'
  <2>1. u \in Users /\ u \notin Tied
    BY <1>11 DEF PagesIInv, PagesTypeOK
  <2>2. Rank(u) \in Nat /\ Rank(u) <= Cardinality(Users)
    BY <1>2, <2>1, RankBound
  <2>3. Covered \in Int /\ Covered' \in Int /\ Covered <= Covered'
    BY <1>2, <1>4, <1>10, <1>11
  <2>4. ASSUME OnPage(u)' PROVE Rank(u) > Covered /\ Rank(u) <= Covered'
    <3>1. PICK i \in 1..Len(found') : found'[i] = u
      BY <1>3, <2>4 DEF OnPage
    <3>2. i + Offset \in 1..Cardinality(rows) /\ q[i + Offset] = u
      BY <1>3, <3>1
    <3>3. Rank(u) = i + Offset
      BY <1>2, <2>1, <3>2, PlaceOfUntied
    <3>4. limit # 0 => i <= limit
      BY <1>2, <1>3, <1>4, <3>1 DEF Expected, Least
    <3> QED
      BY <1>2, <1>10, <1>11, <2>2, <3>1, <3>3, <3>4
  <2>5. ASSUME u \in rows, Rank(u) > Covered, Rank(u) <= Covered'
        PROVE  OnPage(u)'
    <3>1. PICK k \in 1..Cardinality(rows) : q[k] = u
      BY <1>2, <2>5, OrderHoldsAll
    <3>2. Rank(u) = k
      BY <1>2, <2>1, <3>1, PlaceOfUntied
    <3>3. k > Offset /\ (limit # 0 => k <= Offset + limit)
      BY <1>10, <1>11, <2>5, <3>2
    <3>4. k - Offset \in 1..Len(found')
      BY <1>2, <1>3, <1>4, <3>1, <3>3 DEF Expected, Least
    <3>5. found'[k - Offset] = u
      <4>1. k - Offset + Offset = k
        BY <1>2, <3>1
      <4> QED
        BY <1>3, <3>1, <3>4, <4>1
    <3>6. stage' = "count"
      BY DEF ReadPage
    <3>7. DOMAIN found' = 1..Len(found')
      BY <1>3
    <3> QED
      BY <3>4, <3>5, <3>6, <3>7 DEF OnPage
  <2> QED
    BY <2>2, <2>3, <2>4, <2>5
<1>12. NoneMissed'
  <2> SUFFICES ASSUME first = 1, NEW u \in (initial \ deleted) \ Tied,
                      Newer(deleted, u) = {}, ~(listed[u] >= 1), ~OnPage(u)'
               PROVE  Rank(u) > Covered'
    BY <1>9 DEF ReadPage, NoneMissed, Tied, Newer
  <2>1. u \in rows
    BY DEF PagesIInv, Underway
  <2>2. Rank(u) > Covered
    BY <1>9 DEF ReadPage, PagesIInv, NoneMissed
  <2> QED
    BY <1>11, <2>1, <2>2
<1>13. NoneTwice'
  <2> SUFFICES ASSUME first = 1, NEW u \in initial \ Tied, Times(u)' >= 1
               PROVE  /\ Times(u)' <= 1 + Pushes(u)
                      /\ Times(u)' + Rank(u) <= 1 + Pushes(u) + Covered'
    BY <1>9 DEF ReadPage, NoneTwice, Tied
  <2>1. listed[u] \in Nat /\ Pushes(u) \in Nat
    BY WalkTypes DEF PagesIInv, PagesTypeOK
  <2>2. listed[u] >= 1 => /\ listed[u] <= 1 + Pushes(u)
                          /\ listed[u] + Rank(u) <= 1 + Pushes(u) + Covered
    <3>1. Times(u) = listed[u]
      BY <1>9, <2>1 DEF Times
    <3> QED
      BY <3>1 DEF ReadPage, PagesIInv, NoneTwice
  <2>3. Times(u)' = listed[u] + (IF OnPage(u)' THEN 1 ELSE 0)
    BY DEF ReadPage, Times
  <2> QED
    BY <1>11, <2>1, <2>2, <2>3
<1> QED
  BY <1>5, <1>6, <1>7, <1>8, <1>12, <1>13 DEF PagesIInv

LEMMA ReadPageFailsKeeps == PagesIInv /\ ReadPageFails => PagesIInv'
<1> SUFFICES ASSUME PagesIInv, ReadPageFails PROVE PagesIInv'
  OBVIOUS
<1>1. PagesTypeOK'
  BY DEF ReadPageFails, walk, PagesIInv, PagesTypeOK
<1>2. PageRead' /\ AnswerTold' /\ PageFitsTotal' /\ NoneMissed' /\ NoneTwice'
  BY DEF ReadPageFails, PageRead, AnswerTold, PageFitsTotal, NoneMissed, NoneTwice
<1>3. Underway'
  BY DEF ReadPageFails, walk, PagesIInv, Underway
<1>4. FailsForCause'
  <2>1. limit < 0 \/ pageNumber < 0
    BY WalkTypes, OffsetFacts DEF ReadPageFails, PagesIInv
  <2> QED
    BY <2>1 DEF ReadPageFails, walk, FailsForCause
<1> QED
  BY <1>1, <1>2, <1>3, <1>4 DEF PagesIInv

LEMMA ReadCountKeeps == PagesIInv /\ ReadCount => PagesIInv'
<1> SUFFICES ASSUME PagesIInv, ReadCount PROVE PagesIInv'
  OBVIOUS
<1> DEFINE Places(u) == Cardinality({i \in DOMAIN found : found[i] = u})
<1>1. Cardinality(rows) \in Nat
  BY CountOfUsers DEF PagesIInv, PagesTypeOK
<1>2. \A u \in Users : listed'[u] = listed[u] + Places(u)
  BY DEF ReadCount
<1>3. \A u : /\ Places(u) \in Nat
             /\ OnPage(u) <=> Places(u) >= 1
             /\ Places(u) <= 1
  BY TimesListed DEF ReadCount, OnPage, PagesIInv, PagesTypeOK, PageRead
<1>4. /\ pagination'.totalRecords = Cardinality(rows)
      /\ pagination'.totalPages = TotalPages(Cardinality(rows))
      /\ pagination' = Pagination(Cardinality(rows))
  BY DEF ReadCount, Pagination
<1>5. PagesTypeOK'
  <2>1. ASSUME NEW u \in Users
        PROVE  listed[u] + Places(u) \in Nat
    <3>1. listed[u] \in Nat
      BY WalkTypes DEF PagesIInv
    <3>2. Places(u) \in Nat
      BY <1>3
    <3> HIDE DEF Places
    <3> QED
      BY <3>1, <3>2
  <2>2. listed' \in [Users -> Nat]
    BY <2>1 DEF ReadCount
  <2>3. TotalPages(Cardinality(rows)) \in Nat
    BY <1>1, WalkTypes, TotalIsNat DEF PagesIInv
  <2> QED
    BY <1>1, <1>4, <2>2, <2>3 DEF ReadCount, PagesIInv, PagesTypeOK
<1>6. PageRead' /\ FailsForCause'
  BY DEF ReadCount, PageRead, FailsForCause
<1>7. AnswerTold'
  <2>1. Pagination(pagination.totalRecords)' = Pagination(Cardinality(rows))
    BY <1>4 DEF ReadCount, Pagination, TotalPages
  <2> QED
    BY <1>4, <2>1 DEF AnswerTold
<1>8. PageFitsTotal'
  <2>1. Expected(pagination.totalRecords)' = Expected(Cardinality(rows))
    BY <1>4 DEF ReadCount, Expected, Offset
  <2> QED
    BY <2>1 DEF ReadCount, PageFitsTotal, PagesIInv, PageRead
<1>9. Underway'
  BY DEF ReadCount, PagesIInv, Underway
<1>10. Covered' = Covered
       /\ \A u : Rank(u)' = Rank(u) /\ Pushes(u)' = Pushes(u) /\ ~OnPage(u)'
  BY DEF ReadCount, Covered, Rank, Pushes, Newer, Arrived, OnPage
<1>11. \A u \in initial : /\ u \in Users /\ listed[u] \in Nat
                          /\ listed'[u] = Times(u) /\ Times(u)' = Times(u)
  <2> SUFFICES ASSUME NEW u \in initial
               PROVE  /\ u \in Users /\ listed[u] \in Nat
                      /\ listed'[u] = Times(u) /\ Times(u)' = Times(u)
    OBVIOUS
  <2>1. u \in Users /\ listed[u] \in Nat
    BY WalkTypes DEF PagesIInv, PagesTypeOK
  <2>2. listed'[u] = listed[u] + Places(u)
    BY <1>2, <2>1
  <2>3. Places(u) = IF OnPage(u) THEN 1 ELSE 0
    BY <1>3
  <2>4. listed'[u] = Times(u)
    BY <2>2, <2>3 DEF Times
  <2>5. Times(u)' = listed'[u] + 0
    BY <1>10 DEF Times
  <2>6. Times(u) \in Nat
    BY <2>1 DEF Times
  <2> QED
    BY <2>1, <2>4, <2>5, <2>6
<1>12. NoneMissed'
  <2> SUFFICES ASSUME first = 1, NEW u \in (initial \ deleted) \ Tied,
                      Newer(deleted, u) = {}, ~(listed'[u] >= 1)
               PROVE  Rank(u) > Covered /\ Cardinality(rows) > Covered
    BY <1>4, <1>10 DEF ReadCount, NoneMissed, Tied, Newer
  <2>1. ~(listed[u] >= 1) /\ ~OnPage(u)
    BY <1>11 DEF Times
  <2>2. Rank(u) > Covered
    BY <2>1 DEF ReadCount, PagesIInv, NoneMissed
  <2>3. u \in rows /\ rows \subseteq Users
    BY DEF PagesIInv, Underway, PagesTypeOK
  <2>4. Rank(u) \in Nat /\ Rank(u) <= Cardinality(rows) /\ Covered \in Int
    BY <1>11, <2>3, RankBound, WalkTypes DEF PagesIInv
  <2> QED
    BY <1>1, <2>2, <2>4
<1>13. NoneTwice'
  BY <1>10, <1>11 DEF ReadCount, PagesIInv, NoneTwice, Tied
<1> QED
  BY <1>5, <1>6, <1>7, <1>8, <1>9, <1>12, <1>13 DEF PagesIInv

\* What the client compares tells whether the pages hold everybody.
LEMMA LastPage ==
  ASSUME PagesIInv, stage = "answered"
  PROVE  /\ limit >= 0
         /\ pagination.currentPage = pageNumber
         /\ limit = 0 => pagination.totalPages = 0
         /\ limit # 0 /\ pageNumber >= pagination.totalPages =>
              pageNumber * limit >= pagination.totalRecords
<1>1. pagination.totalRecords \in Nat /\ limit \in Int /\ pageNumber \in Int
  BY WalkTypes DEF PagesIInv, PagesTypeOK
<1>2. limit >= 0
  BY DEF PagesIInv, Underway
<1>3. /\ pagination.currentPage = pageNumber
      /\ pagination.totalPages = TotalPages(pagination.totalRecords)
  BY DEF PagesIInv, AnswerTold, Pagination
<1>4. limit = 0 => TotalPages(pagination.totalRecords) = 0
  BY DEF TotalPages
<1>5. limit # 0 =>
        TotalPages(pagination.totalRecords) = Ceil(pagination.totalRecords, limit)
  BY <1>1, <1>2 DEF TotalPages
<1>6. limit # 0 /\ pageNumber >= pagination.totalPages =>
        pageNumber * limit >= pagination.totalRecords
  BY <1>1, <1>2, <1>3, <1>5, CeilCovers
<1> QED
  BY <1>2, <1>3, <1>4, <1>6

LEMMA AskNextKeeps == PagesIInv /\ AskNext => PagesIInv'
<1> SUFFICES ASSUME PagesIInv, AskNext PROVE PagesIInv'
  OBVIOUS
<1>1. limit \in Int /\ pageNumber \in Int /\ first \in Int
  BY WalkTypes DEF PagesIInv
<1>2. ~(limit = 0 /\ first = 1)
  <2>1. limit = 0 /\ first = 1 => pageNumber = 1
    BY DEF PagesIInv, Underway
  <2>2. limit = 0 => pageNumber < 0
    BY LastPage DEF AskNext
  <2> QED
    BY <2>1, <2>2
<1>3. PagesTypeOK'
  <2>1. found' \in UNION {[1..n -> Users] : n \in 0..Cardinality(Users)}
    <3>1. <<>> \in [1..0 -> Users]
      OBVIOUS
    <3>2. Cardinality(Users) \in Nat
      BY PagesAssumption, FS_CardinalityType
    <3> QED
      BY <3>1, <3>2 DEF AskNext
  <2> QED
    BY <1>1, <2>1 DEF AskNext, PagesIInv, PagesTypeOK
<1>4. PageRead' /\ AnswerTold' /\ PageFitsTotal' /\ FailsForCause'
  BY DEF AskNext, PageRead, AnswerTold, PageFitsTotal, FailsForCause
<1>5. Underway'
  BY <1>1, <1>2 DEF AskNext, PagesIInv, Underway
<1>6. first = 1 => Covered' = Covered
  <2>1. limit # 0 => Covered' = (pageNumber + 1 - 1) * limit
                     /\ Covered = pageNumber * limit
    BY <1>1 DEF AskNext, Covered
  <2>2. pageNumber + 1 - 1 = pageNumber
    BY <1>1
  <2> QED
    BY <1>2, <2>1, <2>2
<1>7. \A u : /\ Rank(u)' = Rank(u) /\ Pushes(u)' = Pushes(u)
             /\ ~OnPage(u) /\ ~OnPage(u)' /\ Times(u)' = Times(u)
  BY DEF AskNext, Rank, Pushes, Newer, Arrived, OnPage, Times
<1>8. NoneMissed'
  BY <1>6, <1>7 DEF AskNext, PagesIInv, NoneMissed, Tied, Newer
<1>9. NoneTwice'
  BY <1>6, <1>7 DEF AskNext, PagesIInv, NoneTwice, Tied
<1> QED
  BY <1>3, <1>4, <1>5, <1>8, <1>9 DEF PagesIInv

LEMMA FinishKeeps == PagesIInv /\ Finish => PagesIInv'
<1> SUFFICES ASSUME PagesIInv, Finish PROVE PagesIInv'
  OBVIOUS
<1>1. PagesTypeOK'
  BY DEF Finish, walk, PagesIInv, PagesTypeOK
<1>2. PageRead' /\ AnswerTold' /\ PageFitsTotal' /\ FailsForCause'
  BY DEF Finish, PageRead, AnswerTold, PageFitsTotal, FailsForCause
<1>3. Underway'
  BY DEF Finish, walk, PagesIInv, Underway
<1>4. Covered' = Covered
  BY DEF Finish, walk, Covered
<1>5. \A u : /\ Rank(u)' = Rank(u) /\ Pushes(u)' = Pushes(u)
             /\ ~OnPage(u) /\ ~OnPage(u)' /\ Times(u)' = Times(u)
  BY DEF Finish, walk, Rank, Pushes, Newer, Arrived, OnPage, Times
<1>6. NoneMissed'
  <2> SUFFICES ASSUME first = 1, NEW u \in (initial \ deleted) \ Tied,
                      Newer(deleted, u) = {}
               PROVE  listed[u] >= 1
    BY DEF Finish, walk, NoneMissed, Tied, Newer
  <2>1. CASE listed[u] >= 1
    BY <2>1
  <2>2. CASE Rank(u) > Covered /\ pagination.totalRecords > Covered
    <3>1. pageNumber >= pagination.totalPages
      BY LastPage DEF Finish
    <3>2. limit # 0 => pageNumber * limit >= pagination.totalRecords
                       /\ Covered = pageNumber * limit
      BY <3>1, LastPage DEF Finish, Covered
    <3>3. limit = 0 => Covered = Cardinality(Users)
      BY DEF Finish, Covered
    <3>4. Rank(u) \in Nat /\ Rank(u) <= Cardinality(Users)
          /\ Cardinality(Users) \in Nat
      BY RankBound, WalkTypes DEF PagesIInv, PagesTypeOK
    <3>5. pagination.totalRecords \in Nat /\ pageNumber * limit \in Int
      BY WalkTypes DEF PagesIInv, PagesTypeOK
    <3> QED
      BY <2>2, <3>2, <3>3, <3>4, <3>5
  <2> QED
    BY <1>5, <2>1, <2>2 DEF Finish, PagesIInv, NoneMissed
<1>7. NoneTwice'
  BY <1>4, <1>5 DEF Finish, walk, PagesIInv, NoneTwice, Tied
<1> QED
  BY <1>1, <1>2, <1>3, <1>6, <1>7 DEF PagesIInv

\* Users that come and go.
LEMMA CreateKeeps ==
  ASSUME PagesIInv, NEW u \in Users, Create(u)
  PROVE  PagesIInv'
<1>1. PagesTypeOK'
  BY DEF Create, walk, PagesIInv, PagesTypeOK
<1>2. PageRead' /\ PageFitsTotal' /\ FailsForCause'
  BY DEF Create, Walking, walk, PagesIInv, PageRead, PageFitsTotal, FailsForCause
<1>3. AnswerTold'
  BY DEF Create, walk, PagesIInv, AnswerTold, Pagination, TotalPages
<1>4. Underway'
  BY DEF Create, walk, PagesIInv, Underway
<1>5. Covered' = Covered /\ \A v : OnPage(v)' = OnPage(v) /\ Times(v)' = Times(v)
  BY DEF Create, walk, Covered, OnPage, Times
<1>6. ASSUME NEW s \in SUBSET Users, u \notin s, NEW v
      PROVE  /\ Cardinality(Newer(s, v)) \in Nat
             /\ Cardinality(Newer(s \union {u}, v))
                  = Cardinality(Newer(s, v))
                      + IF CreatedAt[u] > CreatedAt[v] THEN 1 ELSE 0
  <2>1. IsFiniteSet(Newer(s, v)) /\ Cardinality(Newer(s, v)) \in Nat
    BY CountOfUsers DEF Newer
  <2>2. u \notin Newer(s, v)
    BY <1>6 DEF Newer
  <2>3. CASE CreatedAt[u] > CreatedAt[v]
    <3>1. Newer(s \union {u}, v) = Newer(s, v) \union {u}
      BY <2>3 DEF Newer
    <3>2. Cardinality(Newer(s, v) \union {u}) = Cardinality(Newer(s, v)) + 1
      BY <2>1, <2>2, FS_AddElement
    <3> QED
      BY <2>1, <2>3, <3>1, <3>2
  <2>4. CASE ~(CreatedAt[u] > CreatedAt[v])
    <3>1. Newer(s \union {u}, v) = Newer(s, v)
      BY <2>4 DEF Newer
    <3> QED
      BY <2>1, <2>4, <3>1
  <2> QED
    BY <2>3, <2>4
<1>7. \A v : /\ Rank(v) \in Nat /\ Pushes(v) \in Nat
             /\ \/ Rank(v)' = Rank(v) /\ Pushes(v)' = Pushes(v)
                \/ Rank(v)' = Rank(v) + 1 /\ Pushes(v)' = Pushes(v) + 1
  <2>1. rows \subseteq Users /\ u \notin rows /\ rows' = rows \union {u}
    BY DEF Create, PagesIInv, PagesTypeOK
  <2>2. Arrived \subseteq Users /\ u \notin Arrived /\ Arrived' = Arrived \union {u}
    BY DEF Create, walk, Arrived, PagesIInv, PagesTypeOK
  <2>3. \A v : Newer(rows, v)' = Newer(rows \union {u}, v)
    BY <2>1 DEF Newer
  <2>4. \A v : Newer(Arrived, v)' = Newer(Arrived \union {u}, v)
    BY <2>2 DEF Newer
  <2> SUFFICES ASSUME NEW v
               PROVE  /\ Rank(v) \in Nat /\ Pushes(v) \in Nat
                      /\ \/ Rank(v)' = Rank(v) /\ Pushes(v)' = Pushes(v)
                         \/ Rank(v)' = Rank(v) + 1 /\ Pushes(v)' = Pushes(v) + 1
    OBVIOUS
  <2> DEFINE one == IF CreatedAt[u] > CreatedAt[v] THEN 1 ELSE 0
  <2>5. Rank(v) \in Nat /\ Rank(v)' = Rank(v) + one
    BY <1>6, <2>1, <2>3 DEF Rank
  <2>6. Pushes(v) \in Nat /\ Pushes(v)' = Pushes(v) + one
    BY <1>6, <2>2, <2>4 DEF Pushes
  <2> QED
    BY <2>5, <2>6
<1>8. \A v \in initial : v \in Users /\ Times(v) \in Nat
  BY WalkTypes DEF PagesIInv, PagesTypeOK, Times
<1>9. NoneMissed'
  <2> SUFFICES ASSUME first = 1, NEW v \in (initial \ deleted) \ Tied,
                      Newer(deleted, v) = {}, ~(listed[v] >= 1), ~OnPage(v)
               PROVE  /\ stage # "done" /\ Rank(v)' > Covered
                      /\ stage = "answered" => pagination.totalRecords > Covered
    BY <1>5 DEF Create, walk, NoneMissed, Tied, Newer
  <2>1. /\ stage # "done" /\ Rank(v) > Covered
        /\ stage = "answered" => pagination.totalRecords > Covered
    BY DEF Create, Walking, PagesIInv, NoneMissed
  <2>2. Covered \in Int
    BY WalkTypes DEF PagesIInv
  <2> QED
    BY <1>7, <2>1, <2>2
<1>10. NoneTwice'
  <2> SUFFICES ASSUME first = 1, NEW v \in initial \ Tied, Times(v) >= 1
               PROVE  /\ Times(v) <= 1 + Pushes(v)'
                      /\ Times(v) + Rank(v)' <= 1 + Pushes(v)' + Covered
    BY <1>5 DEF Create, walk, NoneTwice, Tied
  <2>1. /\ Times(v) <= 1 + Pushes(v)
        /\ Times(v) + Rank(v) <= 1 + Pushes(v) + Covered
    BY DEF Create, Walking, PagesIInv, NoneTwice
  <2>2. Covered \in Int
    BY WalkTypes DEF PagesIInv
  <2> QED
    BY <1>7, <1>8, <2>1, <2>2
<1> QED
  BY <1>1, <1>2, <1>3, <1>4, <1>9, <1>10 DEF PagesIInv

LEMMA DeleteKeeps ==
  ASSUME PagesIInv, NEW u \in Users, Delete(u)
  PROVE  PagesIInv'
<1>1. PagesTypeOK'
  BY DEF Delete, walk, PagesIInv, PagesTypeOK
<1>2. PageRead' /\ PageFitsTotal' /\ FailsForCause'
  BY DEF Delete, Walking, walk, PagesIInv, PageRead, PageFitsTotal, FailsForCause
<1>3. AnswerTold'
  BY DEF Delete, walk, PagesIInv, AnswerTold, Pagination, TotalPages
<1>4. Underway'
  BY DEF Delete, walk, PagesIInv, Underway
<1>5. Covered' = Covered /\ \A v : OnPage(v)' = OnPage(v) /\ Times(v)' = Times(v)
  BY DEF Delete, walk, Covered, OnPage, Times
<1>6. \A v : Pushes(v)' = Pushes(v) /\ Pushes(v) \in Nat
  <2>1. Arrived' = Arrived
    BY DEF Delete, walk, Arrived
  <2> QED
    BY <2>1, WalkTypes DEF Pushes, Newer, PagesIInv
<1>7. \A v : Rank(v) \in Nat /\ Rank(v)' \in Nat /\ Rank(v)' <= Rank(v)
  <2> SUFFICES ASSUME NEW v
               PROVE  Rank(v) \in Nat /\ Rank(v)' \in Nat /\ Rank(v)' <= Rank(v)
    OBVIOUS
  <2>1. rows \subseteq Users /\ rows' \subseteq rows
    BY DEF Delete, PagesIInv, PagesTypeOK
  <2>2. Newer(rows', v) \subseteq Newer(rows, v) /\ Newer(rows, v) \subseteq Users
    BY <2>1 DEF Newer
  <2>3. /\ Cardinality(Newer(rows, v)) \in Nat /\ Cardinality(Newer(rows', v)) \in Nat
        /\ Cardinality(Newer(rows', v)) <= Cardinality(Newer(rows, v))
    BY <2>2, CountOfUsers
  <2>4. Newer(rows, v)' = Newer(rows', v)
    BY DEF Newer
  <2> QED
    BY <2>3, <2>4 DEF Rank
<1>8. \A v \in initial : v \in Users /\ Times(v) \in Nat
  BY WalkTypes DEF PagesIInv, PagesTypeOK, Times
<1>9. NoneMissed'
  <2> SUFFICES ASSUME first = 1, NEW v \in (initial \ deleted') \ Tied,
                      Newer(deleted', v) = {}, ~(listed[v] >= 1), ~OnPage(v)
               PROVE  /\ stage # "done" /\ Rank(v)' > Covered
                      /\ stage = "answered" => pagination.totalRecords > Covered
    BY <1>5 DEF Delete, walk, NoneMissed, Tied, Newer
  <2>1. v \in (initial \ deleted) \ Tied /\ Newer(deleted, v) = {}
    BY DEF Delete, Newer
  <2>2. /\ stage # "done" /\ Rank(v) > Covered
        /\ stage = "answered" => pagination.totalRecords > Covered
    BY <2>1 DEF Delete, Walking, PagesIInv, NoneMissed
  <2>3. Newer(rows, v)' = Newer(rows, v)
    BY DEF Delete, Newer
  <2> QED
    BY <2>2, <2>3 DEF Rank
<1>10. NoneTwice'
  <2> SUFFICES ASSUME first = 1, NEW v \in initial \ Tied, Times(v) >= 1
               PROVE  /\ Times(v) <= 1 + Pushes(v)
                      /\ Times(v) + Rank(v)' <= 1 + Pushes(v) + Covered
    BY <1>5, <1>6 DEF Delete, walk, NoneTwice, Tied
  <2>1. /\ Times(v) <= 1 + Pushes(v)
        /\ Times(v) + Rank(v) <= 1 + Pushes(v) + Covered
    BY DEF Delete, Walking, PagesIInv, NoneTwice
  <2>2. Covered \in Int
    BY WalkTypes DEF PagesIInv
  <2> QED
    BY <1>6, <1>7, <1>8, <2>1, <2>2
<1> QED
  BY <1>1, <1>2, <1>3, <1>4, <1>9, <1>10 DEF PagesIInv

LEMMA PagesInductive == PagesSpec => []PagesIInv
<1>1. PagesIInv /\ [PagesNext]_pagesVars => PagesIInv'
  <2> SUFFICES ASSUME PagesIInv, [PagesNext]_pagesVars PROVE PagesIInv'
    OBVIOUS
  <2>1. CASE PagesNext
    BY <2>1, ReadPageKeeps, ReadPageFailsKeeps, ReadCountKeeps, AskNextKeeps,
       FinishKeeps, CreateKeeps, DeleteKeeps DEF PagesNext
  <2>2. CASE UNCHANGED pagesVars
    BY <2>2
    DEF pagesVars, walk, PagesIInv, PagesTypeOK, PageRead, AnswerTold, PageFitsTotal,
        Underway, NoneMissed, NoneTwice, FailsForCause, Rank, Covered, OnPage, Tied,
        Times, Pushes, Newer, Arrived,
        Expected, Offset, Pagination, TotalPages
  <2> QED
    BY <2>1, <2>2
<1> QED
  BY PagesInitIInv, <1>1, PTL DEF PagesSpec

-------------------------------------------------------------------------------

\* The variables of a listing have their types, for any finite set of users,
\* whatever limits and pages are asked for: sizes of pages and totals are
\* natural numbers, and no page has more rows than there are users.
THEOREM PagesTypeCorrect == PagesSpec => []PagesTypeOK
<1>1. PagesIInv => PagesTypeOK
  BY DEF PagesIInv
<1> QED
  BY PagesInductive, <1>1, PTL

\* A page fits the total told with it if nothing changed between the queries;
\* a walk misses a user only if a newer one was deleted and lists one again at
\* most once for every newer one that was created; a request of it fails only
\* for a negative limit or page.
THEOREM ListingTheorem == PagesSpec => []ListingIsTrue
<1>1. PagesIInv => ListingIsTrue
  <2> SUFFICES ASSUME PagesIInv PROVE ListingIsTrue
    OBVIOUS
  <2>1. ASSUME stage = "done", first = 1, NEW u \in (initial \ deleted) \ Tied
        PROVE  /\ Newer(deleted, u) = {} => listed[u] >= 1
               /\ listed[u] <= 1 + Cardinality(Newer(Arrived, u))
    <3>1. ~OnPage(u) /\ listed[u] \in Nat
      BY <2>1, WalkTypes DEF OnPage, PagesIInv, PagesTypeOK
    <3>2. Times(u) = listed[u] /\ Pushes(u) \in Nat
      BY <3>1, WalkTypes DEF Times, PagesIInv
    <3>3. Newer(deleted, u) = {} => listed[u] >= 1
      BY <2>1, <3>1 DEF PagesIInv, NoneMissed
    <3>4. listed[u] >= 1 => listed[u] <= 1 + Pushes(u)
      BY <2>1, <3>2 DEF PagesIInv, NoneTwice
    <3> QED
      BY <3>1, <3>2, <3>3, <3>4 DEF Pushes
  <2>2. WalkIsWhole
    BY <2>1 DEF WalkIsWhole, PagesIInv, FailsForCause
  <2> QED
    BY <2>2 DEF ListingIsTrue, PagesIInv
<1> QED
  BY PagesInductive, <1>1, PTL

===============================================================================

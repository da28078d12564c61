------------------------------ MODULE CursorWalk ------------------------------
(***************************************************************************)
(* Walking over the users with cursors.  The server keeps nothing: a page  *)
(* comes with the cursors of its two ends, and the client asks for the     *)
(* page after the one or before the other, while users come and go.        *)
(*                                                                         *)
(* The database keeps createdAt in microseconds, a cursor has milliseconds *)
(* and is compared with createdAt cut to milliseconds.  So a row has its   *)
(* millisecond, Ms, and the rest of its createdAt, Sub.                    *)
(***************************************************************************)
EXTENDS Integers, FiniteSets

CONSTANTS
  Rows,    \* the users there will ever be
  Ms,      \* Ms[r], createdAt of row r in milliseconds
  Sub,     \* Sub[r], the microseconds beyond that
  Limits,  \* the limits that clients ask for
  Null     \* the null of the code

ASSUME WalkAssumption ==
  /\ IsFiniteSet(Rows)
  /\ Ms \in [Rows -> Nat]
  /\ Sub \in [Rows -> Nat]
  /\ Limits \subseteq Int
  /\ Null \notin Nat

VARIABLES
  visible,  \* the rows of the table that are not soft-deleted
  gone,     \* the soft-deleted rows
  page,     \* the last answer: the rows and the two cursors
  asked,    \* the limit it was asked with
  dir,      \* the direction of the client's present run
  seen,     \* the rows shown earlier in this run
  used,     \* the cursors sent in this run
  stayed    \* the rows that lay ahead when the run began and are still there

vars == <<visible, gone, page, asked, dir, seen, used, stayed>>

Cursors == Nat \union {Null}
NoPage == [rows |-> {}, after |-> Null, before |-> Null]

TypeOK ==
  /\ visible \subseteq Rows
  /\ gone \subseteq Rows
  /\ page \in [rows : SUBSET Rows, after : Cursors, before : Cursors]
  /\ asked \in Limits \union {Null}
  /\ dir \in {"forward", "back"}
  /\ seen \subseteq Rows
  /\ used \subseteq Nat
  /\ stayed \subseteq Rows

Init ==
  /\ visible \in SUBSET Rows
  /\ gone = {}
  /\ page = NoPage
  /\ asked = Null
  /\ dir = "forward"
  /\ seen = {}
  /\ used = {}
  /\ stayed = {}

-------------------------------------------------------------------------------
(* Paginator.paginate, with the one key createdAt in descending order. *)

\* r was created before q, as the database orders them.
Older(r, q) == Ms[r] < Ms[q] \/ (Ms[r] = Ms[q] /\ Sub[r] < Sub[q])

\* Faulty variant: the comparison admits the row of the cursor.
MatchingOrEqual(after, before) ==
  {r \in visible :
     IF after # Null THEN Ms[r] <= after
     ELSE before # Null => Ms[r] >= before}

\* buildCursorQuery and getOperator; the after cursor takes precedence.
Matching(after, before) ==
  {r \in visible :
     IF after # Null THEN Ms[r] < after
     ELSE before # Null => Ms[r] > before}

\* limit, an integer that the minimum of 1 only documents: buildPaginator
\* leaves out a limit of 0, and the default of the class stays.
Size(limit) == IF limit = 0 THEN 100 ELSE limit

\* take(limit + 1): PostgreSQL refuses a negative LIMIT, and the request fails.
Served(limit) == Size(limit) >= -1

\* hasMore: more rows were read than the limit.  A limit of -1 takes 0, which is
\* no LIMIT, and every length is more than -1.
HasMore(matching, limit) == Cardinality(matching) > Size(limit)

\* How many rows are left of those without the last, if there is more.
Left(matching, limit) ==
  LET found == Cardinality(matching)
  IN  IF limit = -1 THEN IF found = 0 THEN 0 ELSE found - 1
      ELSE IF HasMore(matching, limit) THEN Size(limit) ELSE found

\* Faulty variant: the order is not flipped for the before cursor.
NearestUnflipped(rows, matching, limit, flipped) ==
  /\ Cardinality(rows) = Left(matching, limit)
  /\ \A r \in rows, q \in matching \ rows : ~Older(r, q)

\* The rows that are left, the first of the order, rows of equal createdAt in any
\* order.
Nearest(rows, matching, limit, flipped) ==
  /\ Cardinality(rows) = Left(matching, limit)
  /\ \A r \in rows, q \in matching \ rows :
       IF flipped THEN ~Older(q, r) ELSE ~Older(r, q)

\* Faulty variant: the cursor is the row itself.
EncodeRow(r) == r

\* getTime of the Date that the driver makes of createdAt.
Encode(r) == Ms[r]

\* The cursors of an answer whose newest row comes first, oldest last.
Answer(rows, first, last, more, after, before) ==
  [rows |-> rows,
   after |-> IF before # Null \/ more THEN Encode(last) ELSE Null,
   before |-> IF after # Null \/ (more /\ before # Null)
              THEN Encode(first) ELSE Null]

\* A request that is answered; one that fails changes nothing.
Fetch(after, before) ==
  \E limit \in Limits, rows \in SUBSET Matching(after, before) :
    LET matching == Matching(after, before)
    IN  /\ Served(limit)
        /\ asked' = limit
        /\ Nearest(rows, matching, limit, after = Null /\ before # Null)
        /\ \/ rows = {} /\ page' = NoPage
           \/ \E first, last \in rows :
                /\ \A r \in rows : ~Older(first, r) /\ ~Older(r, last)
                /\ page' = Answer(rows, first, last, HasMore(matching, limit),
                                  after, before)

-------------------------------------------------------------------------------
(* The client, and the table meanwhile. *)

\* The first page, without a cursor.
Start ==
  /\ Fetch(Null, Null)
  /\ dir' = "forward"
  /\ seen' = {}
  /\ used' = {}
  /\ stayed' = visible
  /\ UNCHANGED <<visible, gone>>

\* A run goes on, or a new one begins at the present page.
Continue(direction, cursor, ahead) ==
  /\ dir' = direction
  /\ seen' = (IF dir = direction THEN seen ELSE {}) \union page.rows
  /\ used' = (IF dir = direction THEN used ELSE {}) \union {cursor}
  /\ stayed' = IF dir = direction THEN stayed ELSE ahead
  /\ UNCHANGED <<visible, gone>>

\* The page after this one.  A client may send the before cursor along, which
\* changes nothing but the cursors of the answer.
Forward ==
  /\ page.after # Null
  /\ \E before \in {Null, page.before} : Fetch(page.after, before)
  /\ Continue("forward", page.after, {r \in visible : Ms[r] < page.after})

Back ==
  /\ page.before # Null
  /\ Fetch(Null, page.before)
  /\ Continue("back", page.before, {r \in visible : Ms[r] > page.before})

\* A user is created.  Its createdAt is the time at which its transaction
\* began, or the clock of the process that made it, so it need not be the
\* newest one when it appears.
Insert(r) ==
  /\ r \notin visible \union gone
  /\ visible' = visible \union {r}
  /\ UNCHANGED <<gone, page, asked, dir, seen, used, stayed>>

DeleteUser(r) ==
  /\ r \in visible
  /\ visible' = visible \ {r}
  /\ gone' = gone \union {r}
  /\ stayed' = stayed \ {r}
  /\ UNCHANGED <<page, asked, dir, seen, used>>

Next ==
  \/ Start \/ Forward \/ Back
  \/ \E r \in Rows : Insert(r) \/ DeleteUser(r)

Spec == Init /\ [][Next]_vars

-------------------------------------------------------------------------------
(* Properties. *)

\* The cursor with which the run would go on.
NextCursor == IF dir = "forward" THEN page.after ELSE page.before

\* Whatever comes and goes, the pages of a run follow one another in time: a
\* page lies wholly beyond everything the run has shown, so no user is shown
\* twice and every run comes to an end.
PagesInOrder ==
  \A r \in page.rows, q \in seen :
    IF dir = "forward" THEN Ms[r] < Ms[q] ELSE Ms[r] > Ms[q]

\* The row can still come up in this run.
Ahead(r) ==
  /\ NextCursor # Null
  /\ IF dir = "forward" THEN Ms[r] < NextCursor ELSE Ms[r] > NextCursor

\* Those who were there when the run began, and stayed, whom it has not shown
\* and will not show, though no page of it ended in their millisecond.
Lost ==
  {r \in stayed : /\ r \notin seen \union page.rows /\ ~Ahead(r)
                  /\ Ms[r] \notin used \union {NextCursor}}

\* A user that was there when the run began, and stayed, has been shown or is
\* still ahead, unless it was created in the very millisecond at which one
\* page of the run ended: those the strict comparison of truncated times
\* leaves out.  Only a limit of -1 loses one user more, the last there is: it is
\* dropped as if it began a further page, and leaves the answer empty.
OnlyBoundarySkipped ==
  Lost # {} => asked = -1 /\ page = NoPage /\ \A r, q \in Lost : r = q

===============================================================================

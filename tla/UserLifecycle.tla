---------------------------- MODULE UserLifecycle ----------------------------
(***************************************************************************)
(* The requests that change an account: updateUserProfile and deleteUser,  *)
(* over REST or GraphQL, each behind AuthGuard.  An update reads the       *)
(* username, changes it through Better Auth, writes the other fields with  *)
(* TypeORM and reads the account again: four calls to two clients of the   *)
(* same table, without a transaction.  Sessions are in Redis and outlive   *)
(* the account; the table keeps deleted accounts, and only the lookups of  *)
(* TypeORM leave them out.                                                 *)
(*                                                                         *)
(* The fields that the update writes itself, firstName and lastName, stand *)
(* as one value: the request that wrote them last.                         *)
(***************************************************************************)
CONSTANTS
  Users,      \* the accounts
  Requests,   \* the calls of updateUserProfile and deleteUser
  Op,         \* Op[r], what request r calls, and how
  Caller,     \* Caller[r], the account whose session request r presents
  Target,     \* Target[r], the account it is about
  Usernames,  \* the usernames there are
  Asked,      \* Asked[r], the username of an update, Null if it has none
  Lower,      \* Lower[n], username n in lower case, as Better Auth keeps it
  First,      \* First[u], the username with which account u was created
  Status,     \* HttpStatus.OK, the answer of a delete
  Null        \* no username, and no request

Ops == {"update", "delete", "mutation"}
Account == [username : Usernames, names : Requests \union {Null}]

ASSUME LifecycleAssumption ==
  /\ Op \in [Requests -> Ops]
  /\ Caller \in [Requests -> Users]
  /\ Target \in [Requests -> Users]
  /\ \A r \in Requests : Op[r] = "update" => Caller[r] = Target[r]
  /\ Asked \in [Requests -> Usernames \union {Null}]
  /\ Lower \in [Usernames -> Usernames]
  /\ \A n \in Usernames : Lower[Lower[n]] = Lower[n]
  /\ First \in [Users -> Usernames]
  /\ \A u, v \in Users : First[u] = First[v] => u = v
  /\ Null \notin Usernames \union Requests
  /\ Status \notin Account /\ Null \notin Account /\ Status # Null

VARIABLES
  live,      \* the accounts that are not soft-deleted
  username,  \* username[u], also of a deleted account
  names,     \* names[u], the request that wrote the other fields last
  sessions,  \* the accounts that have a session in Redis
  pc,        \* pc[r], the call that request r makes next, or its answer
  rename,    \* the updates that will hand their username to Better Auth
  result,    \* result[r], the value an answer 200 carries
  changed,   \* changed[r], the parts of the account that r has written
  failed,    \* the requests one of whose calls failed, or that died
  met        \* met[r], the requests about r's target that ran while r ran

vars == <<live, username, names, sessions, pc, rename, result, changed,
          failed, met>>

Running == {"find", "better", "write", "read", "check", "remove"}
Refusals == {"401", "404", "500"}
Parts == {"username", "names"}

TypeOK ==
  /\ live \subseteq Users
  /\ username \in [Users -> Usernames]
  /\ names \in [Users -> Requests \union {Null}]
  /\ sessions \subseteq Users
  /\ pc \in [Requests -> {"idle", "dead", "200"} \union Running \union Refusals]
  /\ rename \subseteq Requests
  /\ result \in [Requests -> Account \union {Status, Null}]
  /\ changed \in [Requests -> SUBSET Parts]
  /\ failed \subseteq Requests
  /\ met \in [Requests -> SUBSET Requests]

Init ==
  /\ live = Users
  /\ username = First
  /\ names = [u \in Users |-> Null]
  /\ sessions = Users
  /\ pc = [r \in Requests |-> "idle"]
  /\ rename = {}
  /\ result = [r \in Requests |-> Null]
  /\ changed = [r \in Requests |-> {}]
  /\ failed = {}
  /\ met = [r \in Requests |-> {}]

-------------------------------------------------------------------------------

Meets(r) == {s \in Requests \ {r} : Target[s] = Target[r] /\ pc[s] \in Running}

\* The first call of the method behind the guard.
FirstCall(r) ==
  IF Op[r] # "update" THEN "check"
  ELSE IF Asked[r] # Null THEN "find" ELSE "better"

\* AuthGuard: no session, no handler.
Guard(r) ==
  /\ pc[r] = "idle"
  /\ IF Caller[r] \in sessions
     THEN /\ pc' = [pc EXCEPT ![r] = FirstCall(r)]
          /\ met' = [s \in Requests |->
                       IF s = r THEN Meets(r)
                       ELSE IF s \in Meets(r) THEN met[s] \union {r} ELSE met[s]]
     ELSE /\ pc' = [pc EXCEPT ![r] = "401"]
          /\ UNCHANGED met
  /\ UNCHANGED <<live, username, names, sessions, rename, result, changed, failed>>

-------------------------------------------------------------------------------
(* updateUserProfile. *)

\* Faulty variant: the username is compared with nothing.
FindUsernameUncompared(r) ==
  /\ pc[r] = "find"
  /\ pc' = [pc EXCEPT ![r] = IF Target[r] \in live THEN "better" ELSE "404"]
  /\ UNCHANGED <<live, username, names, sessions, rename, result, changed,
                 failed, met>>

\* The username as it is, to see whether it has to be changed.
FindUsername(r) ==
  /\ pc[r] = "find"
  /\ IF Target[r] \in live
     THEN /\ pc' = [pc EXCEPT ![r] = "better"]
          /\ rename' = IF username[Target[r]] # Asked[r]
                       THEN rename \union {r} ELSE rename
     ELSE /\ pc' = [pc EXCEPT ![r] = "404"]
          /\ UNCHANGED rename
  /\ UNCHANGED <<live, username, names, sessions, result, changed, failed, met>>

\* Better Auth takes the update if the session still stands, and PostgreSQL if
\* no other account has the username: its index is unique among the accounts
\* that are not deleted.  Better Auth itself knows nothing of deletions; what
\* it refuses beyond this is CallFails.
UpdateUser(r) ==
  /\ pc[r] = "better"
  /\ Caller[r] \in sessions
  /\ r \in rename /\ Target[r] \in live =>
       \A u \in live \ {Target[r]} : username[u] # Lower[Asked[r]]
  /\ pc' = [pc EXCEPT ![r] = "write"]
  /\ IF r \in rename
     THEN /\ username' = [username EXCEPT ![Target[r]] = Lower[Asked[r]]]
          /\ changed' = [changed EXCEPT ![r] = @ \union {"username"}]
     ELSE UNCHANGED <<username, changed>>
  /\ UNCHANGED <<live, names, sessions, rename, result, failed, met>>

\* update of TypeORM, which writes deleted rows too.
WriteNames(r) ==
  /\ pc[r] = "write"
  /\ pc' = [pc EXCEPT ![r] = "read"]
  /\ names' = [names EXCEPT ![Target[r]] = r]
  /\ changed' = [changed EXCEPT ![r] = @ \union {"names"}]
  /\ UNCHANGED <<live, username, sessions, rename, result, failed, met>>

\* Faulty variant: the answer is read without looking for a deletion.
ReadBackDeleted(r) ==
  /\ pc[r] = "read"
  /\ pc' = [pc EXCEPT ![r] = "200"]
  /\ result' = [result EXCEPT ![r] = [username |-> username[Target[r]],
                                      names |-> names[Target[r]]]]
  /\ UNCHANGED <<live, username, names, sessions, rename, changed, failed, met>>

\* Faulty variant: the account is looked for by the username asked for.
ReadBackByName(r) ==
  /\ pc[r] = "read"
  /\ IF Target[r] \in live /\ Asked[r] \in {Null, username[Target[r]]}
     THEN /\ pc' = [pc EXCEPT ![r] = "200"]
          /\ result' = [result EXCEPT ![r] = [username |-> username[Target[r]],
                                              names |-> names[Target[r]]]]
     ELSE /\ pc' = [pc EXCEPT ![r] = "404"]
          /\ UNCHANGED result
  /\ UNCHANGED <<live, username, names, sessions, rename, changed, failed, met>>

\* findOneUser at the end.
ReadBack(r) ==
  /\ pc[r] = "read"
  /\ IF Target[r] \in live
     THEN /\ pc' = [pc EXCEPT ![r] = "200"]
          /\ result' = [result EXCEPT ![r] = [username |-> username[Target[r]],
                                              names |-> names[Target[r]]]]
     ELSE /\ pc' = [pc EXCEPT ![r] = "404"]
          /\ UNCHANGED result
  /\ UNCHANGED <<live, username, names, sessions, rename, changed, failed, met>>

-------------------------------------------------------------------------------
(* deleteUser. *)

\* Faulty variant: the account is not looked for.
FindOrFailSkipped(r) ==
  /\ pc[r] = "check"
  /\ pc' = [pc EXCEPT ![r] = "remove"]
  /\ UNCHANGED <<live, username, names, sessions, rename, result, changed,
                 failed, met>>

\* findOneByOrFail; nothing turns its error into a 404.
FindOrFail(r) ==
  /\ pc[r] = "check"
  /\ pc' = [pc EXCEPT ![r] = IF Target[r] \in live THEN "remove" ELSE "500"]
  /\ UNCHANGED <<live, username, names, sessions, rename, result, changed,
                 failed, met>>

\* Faulty variant: a delete has its own answer, 204.
SoftDeleteNoContent(r) ==
  /\ pc[r] = "remove"
  /\ pc' = [pc EXCEPT ![r] = "204"]
  /\ live' = live \ {Target[r]}
  /\ UNCHANGED <<username, names, sessions, rename, result, changed, failed, met>>

\* softDelete, which a second time only moves deletedAt; the answer is the
\* number 200 for REST and GraphQL alike.
SoftDelete(r) ==
  /\ pc[r] = "remove"
  /\ pc' = [pc EXCEPT ![r] = "200"]
  /\ live' = live \ {Target[r]}
  /\ result' = [result EXCEPT ![r] = Status]
  /\ UNCHANGED <<username, names, sessions, rename, changed, failed, met>>

-------------------------------------------------------------------------------

\* A call that is not answered may have been carried out all the same.  For
\* the writes of an update this is a failure of the call after it.
Unanswered(r) ==
  /\ failed' = failed \union {r}
  /\ \/ UNCHANGED live
     \/ pc[r] = "remove" /\ live' = live \ {Target[r]}
  /\ UNCHANGED <<username, names, sessions, rename, result, changed, met>>

\* The pending call rejects, that of the guard and Better Auth's refusals
\* included.
CallFails(r) ==
  /\ pc[r] \in Running \union {"idle"}
  /\ pc' = [pc EXCEPT ![r] = "500"]
  /\ Unanswered(r)

\* The server process dies under the request.
Die(r) ==
  /\ pc[r] \in Running
  /\ pc' = [pc EXCEPT ![r] = "dead"]
  /\ Unanswered(r)

\* A session runs out or is signed out of.
EndSession(u) ==
  /\ u \in sessions
  /\ sessions' = sessions \ {u}
  /\ UNCHANGED <<live, username, names, pc, rename, result, changed, failed, met>>

Step(r) ==
  \/ FindUsername(r) \/ UpdateUser(r) \/ WriteNames(r) \/ ReadBack(r)
  \/ FindOrFail(r) \/ SoftDelete(r)

Next ==
  \/ \E r \in Requests : Guard(r) \/ Step(r) \/ CallFails(r) \/ Die(r)
  \/ \E u \in Users : EndSession(u)

Spec == Init /\ [][Next]_vars

-------------------------------------------------------------------------------
(* Properties. *)

Updates == {r \in Requests : Op[r] = "update"}
Deletes == Requests \ Updates

\* An update that answers 200 shows the account as it asked for it, the
\* username as given or in lower case and the names, unless it ran at the same
\* time as another update of the account: then it may show a mixture, or have
\* left out its username because the other update had not changed it yet.
OkShowsWhatWasAsked ==
  \A r \in Updates :
    pc[r] = "200" /\ met[r] \intersect Updates = {} =>
      /\ result[r].names = r
      /\ Asked[r] # Null => result[r].username \in {Asked[r], Lower[Asked[r]]}

\* An update that was refused has changed nothing, unless one of its calls
\* failed half-way or the account is deleted: a deleted account that has a
\* session is still written to.
RefusedChangedNothing ==
  \A r \in Updates :
    pc[r] \in Refusals /\ changed[r] # {} => r \in failed \/ Target[r] \notin live

\* Two deletes of one account both answer 200 only when they ran at the same
\* time; otherwise the second one does not find it.
SecondDeleteFails ==
  \A r, s \in Deletes :
    r # s /\ Target[r] = Target[s] /\ pc[r] = "200" /\ pc[s] = "200"
    => r \in met[s]

\* Nobody is shown a deleted account: an update that answers 200 began before
\* any delete that answered 200 was over.
NotShownAfterDelete ==
  [][\A r \in Updates :
       pc[r] # "200" /\ pc'[r] = "200" =>
         \A s \in Deletes : Target[s] = Target[r] => pc[s] # "200"]_vars

\* The schema of the mutation, "@Mutation(() => UserSchema)": a successful
\* delete over GraphQL answers with an account.
MutationAnswersUser ==
  \A r \in Requests :
    Op[r] = "mutation" /\ pc[r] = "200" => result[r] # Status

===============================================================================

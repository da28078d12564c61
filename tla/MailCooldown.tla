----------------------------- MODULE MailCooldown -----------------------------
(***************************************************************************)
(* The authentication mails of AuthService and the cooldown in front of    *)
(* them.  A request for a mail looks at the remaining time of a marker in  *)
(* Redis, adds a job to the email queue and writes the marker: three       *)
(* awaited calls, between which every other request of every server       *)
(* process may run and any of which may fail, or lose its process.         *)
(*                                                                         *)
(* A request is an element of Requests; Kind and User say what it asks     *)
(* for.  Time is a counter of ticks, Cooldown of them standing for the     *)
(* 30 000 ms of the code.                                                  *)
(***************************************************************************)
EXTENDS Integers

CONSTANTS
  Users,     \* the accounts
  Requests,  \* the calls of sendSigninMagicLink, verifyEmail, resetPassword
  Kind,      \* Kind[r], the mail that request r asks for
  User,      \* User[r], the account that request r is about
  Cooldown,  \* the ttl of a marker, in ticks
  MaxTime,   \* bound on the clock
  Never,     \* the time of what has not happened
  Null       \* the null of the code

Kinds == {"signin-magic-link", "email-verification", "reset-password"}

ASSUME CooldownAssumption ==
  /\ Kind \in [Requests -> Kinds]
  /\ User \in [Requests -> Users]
  /\ Cooldown \in Nat \ {0}
  /\ MaxTime \in Nat
  /\ Never \notin Int /\ Null \notin Int

VARIABLES
  now,         \* the clock
  registered,  \* the accounts that userRepository.findOne finds
  expiry,      \* expiry[k], when Redis drops the marker under cache key k
  pc,          \* pc[r], the call that request r makes next, or its answer
  checked,     \* checked[r], when r read the remaining ttl
  added,       \* added[r], when r's job entered the email queue
  wrote        \* wrote[r], when r's marker was written

vars == <<now, registered, expiry, pc, checked, added, wrote>>

Running == {"lookup", "check", "add", "set"}
Answers == {"200", "404", "429", "500"}
Time == Nat \union {Never}

\* A key of the cache, the template of CacheKey filled with the user's id.
CacheKey(kind, user) ==
  <<IF kind = "signin-magic-link" THEN "SignInMagicLinkMailLastSentAt"
    ELSE IF kind = "email-verification" THEN "EmailVerificationMailLastSentAt"
    ELSE "ResetPasswordMailLastSentAt",
    user>>

\* Faulty variant: the reset mail copied with the magic link's key.
KeyOfCopied(r) ==
  CacheKey(IF Kind[r] = "reset-password" THEN "signin-magic-link" ELSE Kind[r],
           User[r])

KeyOf(r) == CacheKey(Kind[r], User[r])
CacheKeys == {CacheKey(k, u) : k \in Kinds, u \in Users}

TypeOK ==
  /\ now \in Nat
  /\ registered \subseteq Users
  /\ expiry \in [CacheKeys -> Time]
  /\ pc \in [Requests -> {"idle", "dead"} \union Running \union Answers]
  /\ checked \in [Requests -> Time]
  /\ added \in [Requests -> Time]
  /\ wrote \in [Requests -> Time]

Init ==
  /\ now = 0
  /\ registered = Users
  /\ expiry = [k \in CacheKeys |-> Never]
  /\ pc = [r \in Requests |-> "idle"]
  /\ checked = [r \in Requests |-> Never]
  /\ added = [r \in Requests |-> Never]
  /\ wrote = [r \in Requests |-> Never]

-------------------------------------------------------------------------------
(* What CacheService.getTtl answers. *)

\* PTTL of Redis: -2 when there is no such key.  A key in its last
\* millisecond still answers, with 0.
Pttl(k) ==
  IF expiry[k] = Never THEN -2
  ELSE IF expiry[k] < now THEN -2 ELSE expiry[k] - now

\* getTtl hides the -1 and -2 of Redis behind null.
GetTtl(k) == IF Pttl(k) \in {-1, -2} THEN Null ELSE Pttl(k)

Limited(k) == GetTtl(k) # Null /\ GetTtl(k) # 0

-------------------------------------------------------------------------------
(* One request.  Each action is one awaited call and what follows it up to *)
(* the next await.                                                         *)

\* The handler is entered; only the magic link looks its user up first.
Begin(r) ==
  /\ pc[r] = "idle"
  /\ pc' = [pc EXCEPT ![r] =
              IF Kind[r] = "signin-magic-link" THEN "lookup" ELSE "check"]
  /\ UNCHANGED <<now, registered, expiry, checked, added, wrote>>

\* Faulty variant: no test for a missing user, whose id is then read.
LookUpUntested(r) ==
  /\ pc[r] = "lookup"
  /\ pc' = [pc EXCEPT ![r] = IF User[r] \in registered THEN "check" ELSE "threw"]
  /\ UNCHANGED <<now, registered, expiry, checked, added, wrote>>

LookUp(r) ==
  /\ pc[r] = "lookup"
  /\ pc' = [pc EXCEPT ![r] = IF User[r] \in registered THEN "check" ELSE "404"]
  /\ UNCHANGED <<now, registered, expiry, checked, added, wrote>>

CheckTtl(r) ==
  /\ pc[r] = "check"
  /\ pc' = [pc EXCEPT ![r] = IF Limited(KeyOf(r)) THEN "429" ELSE "add"]
  /\ checked' = [checked EXCEPT ![r] = now]
  /\ UNCHANGED <<now, registered, expiry, added, wrote>>

AddJob(r) ==
  /\ pc[r] = "add"
  /\ pc' = [pc EXCEPT ![r] = "set"]
  /\ added' = [added EXCEPT ![r] = now]
  /\ UNCHANGED <<now, registered, expiry, checked, wrote>>

\* Faulty variant: the ttl of the marker is one tick short.
SetMarkerShort(r) ==
  /\ pc[r] = "set"
  /\ \E answer \in {"200", "500"} : pc' = [pc EXCEPT ![r] = answer]
  /\ expiry' = [expiry EXCEPT ![KeyOf(r)] = now + Cooldown - 1]
  /\ wrote' = [wrote EXCEPT ![r] = now]
  /\ UNCHANGED <<now, registered, checked, added>>

\* The marker is written; the reply may still be lost on the way back, and
\* the call rejects.
SetMarker(r) ==
  /\ pc[r] = "set"
  /\ \E answer \in {"200", "500"} : pc' = [pc EXCEPT ![r] = answer]
  /\ expiry' = [expiry EXCEPT ![KeyOf(r)] = now + Cooldown]
  /\ wrote' = [wrote EXCEPT ![r] = now]
  /\ UNCHANGED <<now, registered, checked, added>>

\* The database or Redis rejects the pending call, which leaves nothing
\* behind; the error reaches the caller as an APIError.  (The queue taking
\* the job and its reply being lost ends in the state of Fail at "set".)
Fail(r) ==
  /\ pc[r] \in Running
  /\ pc' = [pc EXCEPT ![r] = "500"]
  /\ UNCHANGED <<now, registered, expiry, checked, added, wrote>>

\* The server process that runs the request dies.
Die(r) ==
  /\ pc[r] \in Running
  /\ pc' = [pc EXCEPT ![r] = "dead"]
  /\ UNCHANGED <<now, registered, expiry, checked, added, wrote>>

Step(r) == LookUp(r) \/ CheckTtl(r) \/ AddJob(r) \/ SetMarker(r)

-------------------------------------------------------------------------------

\* deleteUser: the soft-deleted row is no longer found.
DeleteUser(u) ==
  /\ u \in registered
  /\ registered' = registered \ {u}
  /\ UNCHANGED <<now, expiry, pc, checked, added, wrote>>

Tick ==
  /\ now < MaxTime
  /\ now' = now + 1
  /\ UNCHANGED <<registered, expiry, pc, checked, added, wrote>>

Next ==
  \/ \E r \in Requests : Begin(r) \/ Step(r) \/ Fail(r) \/ Die(r)
  \/ \E u \in Users : DeleteUser(u)
  \/ Tick

Spec == Init /\ [][Next]_vars

-------------------------------------------------------------------------------
(* Properties. *)

SameMail(a, b) == Kind[a] = Kind[b] /\ User[a] = User[b]

\* Two mails of one kind to one user closer than the cooldown were asked for
\* by requests that overlapped: the later one read the ttl before the earlier
\* one had written its marker, or the earlier one never wrote it (its server
\* died, or the write failed).  This is what the check, add and set of the
\* three send methods do promise under every interleaving.
EarlyMailNeedsOverlap ==
  \A a, b \in Requests :
    /\ a # b /\ SameMail(a, b)
    /\ added[a] # Never /\ added[b] # Never
    /\ added[a] <= added[b] /\ added[b] < added[a] + Cooldown
    => wrote[a] = Never \/ wrote[a] >= checked[b]

\* Nobody is told to wait without a reason: behind every answer 429 there is
\* a job for the same mail to the same user that was put in the queue, less
\* than a cooldown before the ttl was read counting from its marker.  In
\* particular a failed request or a mail of another kind locks nobody out.
RefusedForSameMail ==
  \A r \in Requests : pc[r] = "429" =>
    \E a \in Requests \ {r} :
      /\ SameMail(a, r)
      /\ added[a] # Never /\ wrote[a] # Never
      /\ added[a] <= wrote[a] /\ wrote[a] <= checked[r]
      /\ checked[r] < wrote[a] + Cooldown

\* The comment on the three methods, "Rate limited to 1 email per 30
\* seconds": two mails of one kind to one user are a cooldown apart.
OneMailPerCooldown ==
  \A a, b \in Requests :
    /\ a # b /\ SameMail(a, b)
    /\ added[a] # Never /\ added[b] # Never
    /\ added[a] <= added[b]
    => added[b] >= added[a] + Cooldown

===============================================================================

------------------------------ MODULE EmailQueue ------------------------------
(***************************************************************************)
(* The email queue: the jobs that AuthService adds, the BullMQ machinery   *)
(* that hands them to the worker processes, and EmailProcessor, which runs *)
(* EmailQueueService for one job at a time.                                *)
(*                                                                         *)
(* A worker holds a job by a lock in Redis.  A worker that dies, or that   *)
(* cannot renew its lock in time, loses the job: the stalled check puts it *)
(* back for another worker, while the first one, if it lives, goes on      *)
(* executing it.                                                           *)
(***************************************************************************)
EXTENDS Naturals, FiniteSets

CONSTANTS
  Jobs,        \* the jobs of the queue
  Workers,     \* the worker processes, each with concurrency 1
  Users,       \* the accounts
  Kind,        \* Kind[j], the name of job j
  User,        \* User[j], the account that job j is about
  Attempts,    \* defaultJobOptions.attempts
  MaxStalled,  \* BullMQ's maxStalledCount, 1 unless configured
  MaxFaults,   \* bound on crashes and lost locks
  NoJob,       \* the job of an idle worker
  NoWorker     \* the owner of a job that nobody has locked

Kinds == {"signin-magic-link", "email-verification", "reset-password"}

ASSUME QueueAssumption ==
  /\ Kind \in [Jobs -> Kinds]
  /\ User \in [Jobs -> Users]
  /\ Attempts \in Nat
  /\ MaxStalled \in Nat
  /\ MaxFaults \in Nat
  /\ IsFiniteSet(Workers)
  /\ NoJob \notin Jobs
  /\ NoWorker \notin Workers

VARIABLES
  st,          \* st[j], where in BullMQ job j is
  made,        \* made[j], job.attemptsMade
  stalled,     \* stalled[j], how often job j was found without a lock
  lock,        \* lock[j], the worker that owns job j
  job,         \* job[w], what worker w executes
  at,          \* at[w], the call its handler makes next, or its outcome
  limited,     \* the limiter of the queue is closed
  registered,  \* the accounts that userRepository.findOne finds
  mails,       \* mails[j], how often the mail of job j has left
  faults       \* the crashes and lost locks so far

vars ==
  <<st, made, stalled, lock, job, at, limited, registered, mails, faults>>

TypeOK ==
  /\ st \in [Jobs ->
       {"none", "wait", "active", "delayed", "completed", "failed"}]
  /\ made \in [Jobs -> Nat]
  /\ stalled \in [Jobs -> Nat]
  /\ lock \in [Jobs -> Workers \union {NoWorker}]
  /\ job \in [Workers -> Jobs \union {NoJob}]
  /\ at \in [Workers -> {"idle", "find", "send", "returned", "threw"}]
  /\ limited \in BOOLEAN
  /\ registered \subseteq Users
  /\ mails \in [Jobs -> Nat]
  /\ faults \in 0..MaxFaults

Init ==
  /\ st = [j \in Jobs |-> "none"]
  /\ made = [j \in Jobs |-> 0]
  /\ stalled = [j \in Jobs |-> 0]
  /\ lock = [j \in Jobs |-> NoWorker]
  /\ job = [w \in Workers |-> NoJob]
  /\ at = [w \in Workers |-> "idle"]
  /\ limited = FALSE
  /\ registered = Users
  /\ mails = [j \in Jobs |-> 0]
  /\ faults = 0

-------------------------------------------------------------------------------
(* BullMQ. *)

\* emailQueue.add in one of the three methods of AuthService.
Add(j) ==
  /\ st[j] = "none"
  /\ st' = [st EXCEPT ![j] = "wait"]
  /\ UNCHANGED <<made, stalled, lock, job, at, limited, registered, mails,
                 faults>>

\* An idle worker takes a waiting job, unless the limiter holds the queue.
Take(w, j) ==
  /\ at[w] = "idle" /\ st[j] = "wait" /\ ~limited
  /\ st' = [st EXCEPT ![j] = "active"]
  /\ lock' = [lock EXCEPT ![j] = w]
  /\ job' = [job EXCEPT ![w] = j]
  /\ at' = [at EXCEPT ![w] = "find"]
  /\ limited' = TRUE
  /\ UNCHANGED <<made, stalled, registered, mails, faults>>

\* The limiter's duration has passed since the last job was taken.
LimiterOpens ==
  /\ limited
  /\ limited' = FALSE
  /\ UNCHANGED <<st, made, stalled, lock, job, at, registered, mails, faults>>

Release(w) ==
  /\ job' = [job EXCEPT ![w] = NoJob]
  /\ at' = [at EXCEPT ![w] = "idle"]

\* Faulty variants: a state that BullMQ does not know, and an attempt too few.
AfterFailureUnknown(j) ==
  IF made[j] + 1 < Attempts THEN "waiting-retry" ELSE "failed"
AfterFailureEarly(j) == IF made[j] + 2 < Attempts THEN "delayed" ELSE "failed"

\* Retried while attempts are left; 0 and 1 both mean a single attempt.
AfterFailure(j) == IF made[j] + 1 < Attempts THEN "delayed" ELSE "failed"

\* Faulty variant: the report counts without the lock.
ReportUnlocked(w) ==
  /\ at[w] \in {"returned", "threw"}
  /\ Release(w)
  /\ LET j == job[w]
     IN  /\ st' = [st EXCEPT ![j] = IF at[w] = "returned"
                                     THEN "completed" ELSE AfterFailure(j)]
         /\ made' = [made EXCEPT ![j] = @ + 1]
         /\ lock' = [lock EXCEPT ![j] = NoWorker]
  /\ UNCHANGED <<stalled, limited, registered, mails, faults>>

\* The handler has returned or thrown, and the worker reports it.  The report
\* of a worker that has lost the lock is refused.
Report(w) ==
  /\ at[w] \in {"returned", "threw"}
  /\ Release(w)
  /\ LET j == job[w]
     IN  IF lock[j] = w
         THEN /\ st' = [st EXCEPT ![j] = IF at[w] = "returned"
                                         THEN "completed" ELSE AfterFailure(j)]
              /\ made' = [made EXCEPT ![j] = @ + 1]
              /\ lock' = [lock EXCEPT ![j] = NoWorker]
         ELSE UNCHANGED <<st, made, lock>>
  /\ UNCHANGED <<stalled, limited, registered, mails, faults>>

\* The backoff of a failed attempt has passed.
Promote(j) ==
  /\ st[j] = "delayed"
  /\ st' = [st EXCEPT ![j] = "wait"]
  /\ UNCHANGED <<made, stalled, lock, job, at, limited, registered, mails,
                 faults>>

\* The lock of an active job expires although its worker lives: it could not
\* renew it in time.
LoseLock(j) ==
  /\ faults < MaxFaults
  /\ st[j] = "active" /\ lock[j] # NoWorker
  /\ lock' = [lock EXCEPT ![j] = NoWorker]
  /\ faults' = faults + 1
  /\ UNCHANGED <<st, made, stalled, job, at, limited, registered, mails>>

\* Faulty variant: a lock without an expiry outlives its worker.
CrashLocked(w) ==
  /\ faults < MaxFaults
  /\ job[w] # NoJob
  /\ Release(w)
  /\ faults' = faults + 1
  /\ UNCHANGED <<st, made, stalled, lock, limited, registered, mails>>

\* A worker process dies and is started again; nobody renews its lock.
Crash(w) ==
  /\ faults < MaxFaults
  /\ job[w] # NoJob
  /\ Release(w)
  /\ lock' = [j \in Jobs |-> IF lock[j] = w THEN NoWorker ELSE lock[j]]
  /\ faults' = faults + 1
  /\ UNCHANGED <<st, made, stalled, limited, registered, mails>>

\* Faulty variant: stalls are not counted.
CheckStalledUncounted(j) ==
  /\ st[j] = "active" /\ lock[j] = NoWorker
  /\ st' = [st EXCEPT ![j] = "wait"]
  /\ UNCHANGED <<made, stalled, lock, job, at, limited, registered, mails,
                 faults>>

\* The stalled check finds an active job without a lock.
CheckStalled(j) ==
  /\ st[j] = "active" /\ lock[j] = NoWorker
  /\ stalled' = [stalled EXCEPT ![j] = @ + 1]
  /\ st' = [st EXCEPT ![j] = IF stalled[j] + 1 > MaxStalled
                             THEN "failed" ELSE "wait"]
  /\ UNCHANGED <<made, lock, job, at, limited, registered, mails, faults>>

-------------------------------------------------------------------------------
(* EmailProcessor.process and the handlers of EmailQueueService. *)

\* Faulty variant: the mail goes to the address in the job, user or not.
AfterLookupAlways(j) == "send"

\* Without a user the two other handlers return; verifyEmail logs the error
\* and goes on to read the email of null, which throws.
AfterLookup(j) ==
  IF User[j] \in registered THEN "send"
  ELSE IF Kind[j] = "email-verification" THEN "threw" ELSE "returned"

FindUser(w) ==
  /\ at[w] = "find"
  /\ at' = [at EXCEPT ![w] = AfterLookup(job[w])]
  /\ UNCHANGED <<st, made, stalled, lock, job, limited, registered, mails,
                 faults>>

\* The mail server takes the mail; its answer may be lost, and sendMail rejects.
SendMail(w) ==
  /\ at[w] = "send"
  /\ mails' = [mails EXCEPT ![job[w]] = @ + 1]
  /\ \E outcome \in {"returned", "threw"} : at' = [at EXCEPT ![w] = outcome]
  /\ UNCHANGED <<st, made, stalled, lock, job, limited, registered, faults>>

\* The database or the mail server rejects the call.
CallFails(w) ==
  /\ at[w] \in {"find", "send"}
  /\ at' = [at EXCEPT ![w] = "threw"]
  /\ UNCHANGED <<st, made, stalled, lock, job, limited, registered, mails,
                 faults>>

-------------------------------------------------------------------------------

DeleteUser(u) ==
  /\ u \in registered
  /\ registered' = registered \ {u}
  /\ UNCHANGED <<st, made, stalled, lock, job, at, limited, mails, faults>>

Execute(w) == FindUser(w) \/ SendMail(w) \/ Report(w)

Next ==
  \/ \E j \in Jobs : Add(j) \/ Promote(j) \/ LoseLock(j) \/ CheckStalled(j)
  \/ \E w \in Workers : Execute(w) \/ CallFails(w) \/ Crash(w)
  \/ \E w \in Workers, j \in Jobs : Take(w, j)
  \/ LimiterOpens
  \/ \E u \in Users : DeleteUser(u)

\* Workers are restarted and keep polling, their calls return or reject, and
\* BullMQ's timers go off.
Fairness ==
  /\ \A w \in Workers : WF_vars(Execute(w))
  /\ WF_vars(\E w \in Workers, j \in Jobs : Take(w, j))
  /\ \A j \in Jobs : WF_vars(Promote(j)) /\ WF_vars(CheckStalled(j))
  /\ WF_vars(LimiterOpens)

Spec == Init /\ [][Next]_vars /\ Fairness

-------------------------------------------------------------------------------
(* Properties. *)

Gone(j) == User[j] \notin registered

\* How often a job can be executed: its attempts, and once more for every time
\* it may be found stalled.
MaxExecutions == (IF Attempts = 0 THEN 1 ELSE Attempts) + MaxStalled

\* How the state of the queue reads as a state of MailDelivery.
DeliveryState ==
  [j \in Jobs |-> IF st[j] \in {"wait", "active", "delayed"}
                  THEN "pending" ELSE st[j]]
Orphans == {j \in Jobs : Gone(j)}
Verifications == {j \in Jobs : Kind[j] = "email-verification"}

Delivery == INSTANCE MailDelivery WITH
  MustMail <- Verifications,
  MaxMails <- MaxExecutions,
  state <- DeliveryState,
  orphaned <- Orphans

\* The queue with its workers, retries and stalled checks keeps the promise of
\* MailDelivery: a settled job stays settled, no job completes unmailed while
\* its account exists, a verification never does, and no mail leaves more
\* often than the job can be executed.
KeepsDelivery == Delivery!Safe

\* Every job that AuthService adds is completed or failed in the end, however
\* workers crash (finitely often) and calls fail.
EveryJobSettles == Delivery!Settles

\* The copies of a mail are accounted for: one for every attempt reported, one
\* for every time the job stalled, one for the execution under way.
CopiesAccounted ==
  \A j \in Jobs :
    mails[j] <= made[j] + stalled[j] + (IF st[j] = "active" THEN 1 ELSE 0)

\* No job is given up before its attempts are used up, unless it stalled once
\* too often.
NotGivenUpEarly ==
  \A j \in Jobs : st[j] = "failed" =>
    \/ made[j] >= 1 /\ made[j] >= Attempts
    \/ stalled[j] > MaxStalled

\* Nobody is about to mail a deleted account.
LetGo(j) == Gone(j) /\ \A w \in Workers : job[w] = j => at[w] # "send"

\* Once the account of a job is deleted and no worker is past its lookup, no
\* mail of that job leaves any more, retried or not.
DeletedGetsNoMail ==
  [][\A j \in Jobs : LetGo(j) => LetGo(j)' /\ mails'[j] = mails[j]]_vars

===============================================================================

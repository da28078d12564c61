----------------------------- MODULE MailDelivery -----------------------------
(***************************************************************************)
(* What the email queue promises about a job it has accepted, whatever     *)
(* workers, retries and crashes are behind it: the job is settled in the   *)
(* end, a settled job stays settled, a completed job has been mailed or    *)
(* its account is gone, and the same mail leaves a bounded number of       *)
(* times.                                                                  *)
(***************************************************************************)
EXTENDS Naturals

CONSTANTS
  Jobs,      \* the jobs of the email queue
  MustMail,  \* the jobs that never complete without a mail
  MaxMails   \* how often the mail of one job may leave

VARIABLES
  state,     \* state[j]: not yet accepted, pending, completed or failed
  mails,     \* mails[j], how often the mail of job j has left
  orphaned   \* the jobs whose account is gone

vars == <<state, mails, orphaned>>

Settled == {"completed", "failed"}

Init ==
  /\ state = [j \in Jobs |-> "none"]
  /\ mails = [j \in Jobs |-> 0]
  /\ orphaned = {}

Accept(j) ==
  /\ state[j] = "none"
  /\ state' = [state EXCEPT ![j] = "pending"]
  /\ UNCHANGED <<mails, orphaned>>

\* A worker that has lost the job may still send its mail after another one
\* has settled it.
Deliver(j) ==
  /\ state[j] # "none"
  /\ mails[j] < MaxMails
  /\ mails' = [mails EXCEPT ![j] = @ + 1]
  /\ UNCHANGED <<state, orphaned>>

Complete(j) ==
  /\ state[j] = "pending"
  /\ mails[j] > 0 \/ (j \in orphaned /\ j \notin MustMail)
  /\ state' = [state EXCEPT ![j] = "completed"]
  /\ UNCHANGED <<mails, orphaned>>

GiveUp(j) ==
  /\ state[j] = "pending"
  /\ state' = [state EXCEPT ![j] = "failed"]
  /\ UNCHANGED <<mails, orphaned>>

\* Accounts go away, some jobs at a time, and do not come back.
Orphan ==
  /\ \E js \in SUBSET Jobs : orphaned' = orphaned \union js
  /\ UNCHANGED <<state, mails>>

Next ==
  \/ \E j \in Jobs : Accept(j) \/ Deliver(j) \/ Complete(j) \/ GiveUp(j)
  \/ Orphan

Safe == Init /\ [][Next]_vars

\* An accepted job is settled in the end.
Settles == \A j \in Jobs : state[j] = "pending" ~> state[j] \in Settled

===============================================================================

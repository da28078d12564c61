----------------------------- MODULE MCEmailQueue -----------------------------
(* Two jobs about one user, one of each behaviour without a user, and two    *)
(* worker processes.                                                         *)
EXTENDS EmailQueue

CONSTANTS j1, j2, w1, w2, u1

MCJobs == {j1, j2}
MCWorkers == {w1, w2}
MCUsers == {u1}

MCKind ==
  [j \in MCJobs |-> IF j = j1 THEN "email-verification" ELSE "reset-password"]

MCUser == [j \in MCJobs |-> u1]

===============================================================================

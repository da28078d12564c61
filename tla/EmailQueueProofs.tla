--------------------------- MODULE EmailQueueProofs ---------------------------
(***************************************************************************)
(* Proofs about EmailQueue, for any jobs, workers, attempts and stalls.    *)
(* The invariant counts executions: every time a worker takes a job, that  *)
(* ends in one reported attempt or in one stall, so the workers that may   *)
(* still mail a job, together with the mails that have left, are no more   *)
(* than the attempts and stalls of the job.  The same count bounds how     *)
(* often the state of a job changes.                                       *)
(***************************************************************************)
EXTENDS EmailQueue, FiniteSetTheorems, TLAPS

\* The workers that may still send the mail of job j.
Senders(j) == {w \in Workers : job[w] = j /\ at[w] \in {"find", "send"}}

Started(j) == made[j] + stalled[j] + (IF st[j] = "active" THEN 1 ELSE 0)

Budget == IF Attempts = 0 THEN 1 ELSE Attempts

\* A worker that is not idle has a job that was added, and a lock is held by a
\* worker that executes the job.
Holding ==
  /\ \A w \in Workers : at[w] = "idle" <=> job[w] = NoJob
  /\ \A w \in Workers : job[w] # NoJob => st[job[w]] # "none"
  /\ \A j \in Jobs, w \in Workers :
       lock[j] = w => st[j] = "active" /\ job[w] = j

\* A job that is not settled has attempts and stalls left.
Remaining ==
  \A j \in Jobs :
    /\ st[j] \in {"none", "wait", "active", "delayed"} =>
         made[j] < Budget /\ stalled[j] <= MaxStalled
    /\ st[j] \in {"completed", "failed"} => made[j] + stalled[j] <= MaxExecutions

\* Mails that have left or may still leave are covered by executions started.
Covered ==
  \A j \in Jobs : mails[j] + Cardinality(Senders(j)) <= Started(j)

\* A handler returns only after a mail, or without its user when it may.
Earned(j) == mails[j] > 0 \/ (Gone(j) /\ Kind[j] # "email-verification")
ReturnEarned ==
  \A w \in Workers : at[w] = "returned" => Earned(job[w])

IInv ==
  TypeOK /\ Holding /\ Remaining /\ Covered /\ ReturnEarned /\ NotGivenUpEarly

-------------------------------------------------------------------------------

LEMMA SendersCount ==
  ASSUME NEW j
  PROVE  /\ IsFiniteSet(Senders(j))
         /\ Cardinality(Senders(j)) \in Nat
<1>1. Senders(j) \subseteq Workers
  BY DEF Senders
<1> QED
  BY <1>1, QueueAssumption, FS_Subset, FS_CardinalityType

\* The count of senders in the next state, when at most worker w changes.
LEMMA SendersNext ==
  ASSUME NEW j, NEW w \in Workers,
         \A v \in Workers \ {w} : job'[v] = job[v] /\ at'[v] = at[v]
  PROVE  /\ Cardinality(Senders(j)') \in Nat
         /\ Cardinality(Senders(j)') =
              Cardinality(Senders(j))
                + (IF w \in Senders(j)' THEN 1 ELSE 0)
                - (IF w \in Senders(j) THEN 1 ELSE 0)
<1> DEFINE T == Senders(j) \ {w}
<1>1. Senders(j)' = IF w \in Senders(j)' THEN T \union {w} ELSE T
  BY DEF Senders
<1>2. /\ IsFiniteSet(T)
      /\ Cardinality(T) = Cardinality(Senders(j))
                            - (IF w \in Senders(j) THEN 1 ELSE 0)
      /\ Cardinality(Senders(j)) \in Nat
  BY SendersCount, FS_RemoveElement
<1>3. Cardinality(T) \in Nat
  BY <1>2, FS_CardinalityType
<1>4. w \notin T
  OBVIOUS
<1>5. Cardinality(T \union {w}) = Cardinality(T) + 1
  BY <1>2, <1>4, FS_AddElement
<1> HIDE DEF T
<1>6. CASE w \in Senders(j)'
  <2>1. Cardinality(Senders(j)') = Cardinality(T) + 1
    BY <1>1, <1>5, <1>6
  <2> QED
    BY <1>2, <1>3, <1>6, <2>1
<1>7. CASE w \notin Senders(j)'
  <2>1. Cardinality(Senders(j)') = Cardinality(T)
    BY <1>1, <1>7
  <2> QED
    BY <1>2, <1>3, <1>7, <2>1
<1> QED
  BY <1>6, <1>7

LEMMA InitIInv == Init => IInv
<1> SUFFICES ASSUME Init PROVE IInv
  OBVIOUS
<1>1. \A j \in Jobs : Senders(j) = {}
  BY DEF Init, Senders
<1>2. Cardinality({}) = 0
  BY FS_EmptySet
<1>3. Covered
  BY <1>1, <1>2 DEF Init, Covered, Started
<1>4. TypeOK
  <2>1. limited \in BOOLEAN
    BY DEF Init
  <2>2. faults \in 0..MaxFaults
    BY QueueAssumption DEF Init
  <2> QED
    BY <2>1, <2>2 DEF Init, TypeOK
<1>5. Holding
  BY QueueAssumption DEF Init, Holding
<1>6. Remaining
  BY QueueAssumption DEF Init, Remaining, Budget
<1>7. ReturnEarned /\ NotGivenUpEarly
  BY DEF Init, ReturnEarned, NotGivenUpEarly
<1> QED
  BY <1>3, <1>4, <1>5, <1>6, <1>7 DEF IInv

-------------------------------------------------------------------------------
(* The steps of BullMQ that no worker takes: Senders stays as it is. *)

LEMMA QueueKeeps ==
  ASSUME IInv, NEW j \in Jobs,
         Add(j) \/ Promote(j) \/ LoseLock(j) \/ CheckStalled(j)
  PROVE  IInv'
<1> USE QueueAssumption DEF IInv, Add, Promote, LoseLock, CheckStalled
<1>1. TypeOK'
  BY DEF TypeOK
<1>2. Holding'
  BY DEF TypeOK, Holding
<1>3. Remaining' /\ NotGivenUpEarly'
  BY DEF TypeOK, Remaining, NotGivenUpEarly, Budget, MaxExecutions
<1>4. Covered'
  <2>1. \A i : Senders(i)' = Senders(i)
    BY DEF Senders
  <2>2. \A i \in Jobs : Started(i) <= Started(i)' /\ Started(i)' \in Nat
    BY DEF TypeOK, Started
  <2>3. \A i \in Jobs : Cardinality(Senders(i)) \in Nat /\ Started(i) \in Nat
    BY SendersCount DEF TypeOK, Started
  <2> QED
    BY <2>1, <2>2, <2>3 DEF TypeOK, Covered
<1>5. ReturnEarned'
  BY DEF TypeOK, ReturnEarned, Earned, Gone
<1> QED
  BY <1>1, <1>2, <1>3, <1>4, <1>5

\* The steps that concern neither a job nor a worker.
LEMMA OutsideKeeps ==
  ASSUME IInv,
         LimiterOpens \/ (\E u \in Users : DeleteUser(u)) \/ UNCHANGED vars
  PROVE  IInv'
<1> USE QueueAssumption DEF IInv, LimiterOpens, DeleteUser, vars
<1>0. /\ UNCHANGED <<st, made, stalled, lock, job, at, mails, faults>>
      /\ registered' \subseteq registered
      /\ limited' \in BOOLEAN
  BY DEF TypeOK
<1>1. /\ TypeOK'
      /\ Holding' /\ Remaining' /\ NotGivenUpEarly'
  <2>1. TypeOK'
    BY <1>0 DEF TypeOK
  <2>2. Holding' /\ Remaining' /\ NotGivenUpEarly'
    BY <1>0 DEF Holding, Remaining, NotGivenUpEarly
  <2> QED
    BY <2>1, <2>2
<1>2. Covered'
  BY DEF Covered, Senders, Started
<1>3. ReturnEarned'
  BY DEF TypeOK, ReturnEarned, Earned, Gone
<1> QED
  BY <1>1, <1>2, <1>3

-------------------------------------------------------------------------------
(* The steps of a worker. *)

LEMMA TakeKeeps ==
  ASSUME IInv, NEW w \in Workers, NEW j \in Jobs, Take(w, j)
  PROVE  IInv'
<1> USE QueueAssumption DEF IInv, Take
<1>1. TypeOK'
  BY DEF TypeOK
<1>2. Holding'
  BY DEF TypeOK, Holding
<1>3. Remaining' /\ NotGivenUpEarly'
  BY DEF TypeOK, Remaining, NotGivenUpEarly
<1>4. Covered'
  <2> SUFFICES ASSUME NEW i \in Jobs
               PROVE  mails'[i] + Cardinality(Senders(i)') <= Started(i)'
    BY DEF Covered
  <2>1. /\ Cardinality(Senders(i)') =
             Cardinality(Senders(i))
               + (IF w \in Senders(i)' THEN 1 ELSE 0)
               - (IF w \in Senders(i) THEN 1 ELSE 0)
        /\ Cardinality(Senders(i)) \in Nat
    BY SendersNext, SendersCount DEF TypeOK
  <2>2. w \notin Senders(i)
    BY DEF Senders
  <2>3. w \in Senders(i)' <=> i = j
    BY DEF Senders, TypeOK
  <2>4. Started(i)' = Started(i) + (IF i = j THEN 1 ELSE 0)
    BY DEF Started, TypeOK
  <2>5. mails[i] + Cardinality(Senders(i)) <= Started(i) /\ Started(i) \in Nat
    BY DEF Covered, Started, TypeOK
  <2> QED
    BY <2>1, <2>2, <2>3, <2>4, <2>5 DEF TypeOK
<1>5. ReturnEarned'
  BY DEF TypeOK, ReturnEarned, Earned, Gone
<1> QED
  BY <1>1, <1>2, <1>3, <1>4, <1>5

LEMMA HandlerKeeps ==
  ASSUME IInv, NEW w \in Workers, FindUser(w) \/ SendMail(w) \/ CallFails(w)
  PROVE  IInv'
<1> USE QueueAssumption DEF IInv, FindUser, SendMail, CallFails
<1>0. job[w] \in Jobs /\ at[w] \in {"find", "send"}
  BY DEF TypeOK, Holding
<1>1. TypeOK'
  BY <1>0 DEF TypeOK, AfterLookup
<1>2. Holding'
  BY <1>0 DEF TypeOK, Holding, AfterLookup
<1>3. Remaining' /\ NotGivenUpEarly'
  BY DEF Remaining, NotGivenUpEarly
<1>4. Covered'
  <2> SUFFICES ASSUME NEW i \in Jobs
               PROVE  mails'[i] + Cardinality(Senders(i)') <= Started(i)'
    BY DEF Covered
  <2>1. /\ Cardinality(Senders(i)') =
             Cardinality(Senders(i))
               + (IF w \in Senders(i)' THEN 1 ELSE 0)
               - (IF w \in Senders(i) THEN 1 ELSE 0)
        /\ Cardinality(Senders(i)) \in Nat
    BY SendersNext, SendersCount DEF TypeOK
  <2>2. w \in Senders(i) <=> i = job[w]
    BY <1>0 DEF Senders
  <2>3. w \in Senders(i)' => i = job[w] /\ mails'[i] = mails[i]
    BY <1>0 DEF Senders, TypeOK
  <2>4. mails'[i] = mails[i] \/ (i = job[w] /\ mails'[i] = mails[i] + 1
                                   /\ w \notin Senders(i)')
    BY <1>0 DEF Senders, TypeOK
  <2>5. /\ Started(i)' = Started(i)
        /\ mails[i] + Cardinality(Senders(i)) <= Started(i)
        /\ Started(i) \in Nat
    BY DEF Covered, Started, TypeOK
  <2> QED
    BY <2>1, <2>2, <2>3, <2>4, <2>5 DEF TypeOK
<1>5. ReturnEarned'
  <2> SUFFICES ASSUME NEW v \in Workers, at'[v] = "returned"
               PROVE  Earned(job[v])'
    BY DEF ReturnEarned
  <2>1. job' = job /\ job[v] \in Jobs
    BY <1>0, <1>2, <1>1 DEF TypeOK, Holding
  <2>2. CASE v = w
    BY <1>0, <2>1, <2>2 DEF TypeOK, Earned, Gone, AfterLookup
  <2>3. CASE v # w
    <3>1. Earned(job[v])
      BY <2>3 DEF TypeOK, ReturnEarned
    <3> QED
      BY <1>0, <2>1, <3>1 DEF TypeOK, Earned, Gone
  <2> QED
    BY <2>2, <2>3
<1> QED
  BY <1>1, <1>2, <1>3, <1>4, <1>5

LEMMA ReportKeeps ==
  ASSUME IInv, NEW w \in Workers, Report(w)
  PROVE  IInv'
<1> USE QueueAssumption DEF IInv, Report, Release
<1>0. job[w] \in Jobs /\ at[w] \in {"returned", "threw"}
  BY DEF TypeOK, Holding
<1>1. TypeOK'
  BY <1>0 DEF TypeOK, AfterFailure
<1>2. Holding'
  BY <1>0 DEF TypeOK, Holding, AfterFailure
<1>3. Remaining' /\ NotGivenUpEarly'
  BY <1>0 DEF TypeOK, Holding, Remaining, NotGivenUpEarly, AfterFailure,
              Budget, MaxExecutions
<1>4. Covered'
  <2> SUFFICES ASSUME NEW i \in Jobs
               PROVE  mails'[i] + Cardinality(Senders(i)') <= Started(i)'
    BY DEF Covered
  <2>1. Senders(i)' = Senders(i)
    BY <1>0 DEF Senders, TypeOK
  <2>2. Started(i)' = Started(i)
    BY <1>0 DEF Started, TypeOK, Holding, AfterFailure
  <2> QED
    BY <2>1, <2>2 DEF Covered
<1>5. ReturnEarned'
  BY <1>0 DEF TypeOK, ReturnEarned, Earned, Gone
<1> QED
  BY <1>1, <1>2, <1>3, <1>4, <1>5

LEMMA CrashKeeps ==
  ASSUME IInv, NEW w \in Workers, Crash(w)
  PROVE  IInv'
<1> USE QueueAssumption DEF IInv, Crash, Release
<1>1. TypeOK'
  BY DEF TypeOK
<1>2. Holding'
  BY DEF TypeOK, Holding
<1>3. Remaining' /\ NotGivenUpEarly'
  BY DEF Remaining, NotGivenUpEarly
<1>4. Covered'
  <2> SUFFICES ASSUME NEW i \in Jobs
               PROVE  mails'[i] + Cardinality(Senders(i)') <= Started(i)'
    BY DEF Covered
  <2>1. /\ Cardinality(Senders(i)') =
             Cardinality(Senders(i))
               + (IF w \in Senders(i)' THEN 1 ELSE 0)
               - (IF w \in Senders(i) THEN 1 ELSE 0)
        /\ Cardinality(Senders(i)) \in Nat
        /\ Cardinality(Senders(i)') \in Nat
    BY SendersNext, SendersCount DEF TypeOK
  <2>2. w \notin Senders(i)'
    BY DEF Senders, TypeOK
  <2>3. /\ Started(i)' = Started(i) /\ mails'[i] = mails[i]
        /\ mails[i] + Cardinality(Senders(i)) <= Started(i)
        /\ mails[i] \in Nat /\ Started(i) \in Nat
    BY DEF Covered, Started, TypeOK
  <2> QED
    BY <2>1, <2>2, <2>3
<1>5. ReturnEarned'
  BY DEF TypeOK, ReturnEarned, Earned, Gone
<1> QED
  BY <1>1, <1>2, <1>3, <1>4, <1>5

LEMMA NextIInv ==
  ASSUME IInv, [Next]_vars
  PROVE  IInv'
<1>1. CASE UNCHANGED vars
  BY <1>1, OutsideKeeps
<1>2. CASE Next
  BY <1>2, QueueKeeps, OutsideKeeps, TakeKeeps, HandlerKeeps, ReportKeeps,
     CrashKeeps
  DEF Next, Execute
<1> QED
  BY <1>1, <1>2

LEMMA Inductive == Spec => []IInv
<1>1. IInv /\ [Next]_vars => IInv'
  BY NextIInv
<1> QED
  BY InitIInv, <1>1, PTL DEF Spec

-------------------------------------------------------------------------------

\* Type correctness of the queue and its workers.
THEOREM TypeCorrect == Spec => []TypeOK
BY Inductive, PTL DEF IInv

\* Every copy of a mail is paid for by an attempt, a stall or the execution
\* under way.
THEOREM CopiesTheorem == Spec => []CopiesAccounted
<1>1. IInv => CopiesAccounted
  BY SendersCount DEF IInv, TypeOK, Covered, Started, CopiesAccounted
<1> QED
  BY Inductive, <1>1, PTL

\* A job fails only with its attempts used up or after too many stalls.
THEOREM NotGivenUpTheorem == Spec => []NotGivenUpEarly
BY Inductive, PTL DEF IInv

\* After the deletion of an account its mails stop, for every retry and stall.
THEOREM DeletedTheorem == Spec => DeletedGetsNoMail
<1>1. ASSUME IInv, [Next]_vars, NEW j \in Jobs, LetGo(j)
      PROVE  LetGo(j)' /\ mails'[j] = mails[j]
  <2> USE <1>1, QueueAssumption DEF IInv, LetGo, Gone
  <2>1. ASSUME NEW i \in Jobs, Add(i) \/ Promote(i) \/ LoseLock(i) \/ CheckStalled(i)
        PROVE  LetGo(j)' /\ mails'[j] = mails[j]
    BY <2>1 DEF Add, Promote, LoseLock, CheckStalled
  <2>2. ASSUME NEW w \in Workers, Execute(w) \/ CallFails(w) \/ Crash(w)
        PROVE  LetGo(j)' /\ mails'[j] = mails[j]
    BY <2>2 DEF Execute, FindUser, SendMail, Report, Release, CallFails, Crash,
                AfterLookup, TypeOK, Holding
  <2>3. ASSUME NEW w \in Workers, NEW i \in Jobs, Take(w, i)
        PROVE  LetGo(j)' /\ mails'[j] = mails[j]
    BY <2>3 DEF Take, TypeOK
  <2>4. CASE LimiterOpens \/ (\E u \in Users : DeleteUser(u)) \/ UNCHANGED vars
    BY <2>4 DEF LimiterOpens, DeleteUser, vars
  <2> QED
    BY <2>1, <2>2, <2>3, <2>4 DEF Next
<1>2. IInv /\ [Next]_vars =>
        [\A j \in Jobs : LetGo(j) => LetGo(j)' /\ mails'[j] = mails[j]]_vars
  BY <1>1
<1> QED
  BY Inductive, <1>2, PTL DEF Spec, DeletedGetsNoMail

-------------------------------------------------------------------------------
(* The queue implements MailDelivery. *)

LEMMA InitDelivery == Init => Delivery!Init
BY QueueAssumption
DEF Init, Delivery!Init, DeliveryState, Orphans, Gone

\* The room a sender has: its mail is one of those that may still leave.
LEMMA RoomForMail ==
  ASSUME IInv, NEW w \in Workers, at[w] = "send"
  PROVE  job[w] \in Jobs /\ mails[job[w]] < MaxExecutions
<1> USE QueueAssumption DEF IInv
<1>1. job[w] \in Jobs
  BY DEF TypeOK, Holding
<1>2. w \in Senders(job[w])
  BY DEF Senders
<1>3. Cardinality(Senders(job[w])) \in Nat /\ Cardinality(Senders(job[w])) # 0
  BY <1>2, SendersCount, FS_EmptySet
<1>4. mails[job[w]] + Cardinality(Senders(job[w])) <= Started(job[w])
  BY <1>1 DEF Covered
<1>5. Started(job[w]) <= MaxExecutions /\ Started(job[w]) \in Nat
  BY <1>1 DEF TypeOK, Started, Remaining, MaxExecutions, Budget
<1> QED
  BY <1>1, <1>3, <1>4, <1>5 DEF TypeOK, MaxExecutions

\* Every step of the queue is a step of MailDelivery or changes nothing in it.
LEMMA StepDelivery ==
  ASSUME IInv, [Next]_vars
  PROVE  Delivery!Next \/ UNCHANGED Delivery!vars
<1> USE QueueAssumption DEF IInv, Delivery!vars
<1>1. ASSUME NEW j \in Jobs, Add(j)
      PROVE  Delivery!Accept(j)
  BY <1>1 DEF Add, Delivery!Accept, DeliveryState, Orphans, Gone, TypeOK
<1>2. ASSUME NEW j \in Jobs, Promote(j) \/ LoseLock(j)
      PROVE  UNCHANGED Delivery!vars
  BY <1>2 DEF Promote, LoseLock, DeliveryState, Orphans, Gone, TypeOK
<1>3. ASSUME NEW j \in Jobs, CheckStalled(j)
      PROVE  Delivery!GiveUp(j) \/ UNCHANGED Delivery!vars
  BY <1>3 DEF CheckStalled, Delivery!GiveUp, DeliveryState, Orphans, Gone, TypeOK
<1>4. ASSUME NEW w \in Workers, NEW j \in Jobs, Take(w, j)
      PROVE  UNCHANGED Delivery!vars
  BY <1>4 DEF Take, DeliveryState, Orphans, Gone, TypeOK
<1>5. ASSUME NEW w \in Workers, FindUser(w) \/ CallFails(w) \/ Crash(w)
      PROVE  UNCHANGED Delivery!vars
  BY <1>5 DEF FindUser, CallFails, Crash, DeliveryState, Orphans, Gone
<1>6. ASSUME NEW w \in Workers, SendMail(w)
      PROVE  \E j \in Jobs : Delivery!Deliver(j)
  <2>1. job[w] \in Jobs /\ mails[job[w]] < MaxExecutions
    BY <1>6, RoomForMail DEF SendMail
  <2>2. st[job[w]] # "none"
    BY <2>1 DEF Holding
  <2>3. Delivery!Deliver(job[w])
    BY <1>6, <2>1, <2>2
    DEF SendMail, Delivery!Deliver, DeliveryState, Orphans, Gone, TypeOK
  <2> QED
    BY <2>1, <2>3
<1>7. ASSUME NEW w \in Workers, Report(w)
      PROVE  \/ \E j \in Jobs : Delivery!Complete(j) \/ Delivery!GiveUp(j)
             \/ UNCHANGED Delivery!vars
  <2> DEFINE j == job[w]
  <2>1. j \in Jobs
    BY <1>7 DEF Report, TypeOK, Holding
  <2>2. CASE lock[j] # w
    BY <1>7, <2>2 DEF Report, Release, DeliveryState, Orphans, Gone
  <2>3. CASE lock[j] = w /\ at[w] = "returned"
    <3>1. DeliveryState[j] = "pending"
      BY <2>1, <2>3 DEF Holding, DeliveryState
    <3>2. mails[j] > 0 \/ (j \in Orphans /\ j \notin Verifications)
      BY <2>1, <2>3 DEF ReturnEarned, Earned, Orphans, Verifications
    <3>3. DeliveryState' = [DeliveryState EXCEPT ![j] = "completed"]
      BY <1>7, <2>1, <2>3 DEF Report, DeliveryState, TypeOK
    <3>4. UNCHANGED <<mails, Orphans>>
      BY <1>7 DEF Report, Orphans, Gone
    <3> QED
      BY <2>1, <3>1, <3>2, <3>3, <3>4 DEF Delivery!Complete
  <2>4. CASE lock[j] = w /\ at[w] = "threw"
    <3>1. DeliveryState[j] = "pending"
      BY <2>1, <2>4 DEF Holding, DeliveryState
    <3>2. \/ DeliveryState' = [DeliveryState EXCEPT ![j] = "failed"]
          \/ DeliveryState' = DeliveryState
      <4>1. st' = [st EXCEPT ![j] = AfterFailure(j)] /\ st[j] = "active"
        BY <1>7, <2>1, <2>4 DEF Report, Holding
      <4>2. CASE AfterFailure(j) = "delayed"
        BY <2>1, <4>1, <4>2 DEF DeliveryState, TypeOK
      <4>3. CASE AfterFailure(j) = "failed"
        BY <2>1, <4>1, <4>3 DEF DeliveryState, TypeOK
      <4> QED
        BY <4>2, <4>3 DEF AfterFailure
    <3>3. UNCHANGED <<mails, Orphans>>
      BY <1>7 DEF Report, Orphans, Gone
    <3> QED
      BY <2>1, <3>1, <3>2, <3>3 DEF Delivery!GiveUp
  <2> QED
    BY <1>7, <2>2, <2>3, <2>4 DEF Report
<1>8. CASE LimiterOpens \/ UNCHANGED vars
  BY <1>8 DEF LimiterOpens, vars, DeliveryState, Orphans, Gone
<1>9. ASSUME NEW u \in Users, DeleteUser(u)
      PROVE  Delivery!Orphan
  <2>1. Orphans' = Orphans \union {j \in Jobs : User[j] = u}
    BY <1>9 DEF DeleteUser, Orphans, Gone, TypeOK
  <2>2. {j \in Jobs : User[j] = u} \in SUBSET Jobs
    OBVIOUS
  <2>3. UNCHANGED <<DeliveryState, mails>>
    BY <1>9 DEF DeleteUser, DeliveryState
  <2> QED
    BY <2>1, <2>2, <2>3 DEF Delivery!Orphan
<1> QED
  BY <1>1, <1>2, <1>3, <1>4, <1>5, <1>6, <1>7, <1>8, <1>9
  DEF Next, Execute, Delivery!Next

\* The email queue, with its workers, locks, retries and stalled checks, keeps
\* the safety part of what MailDelivery promises.
THEOREM DeliveryTheorem == Spec => KeepsDelivery
<1>1. IInv /\ [Next]_vars => [Delivery!Next]_(Delivery!vars)
  BY StepDelivery
<1> QED
  BY InitDelivery, Inductive, <1>1, PTL DEF Spec, KeepsDelivery, Delivery!Safe

-------------------------------------------------------------------------------
(* A job does not go round forever: every change of its state costs it one of  *)
(* the changes that it has left, and faults do not give any back.              *)

\* What a job has left of attempts and stalls.
Left(j) == (Budget - made[j]) + (MaxStalled + 1 - stalled[j])

\* At most so many times the state of the job still changes.
Ahead(j) ==
  CASE st[j] = "none"    -> 3 * Left(j) + 3
    [] st[j] = "delayed" -> 3 * Left(j) + 2
    [] st[j] = "wait"    -> 3 * Left(j) + 1
    [] st[j] = "active"  -> 3 * Left(j)
    [] OTHER             -> 0

\* The changes left are bounded by the configuration alone, and a settled job
\* has none.  An active job is not forgotten: the stalled check finds it, or the
\* worker with its lock executes it.
ChangesBounded ==
  \A j \in Jobs :
    /\ Ahead(j) \in 0 .. 3 * (MaxExecutions + 1) + 3
    /\ Ahead(j) = 0 <=> st[j] \in {"completed", "failed"}
    /\ st[j] = "active" =>
         \/ lock[j] = NoWorker
         \/ \E w \in Workers : lock[j] = w /\ job[w] = j /\ at[w] # "idle"

\* Every change of a job's state uses one up, however workers crash, lose their
\* locks and report late; nothing else adds any.
ChangesUsedUp ==
  [][\A j \in Jobs : IF st'[j] = st[j] THEN Ahead(j)' = Ahead(j)
                                       ELSE Ahead(j)' < Ahead(j)]_vars

LEMMA LeftTypes ==
  ASSUME IInv, NEW j \in Jobs
  PROVE  /\ made[j] \in Nat /\ stalled[j] \in Nat /\ Budget \in Nat
         /\ MaxStalled \in Nat /\ Left(j) \in Int
         /\ st[j] \in {"none", "wait", "active", "delayed"} =>
              Left(j) >= 2 /\ Left(j) <= Budget + MaxStalled + 1
BY QueueAssumption DEF IInv, TypeOK, Remaining, Budget, Left

\* The changes of a job are counted by its entries in BullMQ alone.
LEMMA SameEntry ==
  ASSUME IInv, NEW j \in Jobs,
         st'[j] = st[j], made'[j] = made[j], stalled'[j] = stalled[j]
  PROVE  Ahead(j)' = Ahead(j)
BY DEF Ahead, Left, Budget

\* A job's own step in BullMQ, and a worker's report of it.
LEMMA EntryFalls ==
  ASSUME IInv, NEW j \in Jobs,
         \/ Add(j) \/ Promote(j) \/ CheckStalled(j)
         \/ \E w \in Workers : Take(w, j)
         \/ \E w \in Workers : Report(w) /\ job[w] = j /\ lock[j] = w
  PROVE  st'[j] # st[j] /\ Ahead(j)' < Ahead(j)
<1>1. /\ made[j] \in Nat /\ stalled[j] \in Nat /\ Budget \in Nat
      /\ MaxStalled \in Nat
      /\ st[j] \in {"none", "wait", "active", "delayed"} => Left(j) >= 2
  BY LeftTypes
<1>2. Left(j)' = (Budget - made'[j]) + (MaxStalled + 1 - stalled'[j])
  BY DEF Left, Budget
<1>3. CASE Add(j)
  BY <1>1, <1>2, <1>3 DEF Add, Ahead, Left, IInv, TypeOK
<1>4. CASE Promote(j)
  BY <1>1, <1>2, <1>4 DEF Promote, Ahead, Left, IInv, TypeOK
<1>5. CASE CheckStalled(j)
  BY <1>1, <1>2, <1>5 DEF CheckStalled, Ahead, Left, IInv, TypeOK
<1>6. ASSUME NEW w \in Workers, Take(w, j)
      PROVE  st'[j] # st[j] /\ Ahead(j)' < Ahead(j)
  BY <1>1, <1>2, <1>6 DEF Take, Ahead, Left, IInv, TypeOK
<1>7. ASSUME NEW w \in Workers, Report(w), job[w] = j, lock[j] = w
      PROVE  st'[j] # st[j] /\ Ahead(j)' < Ahead(j)
  <2>1. st[j] = "active"
    BY <1>7 DEF IInv, Holding
  <2>2. /\ st'[j] \in {"completed", "delayed", "failed"}
        /\ made'[j] = made[j] + 1 /\ stalled'[j] = stalled[j]
    BY <1>7 DEF Report, AfterFailure, IInv, TypeOK
  <2> QED
    BY <1>1, <1>2, <2>1, <2>2 DEF Ahead, Left
<1> QED
  BY <1>3, <1>4, <1>5, <1>6, <1>7

\* A step of one job leaves the entries of the others alone, and so does every
\* step that is nobody's in BullMQ.
LEMMA StepUsesUp ==
  ASSUME IInv, [Next]_vars, NEW j \in Jobs
  PROVE  IF st'[j] = st[j] THEN Ahead(j)' = Ahead(j) ELSE Ahead(j)' < Ahead(j)
<1> DEFINE Same == st'[j] = st[j] /\ made'[j] = made[j] /\ stalled'[j] = stalled[j]
<1>1. ASSUME NEW i \in Jobs, Add(i) \/ Promote(i) \/ CheckStalled(i)
      PROVE  i = j \/ Same
  BY <1>1 DEF Add, Promote, CheckStalled, IInv, TypeOK
<1>2. ASSUME NEW i \in Jobs, LoseLock(i)
      PROVE  Same
  BY <1>2 DEF LoseLock
<1>3. ASSUME NEW w \in Workers, NEW i \in Jobs, Take(w, i)
      PROVE  i = j \/ Same
  BY <1>3 DEF Take, IInv, TypeOK
<1>4. ASSUME NEW w \in Workers, Report(w)
      PROVE  (job[w] = j /\ lock[j] = w) \/ Same
  BY <1>4 DEF Report, IInv, TypeOK
<1>5. ASSUME NEW w \in Workers,
             FindUser(w) \/ SendMail(w) \/ CallFails(w) \/ Crash(w)
      PROVE  Same
  BY <1>5 DEF FindUser, SendMail, CallFails, Crash
<1>6. CASE LimiterOpens \/ (\E u \in Users : DeleteUser(u)) \/ UNCHANGED vars
  BY <1>6, SameEntry DEF LimiterOpens, DeleteUser, vars
<1> HIDE DEF Same
<1>7. \/ Same
      \/ Add(j) \/ Promote(j) \/ CheckStalled(j)
      \/ \E w \in Workers : Take(w, j)
      \/ \E w \in Workers : Report(w) /\ job[w] = j /\ lock[j] = w
      \/ LimiterOpens \/ (\E u \in Users : DeleteUser(u)) \/ UNCHANGED vars
  BY <1>1, <1>2, <1>3, <1>4, <1>5 DEF Next, Execute
<1> QED
  BY <1>6, <1>7, SameEntry, EntryFalls DEF Same

\* How often a job changes its state is bounded by attempts and stalls, and no
\* active job is left without its worker or the stalled check.
THEOREM BoundedTheorem == Spec => []ChangesBounded
<1>1. ASSUME IInv
      PROVE  ChangesBounded
  <2>1. ASSUME NEW j \in Jobs
        PROVE  /\ Ahead(j) \in 0 .. 3 * (MaxExecutions + 1) + 3
               /\ Ahead(j) = 0 <=> st[j] \in {"completed", "failed"}
    <3>1. st[j] \in {"none", "wait", "active", "delayed", "completed", "failed"}
      BY <1>1 DEF IInv, TypeOK
    <3>2. MaxExecutions = Budget + MaxStalled
      BY DEF MaxExecutions, Budget
    <3> QED
      BY <1>1, <3>1, <3>2, LeftTypes DEF Ahead
  <2>2. ASSUME NEW j \in Jobs, st[j] = "active", lock[j] # NoWorker
        PROVE  \E w \in Workers : lock[j] = w /\ job[w] = j /\ at[w] # "idle"
    BY <1>1, <2>2, QueueAssumption DEF IInv, TypeOK, Holding
  <2> QED
    BY <2>1, <2>2 DEF ChangesBounded
<1> QED
  BY Inductive, <1>1, PTL

\* No retry, stall, crash or late report lets a job begin again.
THEOREM UsedUpTheorem == Spec => ChangesUsedUp
<1>1. IInv /\ [Next]_vars =>
        [\A j \in Jobs : IF st'[j] = st[j] THEN Ahead(j)' = Ahead(j)
                                           ELSE Ahead(j)' < Ahead(j)]_vars
  BY StepUsesUp
<1> QED
  BY Inductive, <1>1, PTL DEF Spec, ChangesUsedUp

===============================================================================

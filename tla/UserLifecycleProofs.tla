------------------------- MODULE UserLifecycleProofs -------------------------
(***************************************************************************)
(* Proofs about UserLifecycle, for any accounts, requests and usernames.   *)
(* What a request meets is recorded from both sides, so two requests about *)
(* one account that are both under way know of each other; an update that  *)
(* has met no other one finds the account as it left it.                   *)
(***************************************************************************)
EXTENDS UserLifecycle, TLAPS

\* Where a request may be, by what it calls; only a username that was given is
\* compared and handed over.
RightCalls ==
  /\ \A r \in Updates : pc[r] \notin {"check", "remove"}
  /\ \A r \in Deletes : pc[r] \notin {"find", "better", "write", "read"}
  /\ \A r \in Requests : pc[r] = "find" \/ r \in rename => Asked[r] # Null

\* Two requests about one account that are under way have met.
RunningHaveMet ==
  \A r, s \in Requests :
    r # s /\ Target[r] = Target[s] /\ pc[r] \in Running /\ pc[s] \in Running
    => s \in met[r]

\* What an update finds of its own work, if it has met no other update.
KeepsOwnWork ==
  \A r \in Updates : met[r] \intersect Updates = {} =>
    /\ pc[r] = "better" /\ r \notin rename /\ Asked[r] # Null =>
         username[Target[r]] = Asked[r]
    /\ pc[r] \in {"write", "read"} /\ Asked[r] # Null =>
         username[Target[r]] \in {Asked[r], Lower[Asked[r]]}
    /\ pc[r] = "read" => names[Target[r]] = r

\* Nothing is written before Better Auth has answered.
NothingYet ==
  \A r \in Requests : pc[r] \in {"idle", "find", "better", "check"} => changed[r] = {}

\* A delete that answered 200 has deleted.
DeletedIsGone ==
  \A r \in Deletes : pc[r] = "200" => Target[r] \notin live

\* A delete that found its account after all has met the one that deleted it.
DeletesHaveMet ==
  \A r, s \in Deletes :
    r # s /\ Target[r] = Target[s] /\ pc[r] = "200" /\ pc[s] \in {"remove", "200"}
    => r \in met[s] /\ s \in met[r]

IInv ==
  /\ TypeOK
  /\ RightCalls
  /\ RunningHaveMet
  /\ KeepsOwnWork
  /\ OkShowsWhatWasAsked
  /\ NothingYet
  /\ RefusedChangedNothing
  /\ DeletedIsGone
  /\ DeletesHaveMet

-------------------------------------------------------------------------------

LEMMA InitIInv == Init => IInv
<1> SUFFICES ASSUME Init PROVE IInv
  OBVIOUS
<1> USE LifecycleAssumption DEF Init
<1>1. TypeOK
  BY DEF TypeOK
<1>2. RightCalls /\ RunningHaveMet /\ NothingYet
  BY DEF RightCalls, RunningHaveMet, NothingYet, Running, Updates, Deletes
<1>3. KeepsOwnWork /\ OkShowsWhatWasAsked
  BY DEF KeepsOwnWork, OkShowsWhatWasAsked, Updates
<1>4. RefusedChangedNothing /\ DeletedIsGone /\ DeletesHaveMet
  BY DEF RefusedChangedNothing, DeletedIsGone, DeletesHaveMet, Updates, Deletes
<1> QED
  BY <1>1, <1>2, <1>3, <1>4 DEF IInv

-------------------------------------------------------------------------------
(* One step of each kind. *)

LEMMA GuardStep ==
  ASSUME IInv, NEW r \in Requests, Guard(r)
  PROVE  IInv'
<1> USE LifecycleAssumption DEF IInv, Guard
<1>1. TypeOK'
  BY DEF TypeOK, FirstCall, Running, Refusals, Meets
<1>2. \A s \in Requests : met[s] \subseteq met'[s] \/ s = r
  BY DEF TypeOK
<1>3. RightCalls'
  BY DEF TypeOK, RightCalls, FirstCall, Updates, Deletes, Ops
<1>4. RunningHaveMet'
  <2>1. CASE Caller[r] \in sessions
    <3> SUFFICES ASSUME NEW s \in Requests, NEW q \in Requests, s # q,
                        Target[s] = Target[q], pc'[s] \in Running, pc'[q] \in Running
                 PROVE  q \in met'[s]
      BY DEF RunningHaveMet
    <3>1. CASE s = r
      <4>1. q \in Meets(r)
        BY <3>1 DEF TypeOK, Meets
      <4> QED
        BY <2>1, <3>1, <4>1
    <3>2. CASE q = r
      <4>1. s \in Meets(r)
        BY <3>2 DEF TypeOK, Meets
      <4> QED
        BY <2>1, <3>2, <4>1
    <3>3. CASE s # r /\ q # r
      BY <2>1, <3>3, <1>2 DEF TypeOK, RunningHaveMet
    <3> QED
      BY <3>1, <3>2, <3>3
  <2>2. CASE Caller[r] \notin sessions
    BY <2>2 DEF TypeOK, RunningHaveMet, Running
  <2> QED
    BY <2>1, <2>2
<1>5. KeepsOwnWork'
  <2> SUFFICES ASSUME NEW s \in Updates, met'[s] \intersect Updates = {},
                      pc'[s] \in {"better", "write", "read"}
               PROVE  /\ pc'[s] = "better" /\ s \notin rename' /\ Asked[s] # Null =>
                           username'[Target[s]] = Asked[s]
                      /\ pc'[s] \in {"write", "read"} /\ Asked[s] # Null =>
                           username'[Target[s]] \in {Asked[s], Lower[Asked[s]]}
                      /\ pc'[s] = "read" => names'[Target[s]] = s
    BY DEF KeepsOwnWork, Updates
  <2>1. CASE s = r
    BY <2>1 DEF TypeOK, FirstCall, Updates
  <2>2. CASE s # r
    BY <2>2, <1>2 DEF TypeOK, KeepsOwnWork, Updates
  <2> QED
    BY <2>1, <2>2
<1>6. OkShowsWhatWasAsked'
  BY <1>2 DEF TypeOK, OkShowsWhatWasAsked, FirstCall, Updates
<1>7. NothingYet' /\ RefusedChangedNothing'
  BY DEF TypeOK, NothingYet, RefusedChangedNothing, FirstCall, Updates, Refusals
<1>8. DeletedIsGone' /\ DeletesHaveMet'
  BY <1>2 DEF TypeOK, DeletedIsGone, DeletesHaveMet, FirstCall, Deletes, Updates
<1> QED
  BY <1>1, <1>3, <1>4, <1>5, <1>6, <1>7, <1>8

\* A step of a request that is under way meets nobody new.
LEMMA MeetingsKept ==
  ASSUME IInv, NEW r \in Requests, pc[r] \in Running, met' = met,
         \A s \in Requests \ {r} : pc'[s] = pc[s]
  PROVE  RunningHaveMet'
BY DEF IInv, TypeOK, RunningHaveMet

\* Another update that writes the account has been met.
LEMMA WriterIsMet ==
  ASSUME IInv, NEW r \in Updates, NEW s \in Updates, r # s,
         pc[r] \in Running, pc[s] \in Running, met[s] \intersect Updates = {}
  PROVE  Target[r] # Target[s]
BY DEF IInv, RunningHaveMet, Updates

LEMMA FindUsernameStep ==
  ASSUME IInv, NEW r \in Requests, FindUsername(r)
  PROVE  IInv'
<1> USE LifecycleAssumption DEF IInv, FindUsername
<1>1. TypeOK'
  BY DEF TypeOK, Running, Refusals
<1>2. RightCalls'
  BY DEF TypeOK, RightCalls, Updates, Deletes
<1>3. RunningHaveMet'
  BY MeetingsKept DEF TypeOK, Running
<1>4. KeepsOwnWork' /\ OkShowsWhatWasAsked'
  BY DEF TypeOK, KeepsOwnWork, OkShowsWhatWasAsked, Updates
<1>5. NothingYet' /\ RefusedChangedNothing'
  BY DEF TypeOK, NothingYet, RefusedChangedNothing, Updates, Refusals
<1>6. DeletedIsGone' /\ DeletesHaveMet'
  BY DEF TypeOK, DeletedIsGone, DeletesHaveMet, Deletes, Updates
<1> QED
  BY <1>1, <1>2, <1>3, <1>4, <1>5, <1>6

LEMMA UpdateUserStep ==
  ASSUME IInv, NEW r \in Requests, UpdateUser(r)
  PROVE  IInv'
<1> USE LifecycleAssumption DEF IInv, UpdateUser
<1>0. r \in Updates
  BY DEF RightCalls, Updates, Deletes
<1>1. r \in rename => Asked[r] \in Usernames
  BY DEF RightCalls
<1>2. TypeOK'
  BY <1>1 DEF TypeOK, Running, Parts
<1>3. RightCalls'
  BY DEF TypeOK, RightCalls, Updates, Deletes
<1>4. RunningHaveMet'
  BY MeetingsKept DEF TypeOK, Running
<1>5. KeepsOwnWork'
  <2> SUFFICES ASSUME NEW s \in Updates, met[s] \intersect Updates = {}
               PROVE  /\ pc'[s] = "better" /\ s \notin rename' /\ Asked[s] # Null =>
                           username'[Target[s]] = Asked[s]
                      /\ pc'[s] \in {"write", "read"} /\ Asked[s] # Null =>
                           username'[Target[s]] \in {Asked[s], Lower[Asked[s]]}
                      /\ pc'[s] = "read" => names'[Target[s]] = s
    BY DEF KeepsOwnWork
  <2>1. CASE s = r
    BY <2>1 DEF TypeOK, KeepsOwnWork, Updates
  <2>2. CASE s # r /\ pc[s] \in Running
    <3>1. Target[r] # Target[s]
      BY <1>0, <2>2, WriterIsMet DEF Running
    <3>2. Target[s] \in Users /\ Target[r] \in Users
      BY DEF Updates
    <3>3. username'[Target[s]] = username[Target[s]]
      BY <3>1, <3>2 DEF TypeOK
    <3>4. pc'[s] = pc[s]
      BY <2>2 DEF TypeOK
    <3> QED
      BY <3>4, <3>3 DEF KeepsOwnWork
  <2>3. CASE s # r /\ pc[s] \notin Running
    BY <2>3 DEF TypeOK, Running, Updates
  <2> QED
    BY <2>1, <2>2, <2>3
<1>6. OkShowsWhatWasAsked'
  BY DEF TypeOK, OkShowsWhatWasAsked, Updates
<1>7. NothingYet' /\ RefusedChangedNothing'
  BY DEF TypeOK, NothingYet, RefusedChangedNothing, Updates, Refusals
<1>8. DeletedIsGone' /\ DeletesHaveMet'
  BY DEF TypeOK, DeletedIsGone, DeletesHaveMet, Deletes, Updates
<1> QED
  BY <1>2, <1>3, <1>4, <1>5, <1>6, <1>7, <1>8

LEMMA WriteNamesStep ==
  ASSUME IInv, NEW r \in Requests, WriteNames(r)
  PROVE  IInv'
<1> USE LifecycleAssumption DEF IInv, WriteNames
<1>0. r \in Updates
  BY DEF TypeOK, RightCalls, Updates, Deletes
<1>1. TypeOK'
  BY DEF TypeOK, Running, Parts
<1>2. RightCalls'
  BY DEF TypeOK, RightCalls, Updates, Deletes
<1>3. RunningHaveMet'
  BY MeetingsKept DEF TypeOK, Running
<1>4. KeepsOwnWork'
  <2> SUFFICES ASSUME NEW s \in Updates, met[s] \intersect Updates = {}
               PROVE  /\ pc'[s] = "better" /\ s \notin rename' /\ Asked[s] # Null =>
                           username'[Target[s]] = Asked[s]
                      /\ pc'[s] \in {"write", "read"} /\ Asked[s] # Null =>
                           username'[Target[s]] \in {Asked[s], Lower[Asked[s]]}
                      /\ pc'[s] = "read" => names'[Target[s]] = s
    BY DEF KeepsOwnWork
  <2>1. CASE s = r
    BY <2>1 DEF TypeOK, KeepsOwnWork, Updates
  <2>2. CASE s # r /\ pc[s] \in Running
    <3>1. Target[r] # Target[s]
      BY <1>0, <2>2, WriterIsMet DEF Running
    <3> QED
      BY <2>2, <3>1 DEF TypeOK, KeepsOwnWork, Updates
  <2>3. CASE s # r /\ pc[s] \notin Running
    BY <2>3 DEF TypeOK, Running, Updates
  <2> QED
    BY <2>1, <2>2, <2>3
<1>5. OkShowsWhatWasAsked'
  BY DEF TypeOK, OkShowsWhatWasAsked, Updates
<1>6. NothingYet' /\ RefusedChangedNothing'
  BY DEF TypeOK, NothingYet, RefusedChangedNothing, Updates, Refusals
<1>7. DeletedIsGone' /\ DeletesHaveMet'
  BY DEF TypeOK, DeletedIsGone, DeletesHaveMet, Deletes, Updates
<1> QED
  BY <1>1, <1>2, <1>3, <1>4, <1>5, <1>6, <1>7

LEMMA ReadBackStep ==
  ASSUME IInv, NEW r \in Requests, ReadBack(r)
  PROVE  IInv'
<1> USE LifecycleAssumption DEF IInv, ReadBack
<1>0. r \in Updates
  BY DEF TypeOK, RightCalls, Updates, Deletes
<1>1. TypeOK'
  <2>1. [username |-> username[Target[r]], names |-> names[Target[r]]] \in Account
    BY DEF TypeOK, Account
  <2>2. result' \in [Requests -> Account \union {Status, Null}]
    BY <2>1 DEF TypeOK
  <2> QED
    BY <2>2 DEF TypeOK, Refusals
<1>2. RightCalls'
  BY DEF TypeOK, RightCalls, Updates, Deletes
<1>3. RunningHaveMet'
  BY MeetingsKept DEF TypeOK, Running
<1>4. KeepsOwnWork'
  BY DEF TypeOK, KeepsOwnWork, Updates
<1>5. OkShowsWhatWasAsked'
  BY <1>0 DEF TypeOK, KeepsOwnWork, OkShowsWhatWasAsked, Updates
<1>6. NothingYet' /\ RefusedChangedNothing'
  BY DEF TypeOK, NothingYet, RefusedChangedNothing, Updates, Refusals
<1>7. DeletedIsGone' /\ DeletesHaveMet'
  BY <1>0 DEF TypeOK, DeletedIsGone, DeletesHaveMet, Deletes, Updates
<1> QED
  BY <1>1, <1>2, <1>3, <1>4, <1>5, <1>6, <1>7

LEMMA FindOrFailStep ==
  ASSUME IInv, NEW r \in Requests, FindOrFail(r)
  PROVE  IInv'
<1> USE LifecycleAssumption DEF IInv, FindOrFail
<1>0. r \in Deletes
  BY DEF TypeOK, RightCalls, Updates, Deletes
<1>1. TypeOK'
  BY DEF TypeOK, Running, Refusals
<1>2. RightCalls'
  BY <1>0 DEF TypeOK, RightCalls, Updates, Deletes
<1>3. RunningHaveMet'
  BY MeetingsKept DEF TypeOK, Running
<1>4. KeepsOwnWork' /\ OkShowsWhatWasAsked'
  BY DEF TypeOK, KeepsOwnWork, OkShowsWhatWasAsked, Updates
<1>5. NothingYet' /\ RefusedChangedNothing'
  BY DEF TypeOK, NothingYet, RefusedChangedNothing, Updates, Refusals
<1>6. DeletedIsGone' /\ DeletesHaveMet'
  BY DEF TypeOK, DeletedIsGone, DeletesHaveMet, Deletes, Updates
<1> QED
  BY <1>1, <1>2, <1>3, <1>4, <1>5, <1>6

LEMMA SoftDeleteStep ==
  ASSUME IInv, NEW r \in Requests, SoftDelete(r)
  PROVE  IInv'
<1> USE LifecycleAssumption DEF IInv, SoftDelete
<1>0. r \in Deletes
  BY DEF TypeOK, RightCalls, Updates, Deletes
<1>1. TypeOK'
  BY DEF TypeOK
<1>2. RightCalls'
  BY DEF TypeOK, RightCalls, Updates, Deletes
<1>3. RunningHaveMet'
  BY MeetingsKept DEF TypeOK, Running
<1>4. KeepsOwnWork' /\ OkShowsWhatWasAsked'
  BY <1>0 DEF TypeOK, KeepsOwnWork, OkShowsWhatWasAsked, Updates, Deletes
<1>5. NothingYet' /\ RefusedChangedNothing'
  BY DEF TypeOK, NothingYet, RefusedChangedNothing, Updates, Refusals
<1>6. DeletedIsGone'
  BY DEF TypeOK, DeletedIsGone, Deletes, Updates
<1>7. DeletesHaveMet'
  <2> SUFFICES ASSUME NEW s \in Deletes, NEW q \in Deletes, s # q,
                      Target[s] = Target[q], pc'[s] = "200",
                      pc'[q] \in {"remove", "200"}
               PROVE  s \in met[q] /\ q \in met[s]
    BY DEF DeletesHaveMet
  <2>1. CASE s = r
    BY <2>1 DEF TypeOK, DeletesHaveMet, RunningHaveMet, Running, Deletes
  <2>2. CASE q = r
    BY <2>2 DEF TypeOK, DeletesHaveMet, RunningHaveMet, Running, Deletes
  <2>3. CASE s # r /\ q # r
    BY <2>3 DEF TypeOK, DeletesHaveMet, Deletes
  <2> QED
    BY <2>1, <2>2, <2>3
<1> QED
  BY <1>1, <1>2, <1>3, <1>4, <1>5, <1>6, <1>7

\* A failed call and a death end the request where it stood.
LEMMA BreakStep ==
  ASSUME IInv, NEW r \in Requests, CallFails(r) \/ Die(r)
  PROVE  IInv'
<1> USE LifecycleAssumption DEF IInv
<1>0. /\ \E end \in {"500", "dead"} : pc' = [pc EXCEPT ![r] = end]
      /\ failed' = failed \union {r}
      /\ live' \subseteq live
      /\ UNCHANGED <<username, names, sessions, rename, result, changed, met>>
  BY DEF CallFails, Die, Unanswered
<1>1. TypeOK'
  BY <1>0 DEF TypeOK, Refusals
<1>2. RightCalls'
  BY <1>0 DEF TypeOK, RightCalls, Updates, Deletes
<1>3. RunningHaveMet'
  BY <1>0 DEF TypeOK, Running, RunningHaveMet
<1>4. KeepsOwnWork' /\ OkShowsWhatWasAsked'
  BY <1>0 DEF TypeOK, KeepsOwnWork, OkShowsWhatWasAsked, Updates
<1>5. NothingYet' /\ RefusedChangedNothing'
  BY <1>0 DEF TypeOK, NothingYet, RefusedChangedNothing, Updates, Refusals
<1>6. DeletedIsGone' /\ DeletesHaveMet'
  BY <1>0 DEF TypeOK, DeletedIsGone, DeletesHaveMet, Deletes, Updates
<1> QED
  BY <1>1, <1>2, <1>3, <1>4, <1>5, <1>6

LEMMA EndSessionStep ==
  ASSUME IInv, NEW u \in Users, EndSession(u)
  PROVE  IInv'
BY DEF IInv, EndSession, TypeOK, RightCalls, RunningHaveMet, KeepsOwnWork,
       OkShowsWhatWasAsked, NothingYet, RefusedChangedNothing, DeletedIsGone,
       DeletesHaveMet

LEMMA NextIInv == IInv /\ [Next]_vars => IInv'
<1> SUFFICES ASSUME IInv, [Next]_vars PROVE IInv'
  OBVIOUS
<1>1. ASSUME NEW r \in Requests, Guard(r) PROVE IInv'
  BY <1>1, GuardStep
<1>2. ASSUME NEW r \in Requests, Step(r) PROVE IInv'
  BY <1>2, FindUsernameStep, UpdateUserStep, WriteNamesStep, ReadBackStep,
     FindOrFailStep, SoftDeleteStep DEF Step
<1>3. ASSUME NEW r \in Requests, CallFails(r) \/ Die(r) PROVE IInv'
  BY <1>3, BreakStep
<1>4. ASSUME NEW u \in Users, EndSession(u) PROVE IInv'
  BY <1>4, EndSessionStep
<1>5. CASE UNCHANGED vars
  BY <1>5 DEF vars, IInv, TypeOK, RightCalls, RunningHaveMet, KeepsOwnWork,
     OkShowsWhatWasAsked, NothingYet, RefusedChangedNothing, DeletedIsGone,
     DeletesHaveMet
<1> QED
  BY <1>1, <1>2, <1>3, <1>4, <1>5 DEF Next

-------------------------------------------------------------------------------
(* The theorems. *)

LEMMA Invariance == Spec => []IInv
BY InitIInv, NextIInv, PTL DEF Spec

\* The variables have their types: an answer of an update is an account, that
\* of a delete the status.
THEOREM TypeCorrect == Spec => []TypeOK
<1>1. IInv => TypeOK
  BY DEF IInv
<1> QED
  BY <1>1, Invariance, PTL

\* updateUserProfile answers with what it was asked to write, if no other
\* update of the account ran at the same time.
THEOREM OkTheorem == Spec => []OkShowsWhatWasAsked
<1>1. IInv => OkShowsWhatWasAsked
  BY DEF IInv
<1> QED
  BY <1>1, Invariance, PTL

\* An update is refused half-way only after a failed call or a deletion.
THEOREM RefusedTheorem == Spec => []RefusedChangedNothing
<1>1. IInv => RefusedChangedNothing
  BY DEF IInv
<1> QED
  BY <1>1, Invariance, PTL

\* Of two deletes of one account that do not overlap the second one fails.
THEOREM SecondDeleteTheorem == Spec => []SecondDeleteFails
<1>1. IInv => SecondDeleteFails
  BY DEF IInv, DeletesHaveMet, SecondDeleteFails
<1> QED
  BY <1>1, Invariance, PTL

\* No update answers 200 after a delete of its account has.
THEOREM NotShownTheorem == Spec => NotShownAfterDelete
<1> DEFINE Shown ==
      \A r \in Updates :
        pc[r] # "200" /\ pc'[r] = "200" =>
          \A s \in Deletes : Target[s] = Target[r] => pc[s] # "200"
<1>1. IInv /\ [Next]_vars => [Shown]_vars
  <2> SUFFICES ASSUME IInv, Next, NEW r \in Updates,
                      pc[r] # "200", pc'[r] = "200",
                      NEW s \in Deletes, Target[s] = Target[r]
               PROVE  pc[s] # "200"
    OBVIOUS
  <2>1. Target[r] \in live
    BY DEF IInv, TypeOK, RightCalls, Updates, Deletes, Next, Guard, FirstCall,
       Step, FindUsername, UpdateUser, WriteNames, ReadBack, FindOrFail,
       SoftDelete, CallFails, Die, EndSession
  <2> QED
    BY <2>1 DEF IInv, DeletedIsGone
<1> QED
  BY <1>1, Invariance, PTL DEF Spec, NotShownAfterDelete

===============================================================================

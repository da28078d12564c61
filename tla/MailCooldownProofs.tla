-------------------------- MODULE MailCooldownProofs --------------------------
(***************************************************************************)
(* Proofs about MailCooldown, for any users, requests, cooldown and clock. *)
(* The two safety properties follow from an inductive invariant that says  *)
(* what a marker in Redis knows about the requests that wrote it and what  *)
(* a request that has passed the check knows about earlier markers.        *)
(***************************************************************************)
EXTENDS MailCooldown, TLAPS

\* The steps of a request are made in their order.
PcHistory ==
  \A r \in Requests :
    /\ pc[r] \in {"idle", "lookup", "check", "404"} => checked[r] = Never
    /\ pc[r] \in {"idle", "lookup", "check", "add", "404", "429"} => added[r] = Never
    /\ pc[r] \in {"add", "set"} => wrote[r] = Never
    /\ pc[r] \in {"add", "set", "429"} => checked[r] # Never
    /\ pc[r] = "set" => added[r] # Never
    /\ added[r] # Never => checked[r] # Never /\ checked[r] <= added[r]
    /\ wrote[r] # Never => added[r] # Never /\ added[r] <= wrote[r]

\* Nothing is dated later than the clock.
NotInFuture ==
  \A r \in Requests :
    /\ checked[r] # Never => checked[r] <= now
    /\ added[r] # Never => added[r] <= now
    /\ wrote[r] # Never => wrote[r] <= now

\* The marker under a key protects every mail that wrote it ...
MarkerProtects ==
  \A a \in Requests : wrote[a] # Never =>
    /\ expiry[KeyOf(a)] # Never
    /\ wrote[a] + Cooldown <= expiry[KeyOf(a)]

\* ... and is there because of one of them.
MarkerHasWriter ==
  \A k \in CacheKeys : expiry[k] # Never =>
    \E a \in Requests :
      KeyOf(a) = k /\ wrote[a] # Never /\ expiry[k] = wrote[a] + Cooldown

\* A request that was let through saw no live marker: each one under its key
\* had run out or was written only later.
CheckedClear ==
  \A a, b \in Requests :
    /\ KeyOf(a) = KeyOf(b)
    /\ wrote[a] # Never /\ checked[b] # Never /\ pc[b] # "429"
    => wrote[a] + Cooldown <= checked[b] \/ checked[b] <= wrote[a]

IInv ==
  /\ TypeOK
  /\ PcHistory
  /\ NotInFuture
  /\ MarkerProtects
  /\ MarkerHasWriter
  /\ CheckedClear
  /\ RefusedForSameMail

-------------------------------------------------------------------------------

\* Two mails share a cache key only when they are of one kind and to one user.
LEMMA KeyInjective ==
  ASSUME NEW a \in Requests, NEW b \in Requests
  PROVE  KeyOf(a) = KeyOf(b) <=> SameMail(a, b)
BY CooldownAssumption, SMTT(30) DEF KeyOf, CacheKey, SameMail, Kinds

\* The key of a request is one of the keys of the cache.
LEMMA KeyIsCacheKey == \A r \in Requests : KeyOf(r) \in CacheKeys
BY CooldownAssumption DEF KeyOf, CacheKeys

\* getTtl and the comparison after it: a request is refused exactly while the
\* marker under its key has not run out.
LEMMA LimitedIffLive ==
  ASSUME TypeOK, NEW k \in CacheKeys
  PROVE  Limited(k) <=> expiry[k] # Never /\ now < expiry[k]
BY CooldownAssumption DEF TypeOK, Time, Limited, GetTtl, Pttl

-------------------------------------------------------------------------------

\* TypeOK holds initially and no step leaves it.
LEMMA InitTypeOK == Init => TypeOK
BY DEF Init, TypeOK, Time

LEMMA NextTypeOK ==
  ASSUME TypeOK, [Next]_vars
  PROVE  TypeOK'
<1> USE CooldownAssumption, KeyIsCacheKey DEF TypeOK, Time, Running, Answers
<1>1. ASSUME NEW r \in Requests, Begin(r) PROVE TypeOK'
  BY <1>1 DEF Begin
<1>2. ASSUME NEW r \in Requests, LookUp(r) PROVE TypeOK'
  BY <1>2 DEF LookUp
<1>3. ASSUME NEW r \in Requests, CheckTtl(r) PROVE TypeOK'
  BY <1>3 DEF CheckTtl
<1>4. ASSUME NEW r \in Requests, AddJob(r) PROVE TypeOK'
  BY <1>4 DEF AddJob
<1>5. ASSUME NEW r \in Requests, SetMarker(r) PROVE TypeOK'
  BY <1>5 DEF SetMarker
<1>6. ASSUME NEW r \in Requests, Fail(r) \/ Die(r) PROVE TypeOK'
  BY <1>6 DEF Fail, Die
<1>7. ASSUME NEW u \in Users, DeleteUser(u) PROVE TypeOK'
  BY <1>7 DEF DeleteUser
<1>8. CASE Tick
  BY <1>8 DEF Tick
<1>9. CASE UNCHANGED vars
  BY <1>9 DEF vars
<1> QED
  BY <1>1, <1>2, <1>3, <1>4, <1>5, <1>6, <1>7, <1>8, <1>9 DEF Next, Step

\* Type correctness of the cooldown.
THEOREM TypeCorrect == Spec => []TypeOK
<1>1. TypeOK /\ [Next]_vars => TypeOK'
  BY NextTypeOK
<1> QED
  BY InitTypeOK, <1>1, PTL DEF Spec

-------------------------------------------------------------------------------
(* The inductive invariant. *)

\* It holds when nothing has been asked for yet.
LEMMA InitIInv == Init => IInv
<1> SUFFICES ASSUME Init PROVE IInv
  OBVIOUS
<1> QED
  BY InitTypeOK, KeyIsCacheKey
  DEF Init, IInv, PcHistory, NotInFuture, MarkerProtects, MarkerHasWriter,
      CheckedClear, RefusedForSameMail

\* A step that only moves the program counter of a request that has no check,
\* job or marker to its name yet, or ends it without a refusal.
LEMMA MoveOnly ==
  ASSUME IInv, NEW r \in Requests, TypeOK', Begin(r) \/ LookUp(r) \/ Fail(r) \/ Die(r)
  PROVE  IInv'
<1> USE DEF IInv, Begin, LookUp, Fail, Die, Running
<1>1. PcHistory'
  BY DEF PcHistory, TypeOK
<1>2. NotInFuture'
  BY DEF NotInFuture
<1>3. MarkerProtects' /\ MarkerHasWriter'
  BY DEF MarkerProtects, MarkerHasWriter
<1>4. CheckedClear'
  BY DEF CheckedClear, TypeOK
<1>5. RefusedForSameMail'
  BY DEF RefusedForSameMail, TypeOK
<1> QED
  BY <1>1, <1>2, <1>3, <1>4, <1>5

\* The check: a request let through finds every earlier marker run out, and one
\* that is refused finds the request behind the live marker.
LEMMA CheckKeeps ==
  ASSUME IInv, NEW r \in Requests, TypeOK', CheckTtl(r)
  PROVE  IInv'
<1> USE CooldownAssumption DEF IInv, CheckTtl, TypeOK, Time
<1>1. PcHistory'
  BY DEF PcHistory, NotInFuture
<1>2. NotInFuture'
  BY DEF NotInFuture
<1>3. MarkerProtects' /\ MarkerHasWriter'
  BY DEF MarkerProtects, MarkerHasWriter
<1>4. CheckedClear'
  <2> SUFFICES ASSUME NEW a \in Requests, NEW b \in Requests,
                      KeyOf(a) = KeyOf(b),
                      wrote[a] # Never, checked'[b] # Never, pc'[b] # "429"
               PROVE  wrote[a] + Cooldown <= checked'[b] \/ checked'[b] <= wrote[a]
    BY DEF CheckedClear
  <2>1. CASE b = r
    <3>1. ~ Limited(KeyOf(r))
      BY <2>1
    <3>2. expiry[KeyOf(r)] = Never \/ expiry[KeyOf(r)] <= now
      BY <3>1, LimitedIffLive, KeyIsCacheKey
    <3>3. expiry[KeyOf(r)] # Never /\ wrote[a] + Cooldown <= expiry[KeyOf(r)]
      BY <2>1 DEF MarkerProtects
    <3>4. expiry[KeyOf(r)] \in Nat
      BY <3>3, KeyIsCacheKey
    <3> QED
      BY <2>1, <3>2, <3>3, <3>4
  <2>2. CASE b # r
    BY <2>2 DEF CheckedClear
  <2> QED
    BY <2>1, <2>2
<1>5. RefusedForSameMail'
  <2> SUFFICES ASSUME NEW b \in Requests, pc'[b] = "429"
               PROVE  \E a \in Requests \ {b} :
                        /\ SameMail(a, b)
                        /\ added[a] # Never /\ wrote[a] # Never
                        /\ added[a] <= wrote[a] /\ wrote[a] <= checked'[b]
                        /\ checked'[b] < wrote[a] + Cooldown
    BY DEF RefusedForSameMail
  <2>1. CASE b = r
    <3>1. Limited(KeyOf(r))
      BY <2>1
    <3>2. expiry[KeyOf(r)] # Never /\ now < expiry[KeyOf(r)]
      BY <3>1, LimitedIffLive, KeyIsCacheKey
    <3>3. PICK a \in Requests : /\ KeyOf(a) = KeyOf(r) /\ wrote[a] # Never
                                /\ expiry[KeyOf(r)] = wrote[a] + Cooldown
      BY <3>2, KeyIsCacheKey DEF MarkerHasWriter
    <3>4. added[a] # Never /\ added[a] <= wrote[a] /\ wrote[a] <= now
      BY <3>3 DEF PcHistory, NotInFuture
    <3>5. a # r
      BY <3>4 DEF PcHistory
    <3>6. SameMail(a, r)
      BY <3>3, KeyInjective
    <3> QED
      BY <2>1, <3>2, <3>3, <3>4, <3>5, <3>6
  <2>2. CASE b # r
    BY <2>2 DEF RefusedForSameMail
  <2> QED
    BY <2>1, <2>2
<1> QED
  BY <1>1, <1>2, <1>3, <1>4, <1>5

\* The job is added after the check and before the marker.
LEMMA AddKeeps ==
  ASSUME IInv, NEW r \in Requests, TypeOK', AddJob(r)
  PROVE  IInv'
<1> USE CooldownAssumption DEF IInv, AddJob, TypeOK, Time
<1>1. PcHistory'
  BY DEF PcHistory, NotInFuture
<1>2. NotInFuture'
  BY DEF NotInFuture
<1>3. MarkerProtects' /\ MarkerHasWriter' /\ CheckedClear'
  BY DEF MarkerProtects, MarkerHasWriter, CheckedClear
<1>4. RefusedForSameMail'
  BY DEF RefusedForSameMail, PcHistory
<1> QED
  BY <1>1, <1>2, <1>3, <1>4

\* Writing the marker can only prolong the protection of earlier mails, since
\* every mail is protected equally long.
LEMMA MarkerKeeps ==
  ASSUME IInv, NEW r \in Requests, TypeOK', SetMarker(r)
  PROVE  IInv'
<1> USE CooldownAssumption DEF IInv, SetMarker, TypeOK, Time
<1>1. PcHistory'
  BY DEF PcHistory, NotInFuture
<1>2. NotInFuture'
  BY DEF NotInFuture
<1>3. MarkerProtects'
  BY KeyIsCacheKey DEF MarkerProtects, NotInFuture
<1>4. MarkerHasWriter'
  <2> SUFFICES ASSUME NEW k \in CacheKeys, expiry'[k] # Never
               PROVE  \E a \in Requests :
                        /\ KeyOf(a) = k /\ wrote'[a] # Never
                        /\ expiry'[k] = wrote'[a] + Cooldown
    BY DEF MarkerHasWriter
  <2>1. CASE k = KeyOf(r)
    BY <2>1
  <2>2. CASE k # KeyOf(r)
    <3>1. PICK a \in Requests :
            KeyOf(a) = k /\ wrote[a] # Never /\ expiry[k] = wrote[a] + Cooldown
      BY <2>2 DEF MarkerHasWriter
    <3>2. a # r
      BY <2>2, <3>1
    <3> QED
      BY <2>2, <3>1, <3>2
  <2> QED
    BY <2>1, <2>2
<1>5. CheckedClear'
  BY DEF CheckedClear, NotInFuture
<1>6. RefusedForSameMail'
  BY DEF RefusedForSameMail, PcHistory
<1> QED
  BY <1>1, <1>2, <1>3, <1>4, <1>5, <1>6

\* Time passing and accounts going away disturb nothing.
LEMMA EnvironmentKeeps ==
  ASSUME IInv, TypeOK', Tick \/ (\E u \in Users : DeleteUser(u)) \/ UNCHANGED vars
  PROVE  IInv'
BY CooldownAssumption
DEF IInv, TypeOK, Time, Tick, DeleteUser, vars, PcHistory, NotInFuture,
    MarkerProtects, MarkerHasWriter, CheckedClear, RefusedForSameMail

LEMMA NextIInv ==
  ASSUME IInv, [Next]_vars
  PROVE  IInv'
<1>1. TypeOK'
  BY NextTypeOK DEF IInv
<1> QED
  BY <1>1, MoveOnly, CheckKeeps, AddKeeps, MarkerKeeps, EnvironmentKeeps
  DEF Next, Step

LEMMA Inductive == Spec => []IInv
<1>1. IInv /\ [Next]_vars => IInv'
  BY NextIInv
<1> QED
  BY InitIInv, <1>1, PTL DEF Spec

-------------------------------------------------------------------------------

\* What the invariant says of two mails that are too close.
LEMMA IInvImpliesEarlyMail == IInv => EarlyMailNeedsOverlap
<1> SUFFICES ASSUME IInv,
                    NEW a \in Requests, NEW b \in Requests,
                    a # b, SameMail(a, b),
                    added[a] # Never, added[b] # Never,
                    added[a] <= added[b], added[b] < added[a] + Cooldown,
                    wrote[a] # Never
             PROVE  wrote[a] >= checked[b]
  BY DEF EarlyMailNeedsOverlap
<1>1. checked[b] # Never /\ checked[b] <= added[b] /\ pc[b] # "429"
  BY DEF IInv, PcHistory
<1>2. wrote[a] + Cooldown <= checked[b] \/ checked[b] <= wrote[a]
  BY <1>1, KeyInjective DEF IInv, CheckedClear
<1>3. added[a] <= wrote[a]
  BY DEF IInv, PcHistory
<1>4. /\ added[a] \in Nat /\ added[b] \in Nat
      /\ wrote[a] \in Nat /\ checked[b] \in Nat
  BY <1>1 DEF IInv, TypeOK, Time
<1> QED
  BY <1>1, <1>2, <1>3, <1>4, CooldownAssumption

\* Two mails of one kind to one user come closer than the cooldown only from
\* requests that overlapped, or after a marker that was never written.
THEOREM EarlyMailTheorem == Spec => []EarlyMailNeedsOverlap
BY Inductive, IInvImpliesEarlyMail, PTL

\* Every refusal has a queued mail of that kind to that user behind it.
THEOREM RefusalTheorem == Spec => []RefusedForSameMail
<1>1. IInv => RefusedForSameMail
  BY DEF IInv
<1> QED
  BY Inductive, <1>1, PTL

===============================================================================

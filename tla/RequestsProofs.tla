--------------------------- MODULE RequestsProofs ---------------------------
(***************************************************************************)
(* Proofs about Requests, for any number of requests, clients and files,   *)
(* any limit and anything that may be sent.  Most steps are about one      *)
(* request and leave alone what the throttler has counted (lemma Moves);   *)
(* Send, Throttle, EndSession, Expire and Crash are the others.  Then come *)
(* the way forward of every request to one answer, and the fields of the   *)
(* DTOs, decorator by decorator.                                           *)
(***************************************************************************)
EXTENDS Requests, FiniteSetTheorems, TLAPS

RequestRecord ==
  [stage : Stages, route : Routes, client : Clients \union {None},
   proxied : BOOLEAN, header : {"none", "empty", "address"},
   leftmost : Addresses \union {None}, files : SUBSET Files,
   greeted : BOOLEAN, session : Clients \union {None}, before : SUBSET Requests,
   pending : SUBSET Files, failed : SUBSET Files, answer : Answers]

\* A request at a stage is on a route that has it, and is not answered yet.
OnRoute(r) ==
  /\ request[r].stage # "none" => request[r].client \in Clients
  /\ request[r].stage # "ended" => request[r].answer = "none"
  /\ request[r].stage = "throttle" => request[r].route \in Throttled
  /\ request[r].stage = "handshake" => request[r].route = "message"
  /\ request[r].stage = "guard" =>
       /\ request[r].route \in Guarded
       /\ request[r].route = "message" => request[r].greeted
  /\ request[r].stage \in {"receive", "put"} => request[r].route = "upload"
  /\ request[r].stage = "pipe" => request[r].route = "users"
  /\ request[r].stage = "handle" => request[r].route \in {"health", "users", "message"}

\* ServedHasOwner, of one request.
Owned(r) ==
  /\ request[r].route \in Guarded
  /\ \/ request[r].stage \in {"receive", "pipe", "put", "handle"}
     \/ request[r].answer = "ok"
  => \/ request[r].session = request[r].client
     \/ /\ request[r].route = "message"
        /\ request[r].greeted /\ request[r].client \notin live

\* The puts that go on are of an upload that is not answered, or has failed; what
\* an upload waits for, and only that, is missing in the store.
Waiting(r) ==
  /\ request[r].stage = "put" =>
       /\ request[r].pending # {}
       /\ \A f \in request[r].files \ request[r].pending : <<r, f>> \in store
  /\ request[r].pending # {} =>
       /\ request[r].route = "upload" /\ request[r].session = request[r].client
       /\ request[r].pending \subseteq request[r].files
       /\ \/ request[r].stage = "put"
          \/ request[r].stage = "ended" /\ request[r].answer = "error"
               /\ request[r].failed # {}

\* StoredIsAccounted, of one request.
Stored(r) ==
  /\ request[r].route = "upload" /\ request[r].answer = "ok" =>
       \A f \in request[r].files : <<r, f>> \in store
  /\ \A f \in Files : <<r, f>> \in store =>
       /\ request[r].stage \in {"put", "ended"}
       /\ request[r].route = "upload" /\ request[r].session = request[r].client
       /\ f \in request[r].files
       /\ \/ request[r].stage = "put" \/ request[r].answer \in {"ok", "lost"}
          \/ request[r].answer = "error" /\ request[r].failed # {}

Sound(r) == OnRoute(r) /\ Owned(r) /\ Waiting(r) /\ Stored(r)

\* What is counted in a window was sent to its route and is of its address.
CountedThere ==
  \A key \in Throttled \X Addresses : \A q \in window[key] :
    /\ request[q].stage # "none"
    /\ request[q].route = key[1] /\ Tracker(q) = key[2]

Through(key) == {q \in window[key] : request[q].answer # "tooMany"}

\* At most Limit of a window were let through.
FewThrough ==
  \A key \in Throttled \X Addresses : Cardinality(Through(key)) <= Limit

\* A refused request found Limit others of its route and address.
RefusedFor(r) ==
  request[r].answer = "tooMany" =>
    /\ Cardinality(request[r].before) >= Limit
    /\ \A q \in request[r].before :
         /\ request[q].stage # "none"
         /\ request[q].route = request[r].route /\ Tracker(q) = Tracker(r)

IInv ==
  /\ TypeOK
  /\ \A r \in Requests : Sound(r)
  /\ CountedThere
  /\ FewThrough
  /\ \A r \in Requests : RefusedFor(r)

-------------------------------------------------------------------------------

\* A record of the type has fields of theirs.
LEMMA RecordFields ==
  ASSUME NEW x \in RequestRecord
  PROVE  /\ x.stage \in Stages /\ x.route \in Routes /\ x.client \in Clients \union {None}
         /\ x.proxied \in BOOLEAN /\ x.leftmost \in Addresses \union {None}
         /\ x.header \in {"none", "empty", "address"} /\ x.files \subseteq Files
         /\ x.greeted \in BOOLEAN /\ x.session \in Clients \union {None}
         /\ x.before \subseteq Requests /\ x.pending \subseteq Files
         /\ x.failed \subseteq Files /\ x.answer \in Answers
BY DEF RequestRecord

LEMMA RequestType == TypeOK => request \in [Requests -> RequestRecord]
BY DEF TypeOK, RequestRecord

\* A window and what was let through it are finite.
LEMMA ThroughFinite ==
  ASSUME TypeOK, NEW key \in Throttled \X Addresses
  PROVE  /\ window[key] \subseteq Requests
         /\ IsFiniteSet(window[key]) /\ IsFiniteSet(Through(key))
<1>1. window[key] \subseteq Requests
  BY DEF TypeOK
<1>2. Through(key) \subseteq window[key]
  BY DEF Through
<1> QED BY <1>1, <1>2, RequestsAssumption, FS_Subset

\* The initial states.
LEMMA InitIInv == Init => IInv
<1> SUFFICES ASSUME Init PROVE IInv
  OBVIOUS
<1>1. NoRequest \in RequestRecord
  BY DEF NoRequest, RequestRecord, Stages, Routes, Answers
<1>2. TypeOK
  BY <1>1 DEF Init, TypeOK, RequestRecord
<1>3. \A r \in Requests : request[r] = NoRequest
  BY DEF Init
<1>4. ASSUME NEW r \in Requests PROVE Sound(r)
  BY <1>3 DEF NoRequest, Init, Sound, OnRoute, Owned, Waiting, Stored, Guarded
<1>5. \A key \in Throttled \X Addresses : window[key] = {} /\ Through(key) = {}
  BY DEF Init, Through
<1>6. CountedThere /\ FewThrough
  BY <1>5, FS_EmptySet, RequestsAssumption DEF CountedThere, FewThrough
<1>7. \A r \in Requests : RefusedFor(r)
  BY <1>3 DEF RefusedFor, NoRequest
<1> QED BY <1>2, <1>4, <1>6, <1>7 DEF IInv

-------------------------------------------------------------------------------
(* A step that changes one request, and may store files of it.               *)

OthersSame(r) == \A q \in Requests \ {r} : request'[q] = request[q]

\* The other requests stay sound.
LEMMA OthersSound ==
  ASSUME \A q \in Requests : Sound(q), NEW r \in Requests, OthersSame(r), live' = live,
         store \subseteq store', \A s \in store' \ store : s[1] = r
  PROVE  \A q \in Requests \ {r} : Sound(q)'
<1> SUFFICES ASSUME NEW q \in Requests \ {r} PROVE Sound(q)'
  OBVIOUS
<1>1. request'[q] = request[q] /\ Sound(q)
  BY DEF OthersSame
<1>2. \A f : <<q, f>> \in store' <=> <<q, f>> \in store
  OBVIOUS
<1>3. OnRoute(q)' /\ Owned(q)'
  BY <1>1 DEF Sound, OnRoute, Owned
<1>4. Waiting(q)' /\ Stored(q)'
  BY <1>1, <1>2 DEF Sound, Waiting, Stored
<1> QED BY <1>3, <1>4 DEF Sound

\* The throttler's counts stand where no request is refused, and none that was
\* counted changes its route or address.
LEMMA CountsStand ==
  ASSUME IInv, TypeOK', window' = window,
         \A q \in Requests : request[q].stage # "none" =>
           /\ request'[q].stage # "none" /\ request'[q].route = request[q].route
           /\ Tracker(q)' = Tracker(q) /\ request'[q].before = request[q].before,
         \A q \in Requests :
           request'[q].answer = "tooMany" <=> request[q].answer = "tooMany"
  PROVE  CountedThere' /\ FewThrough' /\ \A q \in Requests : RefusedFor(q)'
<1>1. \A key \in Throttled \X Addresses : window[key] \subseteq Requests
  BY DEF IInv, TypeOK
<1>2. CountedThere'
  BY <1>1 DEF IInv, CountedThere
<1>3. \A key \in Throttled \X Addresses : Through(key)' = Through(key)
  BY <1>1 DEF Through
<1>4. FewThrough'
  BY <1>3 DEF IInv, FewThrough
<1>5. ASSUME NEW q \in Requests, request'[q].answer = "tooMany" PROVE RefusedFor(q)'
  <2>1. request[q].answer = "tooMany" /\ request[q].stage # "none"
    BY <1>5 DEF IInv, Sound, OnRoute
  <2>2. request[q] \in RequestRecord
    BY RequestType DEF IInv
  <2>3. request[q].before \subseteq Requests
    BY <2>2, RecordFields
  <2> QED BY <2>1, <2>3 DEF IInv, RefusedFor
<1>6. \A q \in Requests : RefusedFor(q)'
  BY <1>5 DEF RefusedFor
<1> QED BY <1>2, <1>4, <1>6

\* What a request is counted as does not change while it is on its way.
LEMMA SameTracker ==
  ASSUME NEW q, config' = config,
         request'[q].client = request[q].client,
         request'[q].proxied = request[q].proxied,
         request'[q].header = request[q].header,
         request'[q].leftmost = request[q].leftmost
  PROVE  Tracker(q)' = Tracker(q)
BY DEF Tracker, Ip, Source

LEMMA Moves ==
  ASSUME IInv, NEW r \in Requests, OthersSame(r), request[r].stage # "none",
         UNCHANGED <<config, live, window>>,
         store \subseteq store', \A s \in store' \ store : s[1] = r,
         store' \subseteq Requests \X Files,
         request' \in [Requests -> RequestRecord],
         request'[r].stage # "none", request'[r].route = request[r].route,
         request'[r].client = request[r].client,
         request'[r].proxied = request[r].proxied,
         request'[r].header = request[r].header,
         request'[r].leftmost = request[r].leftmost,
         request'[r].before = request[r].before,
         request'[r].answer = "tooMany" <=> request[r].answer = "tooMany",
         Sound(r)'
  PROVE  IInv'
<1>1. TypeOK'
  BY DEF IInv, TypeOK, RequestRecord
<1>2. \A q \in Requests : Sound(q)'
  BY OthersSound DEF IInv
<1>3. \A q \in Requests : request[q].stage # "none" =>
        /\ request'[q].stage # "none" /\ request'[q].route = request[q].route
        /\ Tracker(q)' = Tracker(q) /\ request'[q].before = request[q].before
  BY SameTracker DEF OthersSame
<1>4. \A q \in Requests :
        request'[q].answer = "tooMany" <=> request[q].answer = "tooMany"
  BY DEF OthersSame
<1>5. CountedThere' /\ FewThrough' /\ \A q \in Requests : RefusedFor(q)'
  BY <1>1, <1>3, <1>4, CountsStand
<1> QED BY <1>1, <1>2, <1>5 DEF IInv

\* A request that is not waiting for puts is answered; with success only where
\* its owner is known, or the route is not guarded.
LEMMA AnswerKeeps ==
  ASSUME IInv, NEW r \in Requests, NEW a \in Answers \ {"none", "tooMany"}, Answer(r, a),
         UNCHANGED <<config, live, window, store>>,
         request[r].stage \notin {"none", "put", "ended"},
         a # "ok" \/ request[r].stage = "handle" \/ request[r].route \notin Guarded
  PROVE  IInv'
<1>1. request \in [Requests -> RequestRecord] /\ request[r] \in RequestRecord
  BY RequestType DEF IInv
<1>2. request' = [request EXCEPT ![r] =
        [request[r] EXCEPT !.stage = "ended", !.answer = a]]
  BY <1>1 DEF Answer
<1>3. request'[r] = [request[r] EXCEPT !.stage = "ended", !.answer = a]
  BY <1>1, <1>2
<1>4. /\ request'[r].stage = "ended" /\ request'[r].answer = a
      /\ request'[r].route = request[r].route /\ request'[r].client = request[r].client
      /\ request'[r].proxied = request[r].proxied
      /\ request'[r].header = request[r].header
      /\ request'[r].leftmost = request[r].leftmost
      /\ request'[r].before = request[r].before
      /\ request'[r].session = request[r].session
      /\ request'[r].greeted = request[r].greeted
      /\ request'[r].pending = request[r].pending
      /\ request'[r].failed = request[r].failed
      /\ request'[r].files = request[r].files
      /\ request'[r] \in RequestRecord
  BY <1>1, <1>3 DEF RequestRecord, Stages
<1>5. OthersSame(r) /\ request' \in [Requests -> RequestRecord]
  BY <1>1, <1>2, <1>4 DEF OthersSame
<1>6. Sound(r) /\ request[r].answer = "none"
  BY DEF IInv, Sound, OnRoute
<1>7. OnRoute(r)'
  BY <1>4, <1>6 DEF OnRoute, Sound
<1>8. Owned(r)'
  BY <1>4, <1>6 DEF Owned, Sound
<1>9. Waiting(r)'
  BY <1>4, <1>6 DEF Waiting, Sound
<1>10. Stored(r)'
  BY <1>4, <1>6 DEF Stored, Sound, OnRoute, Guarded
<1>11. Sound(r)'
  BY <1>7, <1>8, <1>9, <1>10 DEF Sound
<1>12. store' \subseteq Requests \X Files
  BY DEF IInv, TypeOK
<1> QED BY <1>4, <1>5, <1>6, <1>11, <1>12, Moves

LEMMA HookKeeps ==
  ASSUME IInv, NEW r \in Requests, BasicAuth(r) \/ AuthProxy(r) \/ ThrottleFails(r)
  PROVE  IInv'
<1>1. {"ok", "unauthorized", "error"} \subseteq Answers \ {"none", "tooMany"}
  BY DEF Answers
<1>2. CASE BasicAuth(r)
  <2>1. PICK credentials \in {"right", "wrong"} :
          Answer(r, IF credentials = "right" THEN "ok" ELSE "unauthorized")
    BY <1>2 DEF BasicAuth
  <2> DEFINE a == IF credentials = "right" THEN "ok" ELSE "unauthorized"
  <2>2. a \in Answers \ {"none", "tooMany"} /\ Answer(r, a)
    BY <1>1, <2>1
  <2>3. request[r].stage = "hook" /\ request[r].route \notin Guarded
    BY <1>2 DEF BasicAuth, Guarded
  <2> HIDE DEF a
  <2> QED BY <1>2, <2>2, <2>3, AnswerKeeps DEF BasicAuth
<1>3. CASE AuthProxy(r)
  <2>1. PICK a \in {"ok", "unauthorized", "error"} : Answer(r, a)
    BY <1>3 DEF AuthProxy
  <2>2. request[r].stage = "hook" /\ request[r].route \notin Guarded
    BY <1>3 DEF AuthProxy, Guarded
  <2> QED BY <1>1, <1>3, <2>1, <2>2, AnswerKeeps DEF AuthProxy
<1>4. CASE ThrottleFails(r)
  BY <1>1, <1>4, AnswerKeeps DEF ThrottleFails
<1> QED BY <1>2, <1>3, <1>4

\* A request that is let go on, with what it learned on the way.
LEMMA OnwardKeeps ==
  ASSUME IInv, NEW r \in Requests, NEW stage \in Stages \ {"none", "put", "ended"},
         NEW greeted \in BOOLEAN, NEW session \in Clients \union {None},
         request' = [request EXCEPT ![r].stage = stage, ![r].greeted = greeted,
                                    ![r].session = session],
         UNCHANGED <<config, live, window, store>>,
         request[r].stage \notin {"none", "put", "ended"},
         OnRoute(r)', Owned(r)'
  PROVE  IInv'
<1>1. request \in [Requests -> RequestRecord] /\ request[r] \in RequestRecord
  BY RequestType DEF IInv
<1>2. request' = [request EXCEPT ![r] =
        [request[r] EXCEPT !.stage = stage, !.greeted = greeted, !.session = session]]
  BY <1>1
<1>3. request'[r] =
        [request[r] EXCEPT !.stage = stage, !.greeted = greeted, !.session = session]
  BY <1>1, <1>2
<1>4. /\ request'[r].stage = stage /\ request'[r].answer = request[r].answer
      /\ request'[r].route = request[r].route /\ request'[r].client = request[r].client
      /\ request'[r].proxied = request[r].proxied
      /\ request'[r].header = request[r].header
      /\ request'[r].leftmost = request[r].leftmost
      /\ request'[r].before = request[r].before
      /\ request'[r].pending = request[r].pending
      /\ request'[r] \in RequestRecord
  BY <1>1, <1>3 DEF RequestRecord
<1>5. OthersSame(r) /\ request' \in [Requests -> RequestRecord]
  BY <1>1, <1>2, <1>4 DEF OthersSame
<1>6. Sound(r) /\ request[r].answer = "none"
  BY DEF IInv, Sound, OnRoute
<1>7. Waiting(r)'
  BY <1>4, <1>6 DEF Waiting, Sound
<1>8. Stored(r)'
  BY <1>4, <1>6 DEF Stored, Sound
<1>9. Sound(r)'
  BY <1>7, <1>8 DEF Sound
<1>10. store' \subseteq Requests \X Files
  BY DEF IInv, TypeOK
<1> QED BY <1>4, <1>5, <1>6, <1>9, <1>10, Moves

\* A listing whose input was admitted goes on to its handler.
LEMMA ToKeeps ==
  ASSUME IInv, NEW r \in Requests, To(r, "handle"),
         UNCHANGED <<config, live, window, store>>,
         request[r].stage = "pipe", request[r].route = "users"
  PROVE  IInv'
<1>1. request \in [Requests -> RequestRecord] /\ request[r] \in RequestRecord
  BY RequestType DEF IInv
<1>2. request' = [request EXCEPT ![r].stage = "handle",
        ![r].greeted = request[r].greeted, ![r].session = request[r].session]
  BY <1>1 DEF To, RequestRecord
<1>3. request'[r] = [request[r] EXCEPT !.stage = "handle"]
  BY <1>1 DEF To
<1>4. /\ request'[r].stage = "handle" /\ request'[r].answer = request[r].answer
      /\ request'[r].route = request[r].route /\ request'[r].client = request[r].client
      /\ request'[r].session = request[r].session
      /\ request'[r].greeted = request[r].greeted
  BY <1>1, <1>3 DEF RequestRecord
<1>5. OnRoute(r) /\ Owned(r)
  BY DEF IInv, Sound
<1>6. OnRoute(r)' /\ Owned(r)'
  BY <1>4, <1>5 DEF OnRoute, Owned
<1>7. /\ "handle" \in Stages \ {"none", "put", "ended"}
      /\ request[r].greeted \in BOOLEAN /\ request[r].session \in Clients \union {None}
  BY <1>1, RecordFields DEF Stages
<1> QED BY <1>2, <1>6, <1>7, OnwardKeeps

LEMMA HandshakeKeeps == ASSUME IInv, NEW r \in Requests, Handshake(r) PROVE IInv'
<1>1. request[r] \in RequestRecord /\ request[r].stage = "handshake" /\ OnRoute(r)
      /\ request \in [Requests -> RequestRecord]
  BY RequestType DEF IInv, Sound, Handshake
<1>2. CASE request' = [request EXCEPT ![r].stage = "guard", ![r].greeted = TRUE]
  <2>1. request' = [request EXCEPT ![r].stage = "guard", ![r].greeted = TRUE,
                                   ![r].session = request[r].session]
    BY <1>1, <1>2 DEF RequestRecord
  <2>2. request'[r] = [request[r] EXCEPT !.stage = "guard", !.greeted = TRUE]
    BY <1>1, <1>2
  <2>3. /\ request'[r].stage = "guard" /\ request'[r].greeted
        /\ request'[r].route = request[r].route /\ request'[r].client = request[r].client
        /\ request'[r].answer = request[r].answer
    BY <1>1, <2>2 DEF RequestRecord
  <2>4. OnRoute(r)' /\ Owned(r)'
    BY <1>1, <2>3 DEF OnRoute, Owned, Guarded
  <2>5. request[r].session \in Clients \union {None} /\ TRUE \in BOOLEAN
        /\ "guard" \in Stages \ {"none", "put", "ended"}
    BY <1>1, RecordFields DEF Stages
  <2> QED BY <1>1, <2>1, <2>4, <2>5, OnwardKeeps DEF Handshake
<1>3. CASE Answer(r, "unauthorized")
  <2>1. "unauthorized" \in Answers \ {"none", "tooMany"}
    BY DEF Answers
  <2> QED BY <1>1, <1>3, <2>1, AnswerKeeps DEF Handshake
<1> QED BY <1>2, <1>3 DEF Handshake

LEMMA GuardKeeps ==
  ASSUME IInv, NEW r \in Requests, Guard(r) \/ GuardFails(r)
  PROVE  IInv'
<1>1. request[r] \in RequestRecord /\ request[r].stage = "guard" /\ OnRoute(r)
      /\ request \in [Requests -> RequestRecord]
  BY RequestType DEF IInv, Sound, Guard, GuardFails
<1>2. {"unauthorized", "dropped", "error"} \subseteq Answers \ {"none", "tooMany"}
  BY DEF Answers
<1>3. CASE Guard(r) /\ Session(r) = None /\ request[r].route # "message"
  BY <1>1, <1>2, <1>3, AnswerKeeps DEF Guard
<1>4. CASE Guard(r) /\ ~(Session(r) = None /\ request[r].route # "message")
  <2> DEFINE stage == AfterGuard(request[r].route)
             session == Session(r)
  <2>1. request' = [request EXCEPT ![r].session = session, ![r].stage = stage]
    BY <1>4 DEF Guard
  <2>2. request' = [request EXCEPT ![r].stage = stage,
          ![r].greeted = request[r].greeted, ![r].session = session]
    BY <1>1, <2>1 DEF RequestRecord
  <2>3. request'[r] = [request[r] EXCEPT !.stage = stage, !.session = session]
    BY <1>1, <2>1
  <2>4. /\ request'[r].stage = stage /\ request'[r].session = session
        /\ request'[r].greeted = request[r].greeted
        /\ request'[r].route = request[r].route /\ request'[r].client = request[r].client
        /\ request'[r].answer = request[r].answer
    BY <1>1, <2>3 DEF RequestRecord
  <2>5. /\ request[r].route \in Guarded /\ request[r].client \in Clients
        /\ request[r].route = "message" => request[r].greeted
    BY <1>1 DEF OnRoute
  <2>6. \/ request[r].route = "upload" /\ stage = "receive"
        \/ request[r].route = "users" /\ stage = "pipe"
        \/ request[r].route = "message" /\ stage = "handle"
    BY <2>5 DEF Guarded, AfterGuard
  <2>7. \/ session = request[r].client
        \/ request[r].route = "message" /\ request[r].client \notin live
    BY <1>4 DEF Session
  <2>8. live' = live
    BY <1>4 DEF Guard
  <2>9. session \in Clients \union {None}
    BY <2>5 DEF Session
  <2> HIDE DEF stage, session
  <2>10. OnRoute(r)'
    BY <1>1, <2>4, <2>5, <2>6 DEF OnRoute
  <2>11. Owned(r)'
    BY <2>4, <2>5, <2>7, <2>8 DEF Owned
  <2>12. stage \in Stages \ {"none", "put", "ended"} /\ request[r].greeted \in BOOLEAN
    BY <1>1, <2>6, RecordFields DEF Stages
  <2> QED BY <1>1, <1>4, <2>2, <2>9, <2>10, <2>11, <2>12, OnwardKeeps DEF Guard
<1>5. CASE GuardFails(r)
  <2> DEFINE a == IF request[r].route = "message" THEN "dropped" ELSE "error"
  <2>1. a \in Answers \ {"none", "tooMany"} /\ Answer(r, a) /\ a # "ok"
    BY <1>2, <1>5 DEF GuardFails
  <2> HIDE DEF a
  <2> QED BY <1>1, <1>5, <2>1, AnswerKeeps DEF GuardFails
<1> QED BY <1>3, <1>4, <1>5

LEMMA PipeKeeps ==
  ASSUME IInv, NEW r \in Requests, Pipe(r) \/ Handle(r)
  PROVE  IInv'
<1>1. CASE Pipe(r)
  <2>1. To(r, "handle") \/ Answer(r, "unprocessable")
    BY <1>1 DEF Pipe
  <2>2. request[r].stage = "pipe" /\ request[r].route = "users"
    BY <1>1 DEF IInv, Sound, OnRoute, Pipe
  <2>3. "unprocessable" \in Answers \ {"none", "tooMany"}
    BY DEF Answers
  <2> QED BY <1>1, <2>1, <2>2, <2>3, ToKeeps, AnswerKeeps DEF Pipe
<1>2. CASE Handle(r)
  <2>1. PICK a \in {"ok", "error"} : Answer(r, a)
    BY <1>2 DEF Handle
  <2>2. a \in Answers \ {"none", "tooMany"}
    BY DEF Answers
  <2> QED BY <1>2, <2>1, <2>2, AnswerKeeps DEF Handle
<1> QED BY <1>1, <1>2

-------------------------------------------------------------------------------
(* Uploads.                                                                  *)

LEMMA ReceiveKeeps == ASSUME IInv, NEW r \in Requests, Receive(r) PROVE IInv'
<1>1. /\ request[r] \in RequestRecord /\ request \in [Requests -> RequestRecord]
      /\ request[r].stage = "receive" /\ UNCHANGED <<config, live, window>>
      /\ Sound(r)
  BY RequestType DEF IInv, Receive
<1>2. /\ request[r].route = "upload" /\ request[r].session = request[r].client
      /\ request[r].answer = "none" /\ request[r].client \in Clients
      /\ request[r].pending = {}
  BY <1>1 DEF Sound, OnRoute, Owned, Waiting, Guarded
<1>3. Unfiled \union {"tooLarge"} \subseteq Answers \ {"none", "tooMany", "ok"}
  BY DEF Unfiled, Answers
<1> DEFINE files == request[r].files
<1>4. files \subseteq Files
  BY <1>1, RecordFields
<1>5. store \subseteq Requests \X Files
  BY DEF IInv, TypeOK
<1>6. CASE store' = store /\ \E a \in Unfiled \union {"tooLarge"} : Answer(r, a)
  BY <1>1, <1>3, <1>6, AnswerKeeps
<1>7. CASE store' = store \union ({r} \X files) /\ Answer(r, "ok")
  <2>1. request'[r] = [request[r] EXCEPT !.stage = "ended", !.answer = "ok"]
    BY <1>1, <1>7 DEF Answer
  <2>2. /\ request'[r].stage = "ended" /\ request'[r].answer = "ok"
        /\ request'[r].route = request[r].route /\ request'[r].client = request[r].client
        /\ request'[r].proxied = request[r].proxied
        /\ request'[r].header = request[r].header
        /\ request'[r].leftmost = request[r].leftmost
        /\ request'[r].before = request[r].before
        /\ request'[r].session = request[r].session
        /\ request'[r].pending = request[r].pending
        /\ request'[r].files = files
        /\ request'[r] \in RequestRecord
    BY <1>1, <2>1 DEF RequestRecord, Stages, Answers
  <2>3. OthersSame(r) /\ request' \in [Requests -> RequestRecord]
    BY <1>1, <1>7, <2>2 DEF OthersSame, Answer
  <2>4. \A f : <<r, f>> \in store' <=> <<r, f>> \in store \/ f \in files
    BY <1>7
  <2>5. OnRoute(r)' /\ Owned(r)' /\ Waiting(r)'
    BY <1>1, <1>2, <2>2 DEF OnRoute, Owned, Waiting
  <2>6. Stored(r)'
    BY <1>1, <1>2, <2>2, <2>4 DEF Sound, Stored
  <2>7. store' \subseteq Requests \X Files /\ \A s \in store' \ store : s[1] = r
    BY <1>4, <1>5, <1>7
  <2> QED
    BY <1>1, <1>2, <1>7, <2>2, <2>3, <2>5, <2>6, <2>7, Moves DEF Sound
<1>8. CASE /\ files # {} /\ store' = store
           /\ request' = [request EXCEPT ![r].stage = "put", ![r].pending = files]
  <2>1. request'[r] = [request[r] EXCEPT !.stage = "put", !.pending = files]
    BY <1>1, <1>8
  <2>2. /\ request'[r].stage = "put" /\ request'[r].answer = "none"
        /\ request'[r].route = request[r].route /\ request'[r].client = request[r].client
        /\ request'[r].proxied = request[r].proxied
        /\ request'[r].header = request[r].header
        /\ request'[r].leftmost = request[r].leftmost
        /\ request'[r].before = request[r].before
        /\ request'[r].session = request[r].session
        /\ request'[r].pending = files /\ request'[r].files = files
        /\ request'[r] \in RequestRecord
    BY <1>1, <1>2, <1>4, <2>1 DEF RequestRecord, Stages
  <2>3. OthersSame(r) /\ request' \in [Requests -> RequestRecord]
    BY <1>1, <1>8, <2>2 DEF OthersSame
  <2>4. OnRoute(r)' /\ Owned(r)' /\ Waiting(r)'
    BY <1>1, <1>2, <1>8, <2>2 DEF OnRoute, Owned, Waiting
  <2>5. Stored(r)'
    BY <1>1, <1>2, <1>8, <2>2 DEF Sound, Stored
  <2> QED
    BY <1>1, <1>2, <1>5, <1>8, <2>2, <2>3, <2>4, <2>5, Moves DEF Sound
<1> QED BY <1>6, <1>7, <1>8 DEF Receive

LEMMA PutKeeps ==
  ASSUME IInv, NEW r \in Requests, NEW f \in Files, Put(r, f)
  PROVE  IInv'
<1>1. /\ request[r] \in RequestRecord /\ request \in [Requests -> RequestRecord]
      /\ Sound(r) /\ store \subseteq Requests \X Files
  BY RequestType DEF IInv, TypeOK
<1>2. /\ f \in request[r].pending /\ store' = store \union {<<r, f>>}
      /\ UNCHANGED <<config, live, window>>
  BY DEF Put
<1>3. /\ request[r].route = "upload" /\ request[r].session = request[r].client
      /\ request[r].pending \subseteq request[r].files
      /\ \/ request[r].stage = "put" /\ request[r].answer = "none"
         \/ request[r].stage = "ended" /\ request[r].answer = "error"
              /\ request[r].failed # {}
  BY <1>1, <1>2 DEF Sound, Waiting, OnRoute
<1> DEFINE answers == request[r].stage = "put" /\ request[r].pending = {f}
           stage == IF answers THEN "ended" ELSE request[r].stage
           answer == IF answers THEN "ok" ELSE request[r].answer
           left == request[r].pending \ {f}
<1>4. request' = [request EXCEPT ![r].pending = left, ![r].stage = stage,
                                 ![r].answer = answer]
  BY <1>1 DEF Put, RequestRecord
<1>5. /\ stage \in Stages /\ answer \in Answers /\ left \subseteq Files
      /\ request[r].client \in Clients
  BY <1>1, <1>3, RecordFields DEF Stages, Answers, Sound, OnRoute
<1>6. /\ stage = "put" => answer = "none" /\ left # {}
      /\ \/ stage = "put"
         \/ stage = "ended" /\ answer = "ok" /\ left = {}
         \/ stage = "ended" /\ answer = "error" /\ request[r].failed # {}
  BY <1>2, <1>3
<1>7. request[r].stage = "put" \/ answer = "error"
  BY <1>3
<1> HIDE DEF answers, stage, answer, left
<1>8. request'[r] = [request[r] EXCEPT !.pending = left, !.stage = stage,
                                       !.answer = answer]
  BY <1>1, <1>4
<1>9. /\ request'[r].stage = stage /\ request'[r].answer = answer
      /\ request'[r].pending = left
      /\ request'[r].route = request[r].route /\ request'[r].client = request[r].client
      /\ request'[r].proxied = request[r].proxied
      /\ request'[r].header = request[r].header
      /\ request'[r].leftmost = request[r].leftmost
      /\ request'[r].before = request[r].before
      /\ request'[r].session = request[r].session
      /\ request'[r].files = request[r].files
      /\ request'[r].failed = request[r].failed
      /\ request'[r] \in RequestRecord
  BY <1>1, <1>5, <1>8 DEF RequestRecord
<1>10. OthersSame(r) /\ request' \in [Requests -> RequestRecord]
  BY <1>1, <1>4, <1>9 DEF OthersSame
<1>11. \A g : <<r, g>> \in store' <=> <<r, g>> \in store \/ g = f
  BY <1>2
<1>12. OnRoute(r)' /\ Owned(r)'
  BY <1>3, <1>5, <1>6, <1>9 DEF OnRoute, Owned
<1>13. request[r].stage = "put" =>
         \A g \in request[r].files \ left : <<r, g>> \in store'
  BY <1>1, <1>2, <1>11 DEF Sound, Waiting, left
<1>14. left \subseteq request[r].pending
  BY DEF left
<1>15. Waiting(r)'
  BY <1>3, <1>6, <1>7, <1>9, <1>13, <1>14 DEF Waiting
<1>16. Stored(r)'
  BY <1>1, <1>2, <1>3, <1>6, <1>7, <1>9, <1>11, <1>13 DEF Sound, Stored
<1>17. store' \subseteq Requests \X Files /\ \A s \in store' \ store : s[1] = r
  BY <1>1, <1>2
<1>18. request'[r].answer # "tooMany" /\ request[r].answer # "tooMany"
       /\ request[r].stage # "none" /\ request'[r].stage # "none"
  BY <1>3, <1>6, <1>9
<1> QED
  BY <1>1, <1>2, <1>9, <1>10, <1>12, <1>15, <1>16, <1>17, <1>18, Moves DEF Sound

LEMMA PutFailsKeeps ==
  ASSUME IInv, NEW r \in Requests, NEW f \in Files, PutFails(r, f)
  PROVE  IInv'
<1>1. /\ request[r] \in RequestRecord /\ request \in [Requests -> RequestRecord]
      /\ Sound(r) /\ store \subseteq Requests \X Files
  BY RequestType DEF IInv, TypeOK
<1>2. f \in request[r].pending /\ UNCHANGED <<config, live, window, store>>
  BY DEF PutFails
<1>3. /\ request[r].route = "upload" /\ request[r].session = request[r].client
      /\ request[r].pending \subseteq request[r].files
      /\ \/ request[r].stage = "put" /\ request[r].answer = "none"
         \/ request[r].stage = "ended" /\ request[r].answer = "error"
  BY <1>1, <1>2 DEF Sound, Waiting, OnRoute
<1>4. request' = [request EXCEPT ![r] = [request[r] EXCEPT
        !.pending = request[r].pending \ {f}, !.failed = request[r].failed \union {f},
        !.stage = "ended", !.answer = "error"]]
  BY <1>1, <1>3 DEF PutFails, RequestRecord
<1>5. request'[r] = [request[r] EXCEPT
        !.pending = request[r].pending \ {f}, !.failed = request[r].failed \union {f},
        !.stage = "ended", !.answer = "error"]
  BY <1>1, <1>4
<1>6. /\ request'[r].stage = "ended" /\ request'[r].answer = "error"
      /\ request'[r].pending = request[r].pending \ {f}
      /\ request'[r].failed = request[r].failed \union {f}
      /\ request'[r].route = request[r].route /\ request'[r].client = request[r].client
      /\ request'[r].proxied = request[r].proxied
      /\ request'[r].header = request[r].header
      /\ request'[r].leftmost = request[r].leftmost
      /\ request'[r].before = request[r].before
      /\ request'[r].session = request[r].session
      /\ request'[r].files = request[r].files
  BY <1>1, <1>5 DEF RequestRecord
<1>7. request'[r] \in RequestRecord
  <2>1. /\ request[r].pending \ {f} \subseteq Files
        /\ request[r].failed \union {f} \subseteq Files
        /\ "ended" \in Stages /\ "error" \in Answers
    BY <1>1, RecordFields DEF Stages, Answers
  <2> QED BY <1>1, <1>5, <2>1 DEF RequestRecord
<1>8. OthersSame(r) /\ request' \in [Requests -> RequestRecord]
  BY <1>1, <1>4, <1>7 DEF OthersSame
<1>9. OnRoute(r)' /\ Owned(r)' /\ Waiting(r)'
  BY <1>1, <1>3, <1>6 DEF Sound, OnRoute, Owned, Waiting
<1>10. Stored(r)'
  BY <1>1, <1>2, <1>3, <1>6 DEF Sound, Stored
<1> QED
  BY <1>1, <1>2, <1>3, <1>6, <1>8, <1>9, <1>10, Moves DEF Sound

-------------------------------------------------------------------------------
(* The other steps.                                                          *)

\* A request that is sent is new: nothing is stored or counted of it.
LEMMA SendKeeps == ASSUME IInv, NEW r \in Requests, Send(r) PROVE IInv'
<1>1. /\ request[r] \in RequestRecord /\ request \in [Requests -> RequestRecord]
      /\ request[r].stage = "none" /\ UNCHANGED <<config, live, window, store>>
      /\ Sound(r)
  BY RequestType DEF IInv, Send
<1>2. PICK k \in Offers[r] :
        request' = [request EXCEPT ![r] = [NoRequest EXCEPT
          !.stage = FirstStage(k.route), !.route = k.route, !.client = k.client,
          !.proxied = k.proxied, !.header = k.header, !.leftmost = k.leftmost,
            !.files = k.files]]
  BY DEF Send
<1>3. k \in Kinds
  BY OffersAssumption
<1>4. /\ k.route \in Routes /\ k.client \in Clients /\ k.proxied \in BOOLEAN
      /\ k.header \in {"none", "empty", "address"} /\ k.files \subseteq Files
      /\ k.leftmost \in Addresses \union {None}
  BY <1>3 DEF Kinds
<1>5. /\ FirstStage(k.route) \in {"throttle", "handshake", "hook"}
      /\ FirstStage(k.route) = "throttle" => k.route \in Throttled
      /\ FirstStage(k.route) = "handshake" => k.route = "message"
  BY DEF FirstStage
<1>6. request'[r] = [NoRequest EXCEPT
        !.stage = FirstStage(k.route), !.route = k.route, !.client = k.client,
        !.proxied = k.proxied, !.header = k.header, !.leftmost = k.leftmost,
            !.files = k.files]
  BY <1>1, <1>2
<1>7. /\ request'[r].stage = FirstStage(k.route) /\ request'[r].route = k.route
      /\ request'[r].client = k.client /\ request'[r].answer = "none"
      /\ request'[r].pending = {}
  BY <1>6 DEF NoRequest
<1>8. request'[r] \in RequestRecord
  BY <1>4, <1>5, <1>6 DEF NoRequest, RequestRecord, Stages, Answers
<1>9. OthersSame(r) /\ request' \in [Requests -> RequestRecord]
  BY <1>1, <1>2, <1>8 DEF OthersSame
<1>10. TypeOK'
  BY <1>1, <1>9 DEF IInv, TypeOK, RequestRecord
<1>11. OnRoute(r)' /\ Owned(r)' /\ Waiting(r)'
  BY <1>4, <1>5, <1>7 DEF OnRoute, Owned, Waiting
<1>12. Stored(r)'
  BY <1>1, <1>7 DEF Sound, Stored
<1>13. \A q \in Requests : Sound(q)'
  BY <1>1, <1>9, <1>11, <1>12, OthersSound DEF IInv, Sound
<1>14. request[r].answer = "none"
  BY <1>1 DEF Sound, OnRoute
<1>15. \A q \in Requests : request[q].stage # "none" =>
         /\ request'[q].stage # "none" /\ request'[q].route = request[q].route
         /\ Tracker(q)' = Tracker(q) /\ request'[q].before = request[q].before
  BY <1>1, <1>9, SameTracker DEF OthersSame
<1>16. \A q \in Requests :
         request'[q].answer = "tooMany" <=> request[q].answer = "tooMany"
  BY <1>7, <1>9, <1>14 DEF OthersSame
<1>17. CountedThere' /\ FewThrough' /\ \A q \in Requests : RefusedFor(q)'
  BY <1>1, <1>10, <1>15, <1>16, CountsStand
<1> QED BY <1>10, <1>13, <1>17 DEF IInv

LEMMA EndSessionKeeps == ASSUME IInv, NEW c \in Clients, EndSession(c) PROVE IInv'
<1>1. live' \subseteq live /\ UNCHANGED <<config, request, window, store>>
  BY DEF EndSession
<1>2. TypeOK'
  BY <1>1 DEF IInv, TypeOK
<1>3. \A r \in Requests : Sound(r)'
  BY <1>1 DEF IInv, Sound, OnRoute, Owned, Waiting, Stored
<1>4. CountedThere' /\ FewThrough' /\ \A r \in Requests : RefusedFor(r)'
  BY <1>1, <1>2, SameTracker, CountsStand
<1> QED BY <1>2, <1>3, <1>4 DEF IInv

LEMMA ExpireKeeps ==
  ASSUME IInv, NEW key \in Throttled \X Addresses, Expire(key)
  PROVE  IInv'
<1>1. /\ window' = [window EXCEPT ![key] = {}]
      /\ UNCHANGED <<config, live, request, store>>
  BY DEF Expire
<1>2. TypeOK'
  BY <1>1 DEF IInv, TypeOK
<1>3. \A r \in Requests : Sound(r)'
  BY <1>1 DEF IInv, Sound, OnRoute, Owned, Waiting, Stored
<1>4. \A other \in Throttled \X Addresses :
        /\ other # key => window'[other] = window[other]
        /\ window'[key] = {}
  BY <1>1 DEF IInv, TypeOK
<1>5. CountedThere'
  <2> SUFFICES ASSUME NEW other \in Throttled \X Addresses, NEW q \in window'[other]
               PROVE  /\ request[q].stage # "none"
                      /\ request[q].route = other[1] /\ Tracker(q) = other[2]
    BY <1>1, SameTracker DEF CountedThere
  <2> QED BY <1>4 DEF IInv, CountedThere
<1>6. ASSUME NEW other \in Throttled \X Addresses
      PROVE  Cardinality(Through(other)') <= Limit
  <2>1. CASE other = key
    <3>1. Through(other)' = {}
      BY <1>4, <2>1 DEF Through
    <3> QED BY <3>1, FS_EmptySet, RequestsAssumption
  <2>2. CASE other # key
    <3>1. Through(other)' = Through(other)
      BY <1>1, <1>4, <2>2 DEF Through
    <3> QED BY <3>1 DEF IInv, FewThrough
  <2> QED BY <2>1, <2>2
<1>7. \A r \in Requests : RefusedFor(r)'
  BY <1>1, SameTracker DEF IInv, RefusedFor
<1> QED BY <1>2, <1>3, <1>5, <1>6, <1>7 DEF IInv, FewThrough

\* A request is counted in one window, and in it let through or refused.
LEMMA ThrottleKeeps == ASSUME IInv, NEW r \in Requests, Throttle(r) PROVE IInv'
<1> DEFINE key == <<request[r].route, Tracker(r)>>
           full == Cardinality(window[key]) >= Limit
           stage == IF full THEN "ended"
                    ELSE IF request[r].route = "health" THEN "handle" ELSE "guard"
           answer == IF full THEN "tooMany" ELSE "none"
           before == IF full THEN window[key] ELSE {}
<1>1. /\ request[r] \in RequestRecord /\ request \in [Requests -> RequestRecord]
      /\ request[r].stage = "throttle" /\ UNCHANGED <<config, live, store>>
      /\ Sound(r)
  BY RequestType DEF IInv, Throttle
<1>2. /\ window' = [window EXCEPT ![key] = @ \union {r}]
      /\ request' = [request EXCEPT ![r].before = before, ![r].stage = stage,
                                    ![r].answer = answer]
  BY DEF Throttle
<1>3. /\ request[r].route \in Throttled /\ request[r].client \in Clients
      /\ request[r].answer = "none" /\ request[r].pending = {}
  BY <1>1 DEF Sound, OnRoute, Waiting
<1>4. key \in Throttled \X Addresses
  BY <1>1, <1>3, RecordFields DEF Tracker, Ip, Source, Addresses
<1>5. window[key] \subseteq Requests /\ IsFiniteSet(Through(key))
  BY <1>4, ThroughFinite DEF IInv
<1>6. \/ full /\ stage = "ended" /\ answer = "tooMany" /\ before = window[key]
      \/ ~full /\ stage \in {"handle", "guard"} /\ answer = "none" /\ before = {}
  OBVIOUS
<1>7. /\ stage = "guard" => request[r].route \in {"users", "upload"}
      /\ stage = "handle" => request[r].route = "health"
  BY <1>3 DEF Throttled
<1>8. key[1] = request[r].route /\ key[2] = Tracker(r)
  OBVIOUS
<1> HIDE DEF stage, answer, before
<1>9. request'[r] = [request[r] EXCEPT !.before = before, !.stage = stage,
                                       !.answer = answer]
  BY <1>1, <1>2
<1>10. /\ request'[r].stage = stage /\ request'[r].answer = answer
       /\ request'[r].before = before /\ request'[r].pending = {}
       /\ request'[r].route = request[r].route /\ request'[r].client = request[r].client
       /\ request'[r].proxied = request[r].proxied
       /\ request'[r].header = request[r].header
       /\ request'[r].leftmost = request[r].leftmost
  BY <1>1, <1>3, <1>9 DEF RequestRecord
<1>11. request'[r] \in RequestRecord
  <2>1. stage \in Stages /\ answer \in Answers /\ before \subseteq Requests
    BY <1>5, <1>6 DEF Stages, Answers
  <2> QED BY <1>1, <1>9, <2>1 DEF RequestRecord
<1>12. OthersSame(r) /\ request' \in [Requests -> RequestRecord]
  BY <1>1, <1>2, <1>11 DEF OthersSame
<1>13. window' \in [Throttled \X Addresses -> SUBSET Requests]
  BY <1>2, <1>4, <1>5 DEF IInv, TypeOK
<1>14. TypeOK'
  BY <1>1, <1>12, <1>13 DEF IInv, TypeOK, RequestRecord
<1>15. OnRoute(r)' /\ Owned(r)' /\ Waiting(r)'
  <2>1. stage \notin {"none", "throttle", "handshake", "receive", "put", "pipe"}
    BY <1>6
  <2>2. OnRoute(r)'
    BY <1>3, <1>6, <1>7, <1>10, <2>1 DEF OnRoute, Guarded
  <2>3. Owned(r)'
    BY <1>6, <1>7, <1>10, <2>1 DEF Owned, Guarded
  <2>4. Waiting(r)'
    BY <1>10, <2>1 DEF Waiting
  <2> QED BY <2>2, <2>3, <2>4
<1>16. Stored(r)'
  BY <1>1, <1>6, <1>10 DEF Sound, Stored
<1>17. \A q \in Requests : Sound(q)'
  BY <1>1, <1>12, <1>15, <1>16, OthersSound DEF IInv, Sound
<1>18. \A q \in Requests : request[q].stage # "none" =>
         /\ request'[q].stage # "none" /\ request'[q].route = request[q].route
         /\ Tracker(q)' = Tracker(q)
  BY <1>1, <1>6, <1>10, <1>12, SameTracker DEF OthersSame
<1>19. /\ window'[key] = window[key] \union {r}
       /\ \A other \in Throttled \X Addresses : other # key => window'[other] = window[other]
  BY <1>2, <1>4 DEF IInv, TypeOK
<1>20. CountedThere'
  <2> SUFFICES ASSUME NEW other \in Throttled \X Addresses, NEW q \in window'[other]
               PROVE  /\ request'[q].stage # "none"
                      /\ request'[q].route = other[1] /\ Tracker(q)' = other[2]
    BY DEF CountedThere
  <2>1. CASE q \in window[other]
    <3>1. q \in Requests /\ request[q].stage # "none" /\ request[q].route = other[1]
          /\ Tracker(q) = other[2]
      BY <2>1 DEF IInv, TypeOK, CountedThere
    <3> QED BY <1>18, <3>1
  <2>2. CASE q \notin window[other]
    <3>1. other = key /\ q = r
      BY <1>19, <2>2
    <3> QED BY <1>1, <1>8, <1>18, <3>1
  <2> QED BY <2>1, <2>2
<1>21. FewThrough'
  <2> SUFFICES ASSUME NEW other \in Throttled \X Addresses
               PROVE  Cardinality(Through(other)') <= Limit
    BY DEF FewThrough
  <2>1. Cardinality(Through(other)) <= Limit
    BY DEF IInv, FewThrough
  <2>2. /\ IsFiniteSet(Through(other)) /\ IsFiniteSet(window[other])
        /\ window[other] \subseteq Requests
    BY ThroughFinite DEF IInv
  <2>3. \A q \in window[other] :
          request'[q].answer # "tooMany" => request[q].answer # "tooMany"
    BY <1>3, <1>12, <2>2 DEF OthersSame
  <2>4. CASE other # key \/ full
    <3>1. Through(other)' \subseteq Through(other)
      BY <1>6, <1>10, <1>19, <2>3, <2>4 DEF Through
    <3>2. /\ Cardinality(Through(other)') <= Cardinality(Through(other))
          /\ Cardinality(Through(other)') \in Nat /\ Cardinality(Through(other)) \in Nat
      BY <2>2, <3>1, FS_Subset, FS_CardinalityType
    <3> QED BY <2>1, <3>2, RequestsAssumption
  <2>5. CASE other = key /\ ~full
    <3>1. Through(other)' \subseteq window[other] \union {r}
      BY <1>19, <2>5 DEF Through
    <3>2. /\ IsFiniteSet(window[other] \union {r})
          /\ Cardinality(window[other] \union {r}) <= Cardinality(window[other]) + 1
          /\ Cardinality(window[other]) \in Nat
      <4>1. Cardinality(window[other]) \in Nat
        BY <2>2, FS_CardinalityType
      <4>2. /\ IsFiniteSet(window[other] \union {r})
            /\ \/ Cardinality(window[other] \union {r}) = Cardinality(window[other])
               \/ Cardinality(window[other] \union {r}) = Cardinality(window[other]) + 1
        BY <2>2, FS_AddElement
      <4> QED BY <4>1, <4>2
    <3>3. /\ Cardinality(Through(other)') <= Cardinality(window[other] \union {r})
          /\ Cardinality(Through(other)') \in Nat
          /\ Cardinality(window[other] \union {r}) \in Nat
      BY <3>1, <3>2, FS_Subset, FS_CardinalityType
    <3>4. Cardinality(window[other]) < Limit
      BY <2>5, <3>2, RequestsAssumption
    <3> QED BY <3>2, <3>3, <3>4, RequestsAssumption
  <2> QED BY <2>4, <2>5
<1>22. ASSUME NEW q \in Requests, request'[q].answer = "tooMany"
       PROVE  RefusedFor(q)'
  <2>1. CASE q = r
    <3>1. full /\ before = window[key]
      BY <1>6, <1>10, <1>22, <2>1
    <3>2. \A p \in window[key] :
            /\ request[p].stage # "none" /\ p \in Requests
            /\ request[p].route = request[r].route /\ Tracker(p) = Tracker(r)
      BY <1>4, <1>5, <1>8 DEF IInv, CountedThere
    <3>3. Tracker(r)' = Tracker(r)
      BY <1>1, <1>18
    <3> QED BY <1>10, <1>18, <2>1, <3>1, <3>2, <3>3 DEF RefusedFor
  <2>2. CASE q # r
    <3>1. request'[q] = request[q] /\ request[q].stage # "none"
      BY <1>12, <1>22, <2>2 DEF OthersSame, IInv, Sound, OnRoute
    <3>2. request[q].before \subseteq Requests
      BY RequestType, RecordFields DEF IInv
    <3> QED BY <1>18, <1>22, <3>1, <3>2 DEF IInv, RefusedFor
  <2> QED BY <2>1, <2>2
<1> QED BY <1>14, <1>17, <1>20, <1>21, <1>22 DEF IInv, RefusedFor

LEMMA CrashKeeps == IInv /\ Crash => IInv'
<1> SUFFICES ASSUME IInv, Crash PROVE IInv'
  OBVIOUS
<1>1. request \in [Requests -> RequestRecord]
  BY RequestType DEF IInv
<1>2. UNCHANGED <<config, live, window, store>>
  BY DEF Crash
<1>3. ASSUME NEW r \in Requests
      PROVE  /\ request'[r] \in RequestRecord
             /\ request'[r].pending = {} /\ request'[r].before = request[r].before
             /\ request'[r].route = request[r].route
             /\ request'[r].client = request[r].client
             /\ request'[r].proxied = request[r].proxied
             /\ request'[r].header = request[r].header
             /\ request'[r].leftmost = request[r].leftmost
             /\ request'[r].session = request[r].session
             /\ request'[r].greeted = request[r].greeted
             /\ request'[r].failed = request[r].failed
             /\ request'[r].files = request[r].files
             /\ IF request[r].stage \in {"none", "ended"}
                THEN /\ request'[r].stage = request[r].stage
                     /\ request'[r].answer = request[r].answer
                ELSE request'[r].stage = "ended" /\ request'[r].answer = "lost"
  <2>1. CASE request[r].stage \in {"none", "ended"}
    <3>1. request'[r] = [request[r] EXCEPT !.pending = {}]
      BY <2>1 DEF Crash
    <3> QED BY <1>1, <2>1, <3>1 DEF RequestRecord
  <2>2. CASE request[r].stage \notin {"none", "ended"}
    <3>1. request'[r] = [request[r] EXCEPT !.pending = {}, !.stage = "ended",
                                           !.answer = "lost"]
      BY <2>2 DEF Crash
    <3>2. "ended" \in Stages /\ "lost" \in Answers
      BY DEF Stages, Answers
    <3>3. request'[r] \in RequestRecord
      BY <1>1, <3>1, <3>2 DEF RequestRecord
    <3> QED BY <1>1, <2>2, <3>1, <3>3 DEF RequestRecord
  <2> QED BY <2>1, <2>2
<1>4. request' \in [Requests -> RequestRecord]
  BY <1>3 DEF Crash
<1>5. TypeOK'
  BY <1>2, <1>4 DEF IInv, TypeOK, RequestRecord
<1>6. ASSUME NEW r \in Requests PROVE Sound(r)'
  <2>1. Sound(r)
    BY DEF IInv
  <2>2. OnRoute(r)' /\ Waiting(r)'
    BY <1>3, <2>1 DEF Sound, OnRoute, Waiting
  <2>3. Owned(r)'
    BY <1>2, <1>3, <2>1 DEF Sound, Owned
  <2>4. Stored(r)'
    BY <1>2, <1>3, <2>1 DEF Sound, Stored
  <2> QED BY <2>2, <2>3, <2>4 DEF Sound
<1>7. ASSUME NEW r \in Requests
      PROVE  /\ request'[r].answer = "tooMany" <=> request[r].answer = "tooMany"
             /\ request[r].stage # "none" => request'[r].stage # "none"
             /\ Tracker(r)' = Tracker(r)
  BY <1>2, <1>3, SameTracker DEF IInv, Sound, OnRoute
<1>8. CountedThere' /\ FewThrough' /\ \A r \in Requests : RefusedFor(r)'
  BY <1>2, <1>3, <1>5, <1>7, CountsStand
<1> QED BY <1>5, <1>6, <1>8 DEF IInv

\* The state that a stuttering step leaves.
LEMMA StutterKeeps == IInv /\ UNCHANGED vars => IInv'
<1> SUFFICES ASSUME IInv, UNCHANGED vars PROVE IInv'
  OBVIOUS
<1>1. UNCHANGED <<config, live, request, window, store>>
  BY DEF vars
<1>2. TypeOK'
  BY <1>1 DEF IInv, TypeOK
<1>3. \A r \in Requests : Sound(r)'
  BY <1>1 DEF IInv, Sound, OnRoute, Owned, Waiting, Stored
<1>4. CountedThere' /\ FewThrough' /\ \A r \in Requests : RefusedFor(r)'
  BY <1>1, <1>2, SameTracker, CountsStand
<1> QED BY <1>2, <1>3, <1>4 DEF IInv

LEMMA NextIInv == IInv /\ [Next]_vars => IInv'
<1> SUFFICES ASSUME IInv, [Next]_vars PROVE IInv'
  OBVIOUS
<1>1. ASSUME NEW r \in Requests, Serve(r) PROVE IInv'
  BY <1>1, HookKeeps, ThrottleKeeps, HandshakeKeeps, GuardKeeps, ReceiveKeeps,
     PutKeeps, PutFailsKeeps, PipeKeeps DEF Serve
<1>2. ASSUME NEW r \in Requests, Send(r) PROVE IInv'
  BY <1>2, SendKeeps
<1>3. ASSUME NEW c \in Clients, EndSession(c) PROVE IInv'
  BY <1>3, EndSessionKeeps
<1>4. ASSUME NEW key \in Throttled \X Addresses, Expire(key) PROVE IInv'
  BY <1>4, ExpireKeeps
<1>5. CASE Crash
  BY <1>5, CrashKeeps
<1>6. CASE UNCHANGED vars
  BY <1>6, StutterKeeps
<1> QED BY <1>1, <1>2, <1>3, <1>4, <1>5, <1>6 DEF Next

LEMMA Invariance == Spec => []IInv
BY InitIInv, NextIInv, PTL DEF Spec

-------------------------------------------------------------------------------
(* The theorems.                                                             *)

\* The variables keep their types.
THEOREM TypeCorrect == Spec => []TypeOK
<1>1. IInv => TypeOK
  BY DEF IInv
<1> QED BY Invariance, <1>1, PTL

\* No guarded handler runs but for the client whose session AuthGuard found; the
\* message of a websocket whose session has ended since its handshake excepted.
THEOREM OwnerTheorem == Spec => []ServedHasOwner
<1>1. IInv => ServedHasOwner
  BY DEF IInv, Sound, Owned, ServedHasOwner
<1> QED BY Invariance, <1>1, PTL

\* Who claims no address is counted at the one the request comes from.
LEMMA TrackerIsSource ==
  ASSUME NEW r, ~Claims(r)
  PROVE  Tracker(r) = Source(r)
BY DEF Claims, Tracker, Ip, Source

\* The throttler refuses only after Limit requests of the same origin, and lets
\* at most Limit requests of a direct client through in a window, whatever
\* address they forward; requests that claim an address beside an empty header
\* are excepted, and what they use up of the address that they claim.
THEOREM RateTheorem == Spec => []RateIsKept
<1>1. ASSUME IInv, NEW r \in Requests, request[r].answer = "tooMany"
      PROVE  /\ Cardinality(request[r].before) >= Limit
             /\ \A q \in request[r].before :
                  /\ request[q].route = request[r].route
                  /\ \/ Claims(q) \/ Claims(r)
                     \/ /\ request[q].proxied = request[r].proxied
                        /\ request[r].proxied \/ request[q].client = request[r].client
  <2>1. Cardinality(request[r].before) >= Limit
    BY <1>1 DEF IInv, RefusedFor
  <2>2. ASSUME NEW q \in request[r].before PROVE request[q].route = request[r].route
    BY <1>1 DEF IInv, RefusedFor
  <2>3. ASSUME NEW q \in request[r].before, ~Claims(q), ~Claims(r)
        PROVE  /\ request[q].proxied = request[r].proxied
               /\ request[r].proxied \/ request[q].client = request[r].client
    <3>1. /\ request[q].stage # "none" /\ request[r].stage # "none"
          /\ Tracker(q) = Tracker(r)
      BY <1>1 DEF IInv, RefusedFor, Sound, OnRoute
    <3>2. Source(q) = Source(r)
      BY <2>3, <3>1, TrackerIsSource
    <3>3. q \in Requests /\ request[q] \in RequestRecord /\ request[r] \in RequestRecord
      BY <1>1, RequestType, RecordFields DEF IInv
    <3>4. /\ request[q].client \in Clients /\ request[r].client \in Clients
          /\ request[q].proxied \in BOOLEAN /\ request[r].proxied \in BOOLEAN
      BY <1>1, <3>1, <3>3, RecordFields DEF IInv, Sound, OnRoute
    <3> QED BY <3>2, <3>4, RequestsAssumption DEF Source
  <2> QED BY <2>1, <2>2, <2>3
<1>2. ASSUME IInv, NEW route \in Throttled, NEW c \in Clients
      PROVE  Cardinality({r \in UNION {window[<<route, a>>] : a \in Addresses} :
               request[r].client = c /\ ~request[r].proxied /\ ~Claims(r)
                 /\ request[r].answer # "tooMany"}) <= Limit
  <2> DEFINE direct == {r \in UNION {window[<<route, a>>] : a \in Addresses} :
               request[r].client = c /\ ~request[r].proxied /\ ~Claims(r)
                 /\ request[r].answer # "tooMany"}
             key == <<route, c>>
  <2>1. key \in Throttled \X Addresses
    BY DEF Addresses
  <2>2. direct \subseteq Through(key)
    <3> SUFFICES ASSUME NEW r \in direct PROVE r \in Through(key)
      OBVIOUS
    <3>1. PICK a \in Addresses : r \in window[<<route, a>>]
      OBVIOUS
    <3>2. <<route, a>> \in Throttled \X Addresses
      OBVIOUS
    <3>3. Tracker(r) = a
      BY <1>2, <3>1, <3>2 DEF IInv, CountedThere
    <3>4. Tracker(r) = Source(r)
      BY TrackerIsSource
    <3>5. a = c
      BY <3>3, <3>4 DEF Source
    <3> QED BY <3>1, <3>5 DEF Through
  <2>3. Cardinality(Through(key)) <= Limit
    BY <1>2, <2>1 DEF IInv, FewThrough
  <2>4. IsFiniteSet(Through(key))
    BY <1>2, <2>1, ThroughFinite DEF IInv
  <2> HIDE DEF direct, key
  <2>5. /\ Cardinality(direct) <= Cardinality(Through(key))
        /\ Cardinality(direct) \in Nat /\ Cardinality(Through(key)) \in Nat
    BY <2>2, <2>4, FS_Subset, FS_CardinalityType
  <2>6. Cardinality(direct) <= Limit
    BY <2>3, <2>5, RequestsAssumption
  <2> QED BY <2>6 DEF direct
<1>3. IInv => RateIsKept
  BY <1>1, <1>2 DEF RateIsKept
<1> QED BY Invariance, <1>3, PTL

\* What is stored belongs to an upload that was let through and that is still
\* waiting, answered with success, failed in another file, or lost; and success
\* is answered only for an upload that is stored as a whole.
THEOREM StoredTheorem == Spec => []StoredIsAccounted
<1>1. ASSUME IInv, NEW s \in store
      PROVE  /\ request[s[1]].route = "upload"
             /\ request[s[1]].session = request[s[1]].client
             /\ s[2] \in request[s[1]].files
             /\ \/ request[s[1]].stage = "put" \/ request[s[1]].answer \in {"ok", "lost"}
                \/ request[s[1]].answer = "error" /\ request[s[1]].failed # {}
  <2>1. s[1] \in Requests /\ s[2] \in Files /\ s = <<s[1], s[2]>>
    BY <1>1 DEF IInv, TypeOK
  <2>2. Stored(s[1])
    BY <1>1, <2>1 DEF IInv, Sound
  <2> QED BY <2>1, <2>2 DEF Stored
<1>2. ASSUME IInv, NEW r \in Requests,
             request[r].route = "upload", request[r].answer = "ok"
      PROVE  {r} \X request[r].files \subseteq store
  BY <1>2 DEF IInv, Sound, Stored
<1>3. IInv => StoredIsAccounted
  BY <1>1, <1>2 DEF StoredIsAccounted
<1> QED BY Invariance, <1>3, PTL

-------------------------------------------------------------------------------
(* Every request goes forward to one answer.                                   *)

\* How many stages a request still has before it, at most.
Ahead(stage) ==
  CASE stage = "none" -> 5
    [] stage \in {"hook", "handshake", "throttle"} -> 4
    [] stage = "guard" -> 3
    [] stage \in {"receive", "pipe"} -> 2
    [] stage \in {"handle", "put"} -> 1
    [] stage = "ended" -> 0

\* From x to y a request comes to a later stage, or one of its puts is over and
\* its answer stands.
Forward(x, y) ==
  \/ Ahead(y.stage) < Ahead(x.stage)
  \/ /\ y.stage = x.stage /\ y.answer = x.answer
     /\ y.pending \subseteq x.pending /\ y.pending # x.pending

\* A request only goes forward, whatever happens to the others, to its session,
\* to the windows and to the process; in particular an answer is given once,
\* though the puts of a failed upload go on after it.
GoesForward ==
  [][\A r \in Requests :
       request'[r] = request[r] \/ Forward(request[r], request'[r])]_vars

LEMMA StagesAhead ==
  /\ Ahead("none") = 5 /\ Ahead("hook") = 4 /\ Ahead("handshake") = 4
  /\ Ahead("throttle") = 4 /\ Ahead("guard") = 3 /\ Ahead("receive") = 2
  /\ Ahead("pipe") = 2 /\ Ahead("handle") = 1 /\ Ahead("put") = 1
  /\ Ahead("ended") = 0
BY DEF Ahead

\* A step of one request leaves the others as they are.
LEMMA OthersStay ==
  ASSUME TypeOK, NEW r \in Requests, Send(r) \/ Serve(r),
         NEW q \in Requests, q # r
  PROVE  request'[q] = request[q]
BY DEF TypeOK, Send, Serve, BasicAuth, AuthProxy, Throttle, ThrottleFails, Handshake,
       Guard, GuardFails, Receive, Put, PutFails, Pipe, Handle, To, Answer

\* To the next stage, or to the answer.
LEMMA StepForward ==
  ASSUME IInv, NEW r \in Requests,
         \/ Send(r) \/ BasicAuth(r) \/ AuthProxy(r) \/ Throttle(r) \/ ThrottleFails(r)
         \/ Handshake(r) \/ Guard(r) \/ GuardFails(r) \/ Receive(r) \/ Pipe(r)
         \/ Handle(r)
  PROVE  Ahead(request'[r].stage) < Ahead(request[r].stage)
<1>1. request \in [Requests -> RequestRecord]
  BY RequestType DEF IInv
<1>2. CASE Send(r)
  <2>1. PICK k \in Offers[r] :
          request' = [request EXCEPT ![r] = [NoRequest EXCEPT
            !.stage = FirstStage(k.route), !.route = k.route, !.client = k.client,
            !.proxied = k.proxied, !.header = k.header, !.leftmost = k.leftmost,
            !.files = k.files]]
    BY <1>2 DEF Send
  <2>2. request'[r] = [NoRequest EXCEPT
            !.stage = FirstStage(k.route), !.route = k.route, !.client = k.client,
            !.proxied = k.proxied, !.header = k.header, !.leftmost = k.leftmost,
            !.files = k.files]
    BY <1>1, <2>1
  <2>3. request'[r].stage = FirstStage(k.route)
    BY <2>2 DEF NoRequest
  <2>4. FirstStage(k.route) \in {"throttle", "handshake", "hook"}
    BY DEF FirstStage
  <2>5. request[r].stage = "none"
    BY <1>2 DEF Send
  <2> QED BY <2>3, <2>4, <2>5, StagesAhead
<1>3. CASE BasicAuth(r) \/ AuthProxy(r)
  BY <1>1, <1>3, StagesAhead DEF BasicAuth, AuthProxy, Answer, RequestRecord
<1>4. CASE Throttle(r)
  <2>1. request'[r].stage \in {"ended", "handle", "guard"} /\ request[r].stage = "throttle"
    BY <1>1, <1>4 DEF Throttle, RequestRecord
  <2> QED BY <2>1, StagesAhead
<1>5. CASE ThrottleFails(r)
  BY <1>1, <1>5, StagesAhead DEF ThrottleFails, Answer, RequestRecord
<1>6. CASE Handshake(r)
  BY <1>1, <1>6, StagesAhead DEF Handshake, Answer, RequestRecord
<1>7. CASE Guard(r)
  <2>1. /\ request'[r].stage \in {"ended", "receive", "pipe", "handle"}
        /\ request[r].stage = "guard"
    BY <1>1, <1>7 DEF Guard, AfterGuard, Answer, RequestRecord
  <2> QED BY <2>1, StagesAhead
<1>8. CASE GuardFails(r)
  BY <1>1, <1>8, StagesAhead DEF GuardFails, Answer, RequestRecord
<1>9. CASE Receive(r)
  <2>1. request'[r].stage \in {"ended", "put"} /\ request[r].stage = "receive"
    BY <1>1, <1>9 DEF Receive, Answer, RequestRecord
  <2> QED BY <2>1, StagesAhead
<1>10. CASE Pipe(r)
  <2>1. request'[r].stage \in {"ended", "handle"} /\ request[r].stage = "pipe"
    BY <1>1, <1>10 DEF Pipe, To, Answer, RequestRecord
  <2> QED BY <2>1, StagesAhead
<1>11. CASE Handle(r)
  BY <1>1, <1>11, StagesAhead DEF Handle, Answer, RequestRecord
<1> QED BY <1>2, <1>3, <1>4, <1>5, <1>6, <1>7, <1>8, <1>9, <1>10, <1>11

\* A put that is over answers its upload, or is one less to wait for.
LEMMA PutForward ==
  ASSUME IInv, NEW r \in Requests, NEW f \in Files, Put(r, f) \/ PutFails(r, f)
  PROVE  Forward(request[r], request'[r])
<1>1. request \in [Requests -> RequestRecord]
  BY RequestType DEF IInv
<1>2. f \in request[r].pending /\ request[r].stage \in {"put", "ended"}
  BY DEF Put, PutFails, IInv, Sound, Waiting
<1>3. CASE Put(r, f)
  <2> DEFINE answers == request[r].stage = "put" /\ request[r].pending = {f}
             stage == IF answers THEN "ended" ELSE request[r].stage
             answer == IF answers THEN "ok" ELSE request[r].answer
             left == request[r].pending \ {f}
  <2>1. request' = [request EXCEPT ![r].pending = left, ![r].stage = stage,
                                   ![r].answer = answer]
    BY <1>1, <1>3 DEF Put, RequestRecord
  <2> HIDE DEF answers, stage, answer, left
  <2>2. /\ request'[r].pending = left /\ request'[r].stage = stage
        /\ request'[r].answer = answer
    BY <1>1, <2>1 DEF RequestRecord
  <2>3. left \subseteq request[r].pending /\ left # request[r].pending
    BY <1>2 DEF left
  <2>4. CASE answers
    BY <2>2, <2>4, StagesAhead DEF Forward, answers, stage
  <2>5. CASE ~answers
    BY <2>2, <2>3, <2>5 DEF Forward, stage, answer
  <2> QED BY <2>4, <2>5
<1>4. CASE PutFails(r, f)
  <2> DEFINE answer == IF request[r].stage = "put" THEN "error" ELSE request[r].answer
             left == request[r].pending \ {f}
             missing == request[r].failed \union {f}
  <2>1. request' = [request EXCEPT ![r].pending = left, ![r].failed = missing,
                                   ![r].stage = "ended", ![r].answer = answer]
    BY <1>1, <1>4 DEF PutFails, RequestRecord
  <2> HIDE DEF answer, left, missing
  <2>2. /\ request'[r].pending = left /\ request'[r].stage = "ended"
        /\ request'[r].answer = answer
    BY <1>1, <2>1 DEF RequestRecord
  <2>3. left \subseteq request[r].pending /\ left # request[r].pending
    BY <1>2 DEF left
  <2>4. CASE request[r].stage = "put"
    BY <2>2, <2>4, StagesAhead DEF Forward
  <2>5. CASE request[r].stage = "ended"
    BY <2>2, <2>3, <2>5 DEF Forward, answer
  <2> QED BY <1>2, <2>4, <2>5
<1> QED BY <1>3, <1>4

\* The death of the process ends what is under way.
LEMMA CrashForward ==
  ASSUME IInv, Crash, NEW r \in Requests
  PROVE  request'[r] = request[r] \/ Forward(request[r], request'[r])
<1>1. request \in [Requests -> RequestRecord]
  BY RequestType DEF IInv
<1>2. CASE request[r].stage \in {"none", "ended"}
  <2>1. request'[r] = [request[r] EXCEPT !.pending = {}]
    BY <1>2 DEF Crash
  <2>2. CASE request[r].pending = {}
    BY <1>1, <2>1, <2>2 DEF RequestRecord
  <2>3. CASE request[r].pending # {}
    BY <1>1, <2>1, <2>3 DEF RequestRecord, Forward
  <2> QED BY <2>2, <2>3
<1>3. CASE request[r].stage \notin {"none", "ended"}
  <2>1. request'[r] =
          [request[r] EXCEPT !.pending = {}, !.stage = "ended", !.answer = "lost"]
    BY <1>3 DEF Crash
  <2>2. request'[r].stage = "ended"
    BY <1>1, <2>1 DEF RequestRecord
  <2>3. Ahead(request[r].stage) > 0
    BY <1>1, <1>3, StagesAhead DEF RequestRecord, Stages
  <2> QED BY <2>2, <2>3, StagesAhead DEF Forward
<1> QED BY <1>2, <1>3

\* No request is served twice or answered twice, and none goes round: it has at
\* most five stages before it and then its puts.
THEOREM ForwardTheorem == Spec => GoesForward
<1>1. ASSUME IInv, [Next]_vars, NEW r \in Requests
      PROVE  request'[r] = request[r] \/ Forward(request[r], request'[r])
  <2>1. ASSUME NEW q \in Requests, Send(q) \/ Serve(q)
        PROVE  request'[r] = request[r] \/ Forward(request[r], request'[r])
    <3>1. CASE q = r
      BY <1>1, <2>1, <3>1, StepForward, PutForward DEF Serve, Forward
    <3>2. CASE q # r
      BY <1>1, <2>1, <3>2, OthersStay DEF IInv
    <3> QED BY <3>1, <3>2
  <2>2. CASE Crash
    BY <1>1, <2>2, CrashForward
  <2>3. CASE \/ \E c \in Clients : EndSession(c)
             \/ \E key \in Throttled \X Addresses : Expire(key)
             \/ UNCHANGED vars
    BY <2>3 DEF EndSession, Expire, vars
  <2> QED BY <1>1, <2>1, <2>2, <2>3 DEF Next
<1>2. IInv /\ [Next]_vars =>
        [\A r \in Requests :
           request'[r] = request[r] \/ Forward(request[r], request'[r])]_vars
  BY <1>1
<1> QED BY Invariance, <1>2, PTL DEF Spec, GoesForward

-------------------------------------------------------------------------------
(* The fields of the DTOs. *)

\* What is said of a field: the type of what it admits; whether it admits null
\* and a missing value where it is bare of IsOptional, and where it is not.
Typed(field, v, type) ==
  Admits(field, v) => field.hand[v] \in type \union {"undefined", "null"}
Bare(field, nulls, v) ==
  /\ v = "null" => (Admits(field, v) <=> nulls)
  /\ v = "absent" => ~Admits(field, v)
Lax(field, v) == v \in {"null", "absent"} => Admits(field, v)
Kind(field, optional, nulls, v, type) ==
  /\ Typed(field, v, type) /\ Typed(optional, v, type)
  /\ Bare(field, nulls, v) /\ Lax(optional, v)

\* What is handed over for a missing value and for null, whatever the conversion.
LEMMA Missing ==
  /\ "null" \in Sent /\ "absent" \in Sent
  /\ Plain["null"] = "null" /\ Plain["absent"] = "undefined"
  /\ TypeString["null"] = "null" /\ TypeString["absent"] = "undefined"
  /\ TypeNumber["null"] = "null" /\ TypeNumber["absent"] = "undefined"
  /\ TypeDate["null"] = "null" /\ TypeDate["absent"] = "undefined"
  /\ TypeClass["null"] = "null" /\ TypeClass["absent"] = "undefined"
  /\ ToBoolean["null"] = "null" /\ ToBoolean["absent"] = "undefined"
<1>1. "null" \in Sent /\ "absent" \in Sent
  BY DEF Sent
<1>2. Plain["null"] = "null" /\ Plain["absent"] = "undefined"
  BY <1>1 DEF Plain
<1>3. TypeString["null"] = "null" /\ TypeString["absent"] = "undefined"
  BY <1>1, <1>2 DEF TypeString, Numbers
<1>4. TypeNumber["null"] = "null" /\ TypeNumber["absent"] = "undefined"
  BY <1>1, <1>2 DEF TypeNumber, Texts
<1>5. TypeDate["null"] = "null" /\ TypeDate["absent"] = "undefined"
  BY <1>1, <1>2 DEF TypeDate, Texts, Numbers
<1>6. TypeClass["null"] = "null" /\ TypeClass["absent"] = "undefined"
  BY <1>1, <1>2 DEF TypeClass
<1>7. ToBoolean["null"] = "null" /\ ToBoolean["absent"] = "undefined"
  BY <1>1, <1>2 DEF ToBoolean
<1> QED
  BY <1>1, <1>2, <1>3, <1>4, <1>5, <1>6, <1>7

\* A field as its decorator makes it: it hands on a missing value as one, null as
\* null or as missing, admits values of its type only, and lets through a null at
\* most, which comes to nulls.
Made(field, nulls, type) ==
  /\ field = [hand |-> field.hand, admitted |-> field.admitted, skipped |-> field.skipped]
  /\ field.hand["absent"] = "undefined" /\ field.hand["null"] \in {"null", "undefined"}
  /\ field.admitted \subseteq type \ {"null", "undefined"}
  /\ field.skipped \subseteq {"null"}
  /\ field.hand["null"] \in field.skipped <=> nulls

LEMMA FieldMade ==
  ASSUME NEW hand, NEW admitted, NEW o \in Options, NEW type,
         hand["null"] = "null", hand["absent"] = "undefined",
         admitted \subseteq type \ {"null", "undefined"}
  PROVE  Made(Field(hand, admitted, o), o.nullable, type)
BY DEF Made, Field, Options

\* Fewer values admitted, by a further validator.
LEMMA NarrowMade ==
  ASSUME NEW field, NEW nulls \in BOOLEAN, NEW type, NEW narrow,
         Made(field, nulls, type)
  PROVE  Made([field EXCEPT !.admitted = @ \intersect narrow], nulls,
              type \intersect narrow)
<1> DEFINE hand == field.hand
           admitted == field.admitted
           skipped == field.skipped
<1>1. field = [hand |-> hand, admitted |-> admitted, skipped |-> skipped]
  BY DEF Made
<1>2. /\ hand["absent"] = "undefined" /\ hand["null"] \in {"null", "undefined"}
      /\ admitted \subseteq type \ {"null", "undefined"}
      /\ skipped \subseteq {"null"} /\ (hand["null"] \in skipped <=> nulls)
  BY DEF Made
<1> HIDE DEF hand, admitted, skipped
<1>3. [field EXCEPT !.admitted = @ \intersect narrow]
        = [hand |-> hand, admitted |-> admitted \intersect narrow, skipped |-> skipped]
  BY <1>1
<1> QED
  BY <1>2, <1>3 DEF Made

LEMMA OptionalMade ==
  ASSUME NEW field, NEW nulls \in BOOLEAN, NEW type, Made(field, nulls, type)
  PROVE  /\ IsOptional(field).hand = field.hand
         /\ IsOptional(field).admitted = field.admitted
         /\ IsOptional(field).skipped = {"undefined", "null"}
<1> DEFINE hand == field.hand
           admitted == field.admitted
           skipped == field.skipped
<1>1. field = [hand |-> hand, admitted |-> admitted, skipped |-> skipped]
  BY DEF Made
<1>2. skipped \union {"undefined", "null"} = {"undefined", "null"}
  BY DEF Made
<1> HIDE DEF hand, admitted, skipped
<1>3. IsOptional(field)
        = [hand |-> hand, admitted |-> admitted,
           skipped |-> skipped \union {"undefined", "null"}]
  BY <1>1 DEF IsOptional
<1>4. IsOptional(field).hand = hand /\ IsOptional(field).admitted = admitted
  BY <1>3
<1>5. IsOptional(field).skipped = {"undefined", "null"}
  BY <1>2, <1>3
<1> QED
  BY <1>4, <1>5 DEF hand, admitted

LEMMA MadeIsTrue ==
  ASSUME NEW field, NEW nulls \in BOOLEAN, NEW type, NEW v, Made(field, nulls, type)
  PROVE  Typed(field, v, type) /\ Bare(field, nulls, v)
BY DEF Made, Typed, Bare, Admits

LEMMA MadeIsLax ==
  ASSUME NEW field, NEW nulls \in BOOLEAN, NEW type, NEW v, Made(field, nulls, type)
  PROVE  Typed(IsOptional(field), v, type) /\ Lax(IsOptional(field), v)
BY OptionalMade DEF Made, Typed, Lax, Admits

\* The optional field is made of the same options but for the least length.
LEMMA MadeKind ==
  ASSUME NEW field, NEW other, NEW nulls \in BOOLEAN, NEW nils \in BOOLEAN,
         NEW type, NEW v, Made(field, nulls, type), Made(other, nils, type)
  PROVE  Kind(field, IsOptional(other), nulls, v, type)
BY MadeIsTrue, MadeIsLax DEF Kind

LEMMA MadeTwin ==
  ASSUME NEW field, NEW nulls \in BOOLEAN, NEW type, NEW v,
         Made(field, nulls, type)
  PROVE  Kind(field, IsOptional(field), nulls, v, type)
BY MadeKind

LEMMA NullableIsBoolean ==
  ASSUME NEW o \in Options
  PROVE  o.nullable \in BOOLEAN
BY DEF Options

\* A text whose case is converted hands on null as missing.
LEMMA StringMade ==
  ASSUME NEW o \in Options
  PROVE  Made(StringField(o), o.nullable /\ o.case # "on", Texts)
<1> DEFINE hand == IF o.case = "on" THEN ToCase(TypeString) ELSE TypeString
           admitted == Texts \ ((IF o.minLength = "zero" THEN {} ELSE {"empty"})
                                 \union (IF o.maxLength THEN {"long"} ELSE {}))
           skipped == IF o.nullable THEN {"null"} ELSE {}
<1>1. /\ hand["absent"] = "undefined"
      /\ hand["null"] = IF o.case = "on" THEN "undefined" ELSE "null"
  BY Missing DEF ToCase
<1>2. admitted \subseteq Texts \ {"null", "undefined"}
  BY DEF Texts
<1>3. StringField(o) = [hand |-> hand, admitted |-> admitted, skipped |-> skipped]
  BY DEF StringField, Field
<1>4. skipped \subseteq {"null"} /\ (hand["null"] \in skipped <=> o.nullable /\ o.case # "on")
  BY <1>1 DEF Options
<1> HIDE DEF hand, admitted, skipped
<1>5. /\ StringField(o).hand = hand /\ StringField(o).admitted = admitted
      /\ StringField(o).skipped = skipped
  BY <1>3
<1>6. hand["null"] \in {"null", "undefined"}
  BY <1>1
<1> QED
  BY <1>1, <1>2, <1>3, <1>4, <1>5, <1>6 DEF Made

LEMMA OptionsClosed ==
  ASSUME NEW o \in Options
  PROVE  /\ [o EXCEPT !.minLength = IF @ = "default" THEN "zero" ELSE @] \in Options
         /\ [o EXCEPT !.case = IF @ = "default" THEN "on" ELSE @] \in Options
         /\ [o EXCEPT !.case = IF @ = "default" THEN "on" ELSE @].nullable = o.nullable
         /\ [o EXCEPT !.case = IF @ = "default" THEN "on" ELSE @].case # "on"
               <=> o.case = "off"
         /\ o.nullable \in BOOLEAN
BY DEF Options

LEMMA NumberKind ==
  ASSUME NEW o \in Options, NEW v
  PROVE  Kind(NumberField(o), NumberFieldOptional(o), o.nullable, v,
              IF o.int THEN Numbers \ {"fraction"} ELSE Numbers)
<1> DEFINE admitted ==
             Numbers \ ((IF o.int THEN {"fraction"} ELSE {})
                         \union (IF o.min \/ o.positive THEN {"zero", "negative"} ELSE {})
                         \union (IF o.max THEN {"huge"} ELSE {}))
           type == IF o.int THEN Numbers \ {"fraction"} ELSE Numbers
<1>1. admitted \subseteq type \ {"null", "undefined"}
  BY DEF Numbers
<1>2. NumberField(o) = Field(TypeNumber, admitted, o)
  BY DEF NumberField
<1> HIDE DEF admitted, type
<1>3. Made(NumberField(o), o.nullable, type)
  BY <1>1, <1>2, Missing, FieldMade
<1>4. Kind(NumberField(o), NumberFieldOptional(o), o.nullable, v, type)
  BY <1>3, MadeTwin, NullableIsBoolean DEF NumberFieldOptional
<1> QED
  BY <1>4 DEF type

LEMMA StringKinds ==
  ASSUME NEW o \in Options, NEW v
  PROVE  LET kept == o.nullable /\ o.case # "on" IN
         /\ Kind(StringField(o), StringFieldOptional(o), kept, v, Texts)
         /\ Kind(PasswordField(o), PasswordFieldOptional(o), kept, v, {"word", "long"})
         /\ Kind(EmailField(o), EmailFieldOptional(o),
                 o.nullable /\ o.case = "off", v, {"email"})
         /\ Kind(URLField(o), URLFieldOptional(o), kept, v, {"url"})
<1> DEFINE kept == o.nullable /\ o.case # "on"
<1>1. kept \in BOOLEAN /\ Made(StringField(o), kept, Texts)
  BY StringMade
<1>2. Kind(StringField(o), StringFieldOptional(o), kept, v, Texts)
  <2> DEFINE p == [o EXCEPT !.minLength = IF @ = "default" THEN "zero" ELSE @]
             nils == p.nullable /\ p.case # "on"
  <2>1. p \in Options /\ nils \in BOOLEAN /\ StringFieldOptional(o) = IsOptional(StringField(p))
    BY OptionsClosed DEF StringFieldOptional
  <2> HIDE DEF p
  <2>2. Made(StringField(p), nils, Texts)
    BY <2>1, StringMade
  <2> HIDE DEF nils, kept
  <2> QED
    BY <1>1, <2>1, <2>2, MadeKind
<1>3. Made(PasswordField(o), kept, {"word", "long"})
  <2>1. Texts \intersect {"word", "long"} = {"word", "long"}
    BY DEF Texts
  <2> HIDE DEF kept
  <2>2. Made(PasswordField(o), kept, Texts \intersect {"word", "long"})
    BY <1>1, NarrowMade DEF PasswordField
  <2> QED
    BY <2>1, <2>2
<1>4. Made(URLField(o), kept, {"url"})
  <2>1. Texts \intersect {"url"} = {"url"}
    BY DEF Texts
  <2> HIDE DEF kept
  <2>2. Made(URLField(o), kept, Texts \intersect {"url"})
    BY <1>1, NarrowMade DEF URLField
  <2> QED
    BY <2>1, <2>2
<1>5. Made(EmailField(o), o.nullable /\ o.case = "off", {"email"})
  <2> DEFINE p == [o EXCEPT !.case = IF @ = "default" THEN "on" ELSE @]
             nils == p.nullable /\ p.case # "on"
             field == StringField(p)
  <2>1. Texts \intersect {"email"} = {"email"}
    BY DEF Texts
  <2>2. p \in Options /\ nils = (o.nullable /\ o.case = "off") /\ nils \in BOOLEAN
    BY OptionsClosed
  <2>3. EmailField(o) = [field EXCEPT !.admitted = @ \intersect {"email"}]
    BY DEF EmailField
  <2> HIDE DEF p
  <2>4. Made(field, nils, Texts)
    BY <2>2, StringMade
  <2> HIDE DEF nils, field
  <2>5. nils \in BOOLEAN
    BY <2>2
  <2>6. Made([field EXCEPT !.admitted = @ \intersect {"email"}], nils,
             Texts \intersect {"email"})
    BY <2>4, <2>5, NarrowMade
  <2>7. Made(EmailField(o), nils, {"email"})
    BY <2>1, <2>3, <2>6
  <2> QED
    BY <2>2, <2>7
<1>6. (o.nullable /\ o.case = "off") \in BOOLEAN
  OBVIOUS
<1> HIDE DEF kept
<1>7. /\ Kind(PasswordField(o), PasswordFieldOptional(o), kept, v, {"word", "long"})
      /\ Kind(URLField(o), URLFieldOptional(o), kept, v, {"url"})
  BY <1>1, <1>3, <1>4, MadeKind DEF PasswordFieldOptional, URLFieldOptional
<1>8. Kind(EmailField(o), EmailFieldOptional(o),
           o.nullable /\ o.case = "off", v, {"email"})
  BY <1>5, <1>6, MadeKind DEF EmailFieldOptional
<1> QED
  BY <1>2, <1>7, <1>8 DEF kept

LEMMA SimpleKinds ==
  ASSUME NEW o \in Options, NEW v
  PROVE  /\ Kind(BooleanField(o), BooleanFieldOptional(o), o.nullable, v, {"boolean"})
         /\ Kind(UUIDField(o), UUIDFieldOptional(o), o.nullable, v, {"uuid"})
         /\ Kind(DateField(o), DateFieldOptional(o), o.nullable, v, {"date"})
         /\ Kind(EnumField(o), EnumFieldOptional(o), o.nullable, v, {"member"})
         /\ Typed(TokenField(o), v, {"jwt"}) /\ Bare(TokenField(o), o.nullable, v)
<1>1. Made(BooleanField(o), o.nullable, {"boolean"})
  BY Missing, FieldMade DEF BooleanField
<1>2. Made(UUIDField(o), o.nullable, {"uuid"})
  BY Missing, FieldMade DEF UUIDField
<1>3. Made(DateField(o), o.nullable, {"date"})
  BY Missing, FieldMade DEF DateField
<1>4. Made(EnumField(o), o.nullable, {"member"})
  BY Missing, FieldMade DEF EnumField
<1>5. Made(TokenField(o), o.nullable, {"jwt"})
  BY Missing, FieldMade DEF TokenField
<1>6. Kind(BooleanField(o), BooleanFieldOptional(o), o.nullable, v, {"boolean"})
  BY <1>1, MadeTwin, NullableIsBoolean DEF BooleanFieldOptional
<1>7. Kind(UUIDField(o), UUIDFieldOptional(o), o.nullable, v, {"uuid"})
  BY <1>2, MadeTwin, NullableIsBoolean DEF UUIDFieldOptional
<1>8. Kind(DateField(o), DateFieldOptional(o), o.nullable, v, {"date"})
  BY <1>3, MadeTwin, NullableIsBoolean DEF DateFieldOptional
<1>9. Kind(EnumField(o), EnumFieldOptional(o), o.nullable, v, {"member"})
  BY <1>4, MadeTwin, NullableIsBoolean DEF EnumFieldOptional
<1>10. Typed(TokenField(o), v, {"jwt"}) /\ Bare(TokenField(o), o.nullable, v)
  BY <1>5, MadeIsTrue, NullableIsBoolean
<1> QED
  BY <1>6, <1>7, <1>8, <1>9, <1>10

\* Of a class, a missing value is refused only where it is required.
LEMMA ClassKind ==
  ASSUME NEW o \in Options, NEW v
  PROVE  /\ Typed(ClassField(o), v, {"instance", "instances"})
         /\ o.required => Bare(ClassField(o), o.nullable, v)
         /\ Lax(ClassFieldOptional(o), v)
<1> DEFINE hand == TypeClass
           skipped == IF o.nullable THEN {"null"} ELSE {}
<1>1. hand["null"] = "null" /\ hand["absent"] = "undefined"
  BY Missing
<1>2. /\ ClassField(o).hand = TypeClass
      /\ ClassField(o).admitted = {"instance", "instances"}
           \union IF o.required THEN {} ELSE {"undefined"}
      /\ ClassField(o).skipped = skipped
  BY DEF ClassField, Field
<1>3. Typed(ClassField(o), v, {"instance", "instances"})
  BY <1>2 DEF Typed, Admits
<1>4. ASSUME o.required PROVE Bare(ClassField(o), o.nullable, v)
  BY <1>1, <1>2, <1>4 DEF Bare, Admits
<1>5. Lax(ClassFieldOptional(o), v)
  <2> DEFINE p == [o EXCEPT !.required = FALSE]
             admitted == {"instance", "instances"}
                           \union IF p.required THEN {} ELSE {"undefined"}
             kept == IF p.nullable THEN {"null"} ELSE {}
  <2>1. ClassField(p) = [hand |-> TypeClass, admitted |-> admitted, skipped |-> kept]
    BY DEF ClassField, Field
  <2>2. ClassFieldOptional(o) = IsOptional(ClassField(p))
    BY DEF ClassFieldOptional
  <2> HIDE DEF p, admitted, kept
  <2>3. ClassFieldOptional(o)
          = [hand |-> TypeClass, admitted |-> admitted,
             skipped |-> kept \union {"undefined", "null"}]
    BY <2>1, <2>2 DEF IsOptional
  <2>4. /\ ClassFieldOptional(o).hand = TypeClass
        /\ {"undefined", "null"} \subseteq ClassFieldOptional(o).skipped
    BY <2>3
  <2> QED
    BY <1>1, <2>4 DEF Lax, Admits
<1> QED
  BY <1>3, <1>4, <1>5

\* Whatever the options of a field decorator and whatever is sent: what passes
\* has the declared type, is missing or null; an optional field admits both, a
\* nullable one null where the case of the text is not converted, any other
\* neither, but for a class that is not required.  The option each is not among
\* them.
THEOREM FieldsTheorem == Spec => []FieldsAdmit
<1>1. ASSUME NEW o \in Options, NEW v \in Sent
      PROVE  /\ Kind(NumberField(o), NumberFieldOptional(o), o.nullable, v,
                     IF o.int THEN Numbers \ {"fraction"} ELSE Numbers)
             /\ Kind(StringField(o), StringFieldOptional(o),
                     o.nullable /\ o.case # "on", v, Texts)
             /\ Kind(PasswordField(o), PasswordFieldOptional(o),
                     o.nullable /\ o.case # "on", v, {"word", "long"})
             /\ Kind(BooleanField(o), BooleanFieldOptional(o), o.nullable, v, {"boolean"})
             /\ Kind(EmailField(o), EmailFieldOptional(o),
                     o.nullable /\ o.case = "off", v, {"email"})
             /\ Kind(UUIDField(o), UUIDFieldOptional(o), o.nullable, v, {"uuid"})
             /\ Kind(URLField(o), URLFieldOptional(o),
                     o.nullable /\ o.case # "on", v, {"url"})
             /\ Kind(DateField(o), DateFieldOptional(o), o.nullable, v, {"date"})
             /\ Kind(EnumField(o), EnumFieldOptional(o), o.nullable, v, {"member"})
             /\ Typed(TokenField(o), v, {"jwt"}) /\ Bare(TokenField(o), o.nullable, v)
             /\ Typed(ClassField(o), v, {"instance", "instances"})
             /\ o.required => Bare(ClassField(o), o.nullable, v)
             /\ Lax(ClassFieldOptional(o), v)
  BY NumberKind, StringKinds, SimpleKinds, ClassKind
<1>2. FieldsAdmit
  BY <1>1 DEF FieldsAdmit, Kind, Typed, Bare, Lax
<1> QED BY <1>2, PTL

===============================================================================

------------------------------ MODULE Requests ------------------------------
(***************************************************************************)
(* What happens to a request between the socket and its handler: basic     *)
(* authentication in Fastify's hook, the proxy of Better Auth, and, on the *)
(* routes of Nest, the throttler, AuthGuard, the upload interceptor, the   *)
(* ValidationPipe and the handler, in this order; and the messages of a    *)
(* websocket, which meet AuthGuard alone.  Uploads run to the last put.    *)
(***************************************************************************)
EXTENDS FieldRules, FiniteSets

CONSTANTS
  Requests,  \* the requests
  Clients,   \* the clients, each a user and an address
  Proxy,     \* the address of the reverse proxy
  Limit,     \* requests to a route that an address may send in a window
  Files,     \* the files of an upload
  Offers,    \* what may be sent as a request, by request
  None       \* nobody

ASSUME RequestsAssumption ==
  /\ IsFiniteSet(Requests)
  /\ Limit \in Nat /\ Proxy \notin Clients /\ None \notin Clients

\* The fields that clients send: of the listing, of the profile, of an account.
Limits   == NumberFieldOptional([NoOptions EXCEPT !.int = TRUE])
Username == StringFieldOptional(NoOptions)
Names    == StringFieldOptional([NoOptions EXCEPT !.nullable = TRUE])
UserId   == UUIDField(NoOptions)
Inputs   ==
  {Limits, Username, Names, UserId} \X {"absent", "null", "word", "list", "uuid"}

\* The routes: health is not guarded, upload and users are (REST and GraphQL),
\* message is the websocket's, docs and auth are not routes of Nest.
Routes    == {"health", "users", "upload", "message", "docs", "auth"}
Throttled == {"health", "users", "upload"}
Guarded   == {"users", "upload", "message"}

Addresses == Clients \union {Proxy}

\* Of the headers: what the first of those that tell an address says, which are
\* X-Forwarded, X-Forwarded-For and X-Real-IP, and the leftmost address in
\* X-Forwarded-For.  A proxy adds the latter's client; a client may send them all.
Kinds ==
  {k \in [route : Routes, client : Clients, proxied : BOOLEAN,
          header : {"none", "empty", "address"},
          leftmost : Addresses \union {None}, files : SUBSET Files] :
     /\ k.proxied => k.leftmost # None
     /\ k.leftmost # None => k.header # "none"
     /\ k.route = "upload" \/ k.files = {}}

ASSUME OffersAssumption == Offers \in [Requests -> SUBSET Kinds]

VARIABLES
  config,      \* trustProxy (IS_HTTPS) and local (APP_LOCAL_FILE_UPLOAD)
  live,        \* the clients whose session is live
  request,     \* the requests, by id
  window,      \* what was counted for a route and address in its window
  store        \* the stored files: of which request, and which

vars == <<config, live, request, window, store>>

Stages ==
  {"none", "hook", "handshake", "throttle", "guard", "receive", "pipe", "handle",
   "put", "ended"}

NoRequest ==
  [stage |-> "none", route |-> "health", client |-> None, proxied |-> FALSE,
   header |-> "none", leftmost |-> None, files |-> {},
   greeted |-> FALSE, session |-> None, before |-> {},
   pending |-> {}, failed |-> {}, answer |-> "none"]

Init ==
  /\ config \in [trustProxy : BOOLEAN, local : BOOLEAN]
  /\ live \in SUBSET Clients
  /\ request = [r \in Requests |-> NoRequest]
  /\ window = [p \in Throttled \X Addresses |-> {}]
  /\ store = {}

\* r moves on to a stage, or is answered.
To(r, stage) == request' = [request EXCEPT ![r].stage = stage]
Answer(r, answer) ==
  request' = [request EXCEPT ![r].stage = "ended", ![r].answer = answer]

-------------------------------------------------------------------------------
(* The clients.                                                                *)

FirstStage(route) ==
  CASE route \in Throttled -> "throttle"
    [] route = "message"   -> "handshake"
    [] OTHER               -> "hook"

Send(r) ==
  /\ request[r].stage = "none"
  /\ \E k \in Offers[r] :
       request' = [request EXCEPT ![r] = [NoRequest EXCEPT
         !.stage = FirstStage(k.route), !.route = k.route, !.client = k.client,
         !.proxied = k.proxied, !.header = k.header, !.leftmost = k.leftmost,
         !.files = k.files]]
  /\ UNCHANGED <<config, live, window, store>>

EndSession(c) ==
  /\ c \in live /\ live' = live \ {c}
  /\ UNCHANGED <<config, request, window, store>>

-------------------------------------------------------------------------------
(* Fastify: the hook and the proxy of Better Auth.                             *)

\* Faulty variant: the challenge is not an answer.
BasicAuthChallenge(r) ==
  /\ request[r].stage = "hook" /\ request[r].route = "docs"
  /\ \E credentials \in {"right", "wrong"} :
       Answer(r, IF credentials = "right" THEN "ok" ELSE "challenge")
  /\ UNCHANGED <<config, live, window, store>>

\* Docs are the queue board, Swagger and the reference of Better Auth.
BasicAuth(r) ==
  /\ request[r].stage = "hook" /\ request[r].route = "docs"
  /\ \E credentials \in {"right", "wrong"} :
       Answer(r, IF credentials = "right" THEN "ok" ELSE "unauthorized")
  /\ UNCHANGED <<config, live, window, store>>

\* Faulty variant: an error is logged and not answered; nothing leads on from there.
AuthProxySilent(r) ==
  /\ request[r].stage = "hook" /\ request[r].route = "auth"
  /\ \/ \E answer \in {"ok", "unauthorized"} : Answer(r, answer)
     \/ To(r, "put")
  /\ UNCHANGED <<config, live, window, store>>

\* Whatever Better Auth answers; an error of its handler is a 500.
AuthProxy(r) ==
  /\ request[r].stage = "hook" /\ request[r].route = "auth"
  /\ \E answer \in {"ok", "unauthorized", "error"} : Answer(r, answer)
  /\ UNCHANGED <<config, live, window, store>>

-------------------------------------------------------------------------------
(* AppThrottlerGuard.                                                          *)

\* The address that the connection comes from.
Source(r) == IF request[r].proxied THEN Proxy ELSE request[r].client

\* request.ip: with trustProxy the leftmost forwarded address.
Ip(r) ==
  IF config.trustProxy /\ request[r].leftmost # None
  THEN request[r].leftmost ELSE Source(r)

\* Faulty variant: request.ip for every request.
TrackerOfIp(r) == Ip(r)

\* ips[0] is the connection's address.  An empty header is there, but false: it
\* leads to ip, as does no header without trustProxy.
Tracker(r) ==
  IF request[r].header = "empty" \/ (request[r].header = "none" /\ ~config.trustProxy)
  THEN Ip(r) ELSE Source(r)

\* Without trustProxy there are no ips to look into for a forwarded request.
Untracked(r) == request[r].header = "address" /\ ~config.trustProxy

Throttle(r) ==
  /\ request[r].stage = "throttle" /\ ~Untracked(r)
  /\ LET key == <<request[r].route, Tracker(r)>> IN
       /\ window' = [window EXCEPT ![key] = @ \union {r}]
       /\ request' = [request EXCEPT
            ![r].before = IF Cardinality(window[key]) >= Limit THEN window[key] ELSE {},
            ![r].stage = IF Cardinality(window[key]) >= Limit THEN "ended"
                         ELSE IF request[r].route = "health" THEN "handle"
                         ELSE "guard",
            ![r].answer = IF Cardinality(window[key]) >= Limit
                          THEN "tooMany" ELSE "none"]
  /\ UNCHANGED <<config, live, store>>

ThrottleFails(r) ==
  /\ request[r].stage = "throttle" /\ Untracked(r)
  /\ Answer(r, "error")
  /\ UNCHANGED <<config, live, window, store>>

\* The window of a route and an address is over.
Expire(key) ==
  /\ window[key] # {} /\ window' = [window EXCEPT ![key] = {}]
  /\ UNCHANGED <<config, live, request, store>>

-------------------------------------------------------------------------------
(* AuthGuard.                                                                  *)

Session(r) == IF request[r].client \in live THEN request[r].client ELSE None

\* The handshake of a websocket, in the middleware of afterInit; its message
\* comes at any time after it.
Handshake(r) ==
  /\ request[r].stage = "handshake"
  /\ \/ /\ Session(r) # None
        /\ request' = [request EXCEPT ![r].stage = "guard", ![r].greeted = TRUE]
     \/ Answer(r, "unauthorized")  \* no session, or getSession rejects
  /\ UNCHANGED <<config, live, window, store>>

AfterGuard(route) ==
  CASE route = "upload" -> "receive"
    [] route = "users"  -> "pipe"
    [] OTHER            -> "handle"

\* Faulty variant: every route is treated as optional.
GuardOptional(r) ==
  /\ request[r].stage = "guard"
  /\ request' = [request EXCEPT ![r].session = Session(r),
                                ![r].stage = AfterGuard(request[r].route)]
  /\ UNCHANGED <<config, live, window, store>>

\* On a websocket a session that is null is as good as one.
Guard(r) ==
  /\ request[r].stage = "guard"
  /\ IF Session(r) = None /\ request[r].route # "message"
     THEN Answer(r, "unauthorized")
     ELSE request' = [request EXCEPT ![r].session = Session(r),
                                     ![r].stage = AfterGuard(request[r].route)]
  /\ UNCHANGED <<config, live, window, store>>

\* getSession rejects: a websocket is closed and its message not answered.
GuardFails(r) ==
  /\ request[r].stage = "guard"
  /\ Answer(r, IF request[r].route = "message" THEN "dropped" ELSE "error")
  /\ UNCHANGED <<config, live, window, store>>

-------------------------------------------------------------------------------
(* Uploads: the interceptor of Multer, then FileService and AwsS3Service.      *)

\* Without a part the handler refuses, or trips over the missing list.
Unfiled == {"badRequest", "error"}

\* The parts are read to the disk or into memory; one too large refuses all.
Receive(r) ==
  /\ request[r].stage = "receive"
  /\ LET files == request[r].files IN
     \/ /\ files = {} /\ UNCHANGED store
        /\ \E answer \in Unfiled : Answer(r, answer)
     \/ /\ files # {} /\ Answer(r, "tooLarge") /\ UNCHANGED store
     \/ /\ files # {} /\ config.local
        /\ store' = store \union ({r} \X files) /\ Answer(r, "ok")
     \/ /\ files # {} /\ ~config.local
        /\ request' = [request EXCEPT ![r].stage = "put", ![r].pending = files]
        /\ UNCHANGED store
  /\ UNCHANGED <<config, live, window>>

\* Faulty variant: the first put answers for all.
PutFirst(r, f) ==
  /\ f \in request[r].pending
  /\ store' = store \union {<<r, f>>}
  /\ request' = [request EXCEPT ![r].pending = @ \ {f}, ![r].stage = "ended",
       ![r].answer = IF request[r].stage = "put" THEN "ok" ELSE @]
  /\ UNCHANGED <<config, live, window>>

\* The last of the puts answers, unless one has failed.
Put(r, f) ==
  /\ f \in request[r].pending
  /\ store' = store \union {<<r, f>>}
  /\ LET answers == request[r].stage = "put" /\ request[r].pending = {f} IN
       request' = [request EXCEPT ![r].pending = @ \ {f},
         ![r].stage = IF answers THEN "ended" ELSE @,
         ![r].answer = IF answers THEN "ok" ELSE @]
  /\ UNCHANGED <<config, live, window>>

\* The first failure answers; the other puts go on.
PutFails(r, f) ==
  /\ f \in request[r].pending
  /\ request' = [request EXCEPT ![r].pending = @ \ {f}, ![r].failed = @ \union {f},
       ![r].stage = "ended",
       ![r].answer = IF request[r].stage = "put" THEN "error" ELSE @]
  /\ UNCHANGED <<config, live, window, store>>

-------------------------------------------------------------------------------
(* The pipe and the handlers.                                                  *)

Pipe(r) ==
  /\ request[r].stage = "pipe"
  /\ \E input \in Inputs :
       IF Admits(input[1], input[2]) THEN To(r, "handle")
                                     ELSE Answer(r, "unprocessable")
  /\ UNCHANGED <<config, live, window, store>>

\* A message is always answered; the checks of health and the queries may fail.
Handle(r) ==
  /\ request[r].stage = "handle"
  /\ \E answer \in {"ok", "error"} :
       /\ request[r].route = "message" => answer = "ok"
       /\ Answer(r, answer)
  /\ UNCHANGED <<config, live, window, store>>

\* The process dies: its requests, puts and sockets are gone.
Crash ==
  /\ request' = [r \in Requests |->
       IF request[r].stage \in {"none", "ended"}
       THEN [request[r] EXCEPT !.pending = {}]
       ELSE [request[r] EXCEPT !.pending = {}, !.stage = "ended", !.answer = "lost"]]
  /\ UNCHANGED <<config, live, window, store>>

Serve(r) ==
  \/ BasicAuth(r) \/ AuthProxy(r)
  \/ Throttle(r) \/ ThrottleFails(r)
  \/ Handshake(r) \/ Guard(r) \/ GuardFails(r)
  \/ Receive(r) \/ \E f \in Files : Put(r, f) \/ PutFails(r, f)
  \/ Pipe(r) \/ Handle(r)

Next ==
  \/ \E r \in Requests : Send(r) \/ Serve(r)
  \/ \E c \in Clients : EndSession(c)
  \/ \E key \in Throttled \X Addresses : Expire(key)
  \/ Crash

Fairness == \A r \in Requests : WF_vars(Serve(r))

Spec == Init /\ [][Next]_vars /\ Fairness

-------------------------------------------------------------------------------
(* Properties.                                                                 *)

Answers ==
  {"none", "ok", "unauthorized", "tooMany", "badRequest", "tooLarge",
   "unprocessable", "error", "dropped", "lost"}

\* The types of the variables.
TypeOK ==
  /\ config \in [trustProxy : BOOLEAN, local : BOOLEAN]
  /\ live \subseteq Clients
  /\ request \in [Requests ->
       [stage : Stages, route : Routes, client : Clients \union {None},
        proxied : BOOLEAN, header : {"none", "empty", "address"},
        leftmost : Addresses \union {None}, files : SUBSET Files,
        greeted : BOOLEAN, session : Clients \union {None}, before : SUBSET Requests,
        pending : SUBSET Files, failed : SUBSET Files, answer : Answers]]
  /\ window \in [Throttled \X Addresses -> SUBSET Requests]
  /\ store \subseteq Requests \X Files

\* A guarded handler runs for the client whose session AuthGuard found live.
\* Only the handler of a websocket's message may run without a session, and
\* only when that of the client ended after a handshake that had found it.
ServedHasOwner ==
  \A r \in Requests :
    /\ request[r].route \in Guarded
    /\ \/ request[r].stage \in {"receive", "pipe", "put", "handle"}
       \/ request[r].answer = "ok"
    => \/ request[r].session = request[r].client
       \/ /\ request[r].route = "message"
          /\ request[r].greeted /\ request[r].client \notin live

\* What auth.guard.ts says of itself: it validates that the request is
\* authenticated, for REST, GraphQL and websockets, and throws otherwise; so no
\* guarded handler runs without the session of its client.
GuardedIsAuthenticated ==
  \A r \in Requests :
    request[r].route \in Guarded
      /\ request[r].stage \in {"receive", "pipe", "put", "handle"}
    => request[r].session = request[r].client

\* A request that is counted at the address it claims, not the one it comes from.
Claims(r) ==
  config.trustProxy /\ request[r].header = "empty" /\ request[r].leftmost # None

\* A client is refused only after Limit requests to the route from the address
\* it comes from: its own, or, behind the proxy, those of any client behind it.
\* And a client that comes directly is let through at most Limit times in a
\* window, with whatever address it forwards.  Both hold but for requests that
\* claim an address beside an empty header, where the proxy is trusted: they are
\* counted, and refused, with those of the address they claim.
RateIsKept ==
  /\ \A r \in Requests : request[r].answer = "tooMany" =>
       /\ Cardinality(request[r].before) >= Limit
       /\ \A q \in request[r].before :
            /\ request[q].route = request[r].route
            /\ \/ Claims(q) \/ Claims(r)
               \/ /\ request[q].proxied = request[r].proxied
                  /\ request[r].proxied \/ request[q].client = request[r].client
  /\ \A route \in Throttled, c \in Clients :
       Cardinality({r \in UNION {window[<<route, a>>] : a \in Addresses} :
         request[r].client = c /\ ~request[r].proxied /\ ~Claims(r)
           /\ request[r].answer # "tooMany"}) <= Limit

\* What is stored came from an upload that AuthGuard let through, and its client
\* knows of it, unless another put of the upload failed or the process died.  An
\* upload that is answered with success is stored as a whole.
StoredIsAccounted ==
  /\ \A s \in store : LET r == request[s[1]] IN
       /\ r.route = "upload" /\ r.session = r.client /\ s[2] \in r.files
       /\ \/ r.stage = "put" \/ r.answer \in {"ok", "lost"}
          \/ r.answer = "error" /\ r.failed # {}
  /\ \A r \in Requests : request[r].route = "upload" /\ request[r].answer = "ok" =>
       {r} \X request[r].files \subseteq store

\* Every request that was sent is answered, dropped with its websocket, or lost
\* with the process.
EachAnswered ==
  \A r \in Requests : request[r].stage # "none" ~> request[r].stage = "ended"

Idle == \A r \in Requests : request[r].stage = "none"

\* Whatever the options: a field admits only what then is of its type; a value
\* that is left out or null is admitted by an optional field, and null by a
\* nullable one that does not convert the case (which makes it undefined before
\* anybody asks whether it is null); otherwise neither is, but for a class that
\* is not required.  The fields keep no state: it is enough to look at them
\* before any request.
FieldsAdmit ==
  Idle => \A o \in Options : \A v \in Sent :
    LET typed(field, type) ==
          Admits(field, v) => field.hand[v] \in type \union {"undefined", "null"}
        bare(field, nulls) ==
          /\ v = "null" => (Admits(field, v) <=> nulls)
          /\ v = "absent" => ~Admits(field, v)
        lax(field) == v \in {"null", "absent"} => Admits(field, v)
        kind(field, optional, nulls, type) ==
          /\ typed(field, type) /\ typed(optional, type)
          /\ bare(field, nulls) /\ lax(optional)
        kept == o.nullable /\ o.case # "on"
        plain(field, optional, type) == kind(field, optional, o.nullable, type)
    IN /\ plain(NumberField(o), NumberFieldOptional(o),
                IF o.int THEN Numbers \ {"fraction"} ELSE Numbers)
       /\ kind(StringField(o), StringFieldOptional(o), kept, Texts)
       /\ kind(PasswordField(o), PasswordFieldOptional(o), kept, {"word", "long"})
       /\ kind(EmailField(o), EmailFieldOptional(o),
               o.nullable /\ o.case = "off", {"email"})
       /\ kind(URLField(o), URLFieldOptional(o), kept, {"url"})
       /\ plain(BooleanField(o), BooleanFieldOptional(o), {"boolean"})
       /\ plain(UUIDField(o), UUIDFieldOptional(o), {"uuid"})
       /\ plain(DateField(o), DateFieldOptional(o), {"date"})
       /\ plain(EnumField(o), EnumFieldOptional(o), {"member"})
       /\ typed(TokenField(o), {"jwt"}) /\ bare(TokenField(o), o.nullable)
       /\ typed(ClassField(o), {"instance", "instances"})
       /\ o.required => bare(ClassField(o), o.nullable)
       /\ lax(ClassFieldOptional(o))

===============================================================================

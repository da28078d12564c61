# Verification of the Ultimate NestJS Boilerplate

TLA+ models of the parts of this server whose correctness depends on the order
of things: awaited calls that interleave, jobs that are retried, processes that
die, keys that expire. TLC checks every model on a small instance; TLAPS proves
the main properties for every value of the constants. Line numbers refer to the
files under `src/` of the repository (the application is in `src/src/`).

## The system

One code base runs as any number of *api* processes and any number of *worker*
processes (`AppModule.main()` and `AppModule.worker()`, chosen by
`app.isWorker` in `main.ts`). They share PostgreSQL (TypeORM and Better Auth's
own pool) and Redis (cache, BullMQ, Socket.IO adapter, throttler). Inside a
process everything is single-threaded; a handler runs undisturbed from one
`await` to the next, and all other handlers of all processes run in between.

| component | state it keeps | operations | talks to | what is hard |
|---|---|---|---|---|
| Authentication mails, `auth/auth.service.ts` | the marker of the last mail, a key with a ttl in Redis | `sendSigninMagicLink`, `verifyEmail`, `resetPassword` | called by Better Auth's callbacks (`config/auth/better-auth.config.ts`); user table; cache; email queue | check, add and set are three awaits with nothing held across them |
| Cache, `shared/cache` | keys with expiry | `get`, `getTtl`, `set`, `delete` (and `storeGet`, `storeSet`, which nobody calls) | Redis; Better Auth keeps its sessions through `get`, `set`, `delete` | expiry; `-1`, `-2`, `0` and `null` all mean "no wait" |
| Email queue, `config/bull`, `worker/queues/email/email.type.ts` | the jobs and their locks in Redis | `add`; BullMQ's take, report, retry, stalled check | api and worker processes | retries, limiter, lost locks, stalled jobs |
| Email worker, `worker/queues/email`, `shared/mail` | nothing of its own | `process`, three handlers, `sendMail` | user table, mail server | a job executed twice, a mail sent but not reported, an account deleted meanwhile |
| Websocket gateway, `shared/socket` | a Map of sockets per process; a list of socket ids per user in Redis | connect, disconnect, messages, `sendTo`, `sendToAll` | Better Auth's sessions, cache | read-modify-write over awaits; a list that expires; crashed processes |
| Authorization guard, `auth/auth.guard.ts` | `session` on request or socket | `canActivate` for HTTP, GraphQL, websockets | Better Auth | three context types, a session that ends on the way |
| Rate limiting, `config/throttler` | a count per route and tracker in Redis | `getTracker`, `shouldSkip` | the throttler library, behind or without a proxy | whose requests are counted together |
| Better Auth wiring, `auth/auth.module.ts` | none: the chain of hooks stays empty | the proxy route | Better Auth | outside Nest's exception filters |
| Users, `api/user` | the user table (soft delete) | find, list, delete, update of the profile | TypeORM, Better Auth | an update spread over three calls; deletes that race |
| Cursor pagination, `utils/pagination/cursor-pagination.ts` | none: the cursor travels with the client | `paginate` | user table | precision of timestamps, ties, rows that come and go |
| Offset pagination, `utils/pagination/offset-pagination.ts` | none | `paginate` | user table | page and count are two queries; arithmetic of the pages |
| Files, `api/file`, `services/aws` | objects in S3 or files on disk | `uploadFile`, `uploadMultipleFiles` | S3 | concurrent puts, partial failure |
| Mail template build, `scripts/mail.build.ts` | the output files | build, and the watcher's change, add, unlink | file system | a build under way when the next event comes |
| Start-up and configuration, `main.ts`, `app.module.ts`, `config` | `process.env`, merged with the .env | bootstrap of either role | environment, .env, all services | values read before they are merged or validated; validation laxer than the use |
| Field decorators, `decorators` | none | conversion and validation of a request's fields | class-transformer, class-validator | absent, null and empty values; options that combine |
| Migrations, health, observability, documentation, translations | none that changes while serving | | | |

What makes each of them correct: a mail is not sent twice in a cooldown and
nobody waits without a reason (mails); an accepted job is settled, sent a
bounded number of times and never given up early (queue and worker); a connected
socket can be reached, a closed one is forgotten (gateway); nobody passes
without a session where one is required (guard); a walk over the pages sees
every row that stayed, once (pagination); a process starts wholly as one role, or
fails where it can be seen why (start-up); every request is answered (all); a
half-made change is not reported as made (users, files); the output of a template
is that of its newest source (template build).

## The modules

| module | what it is |
|---|---|
| `MailCooldown` | the three send methods of AuthService and the cooldown |
| `MailDelivery` | what the email queue promises about a job |
| `EmailQueue` | BullMQ, EmailProcessor and EmailQueueService; implements `MailDelivery` |
| `SocketRegistry` | the websocket gateway, its Maps and its lists in Redis |
| `CursorWalk` | walking over the users with the cursor pagination |
| `UserLifecycle` | the profile update and the delete of an account |
| `MailBuild` | the build of the mail templates in watch mode |
| `Startup` | the start of a process, from its imports to `listen` |
| `FieldRules` | what the field decorators of the DTOs convert and admit |
| `Requests` | the way of a request to its handler, uploads included |
| `OffsetPages` | listing the users by page number |
| `MCMailCooldown`, `MCEmailQueue`, `MCSocketRegistry`, `MCCursorWalk`, `MCUserLifecycle`, `MCMailBuild`, `MCStartup`, `MCRequests`, `MCOffsetPages` | the instances for TLC |
| `MailCooldownProofs`, `EmailQueueProofs`, `SocketRegistryProofs`, `PaginationProofs`, `UserLifecycleProofs`, `MailBuildProofs`, `StartupProofs`, `RequestsProofs` | the theorems and their proofs |

### MailCooldown

A request is an element of `Requests`; `Kind[r]` says which of the three methods
it calls. `pc[r]` is the awaited call it makes next, so that every other request
may step between two calls:

| action | code |
|---|---|
| `Begin` | entry of the method; only the magic link looks its user up (33, 67, 89) |
| `LookUp` | `userRepository.findOne`, 404 without a user (34-44) |
| `CheckTtl` | `getTtl` and the early return with 429 (51-57, 73-79, 95-101) |
| `AddJob` | `emailQueue.add` (59-62, 81-84, 102-105) |
| `SetMarker` | `cacheService.set` with the ttl of 30 s (64, 86, 106); its reply may be lost |
| `Fail` | a call that rejects; Better Auth's callback turns it into an `APIError` |
| `Die` | the process of the request dies. A crash takes all requests of its process: a sequence of `Die` steps with nothing in between, which is among the behaviours of the model |
| `DeleteUser`, `Tick` | the soft delete of a user; the clock |

`GetTtl` and `Limited` follow the code through `-2`, `null` and `0`: a key in
its last millisecond answers 0 and does not hold a request back. `checked`,
`added` and `wrote` are history: the times at which the request did each thing.

### EmailQueue and MailDelivery

`st[j]` is where BullMQ keeps a job. `job[w]` and `at[w]` are what a worker
executes and which call comes next, `lock[j]` the owner in Redis. A worker that
has lost its lock goes on executing; its report is refused (`Report`), while the
stalled check (`CheckStalled`) has given the job to another worker or failed it.
BullMQ is modelled from how the code configures it: concurrency 1, limiter (a
boolean: closed after a take until `LimiterOpens`), `attempts` (0 unless
configured, which is one attempt like 1), backoff (`delayed`, then `Promote`),
`stalledInterval`, and the default `maxStalledCount` of 1. The list of waiting
jobs is a set: nothing here depends on its order. `CallFails`, and the `threw`
outcome of `SendMail`, are the calls that reject, the latter after the mail
server took the mail. `AfterLookup` keeps the difference between `verifyEmail`,
which goes on without its user and throws (26-30), and the other two handlers,
which return.

`MailDelivery` is what the queue promises, without workers, locks or retries:
accept, deliver, complete, give up, and accounts that disappear. `EmailQueue`
implements it under the mapping `DeliveryState` (waiting, active and delayed are
*pending*), `mails` to itself, `Orphans`, and the bound `MaxExecutions` = the
attempts plus the stalls.

### SocketRegistry

`link` is the transport of a socket, `clients` the Maps of all processes (a
socket belongs to one), `session` the sockets whose `socket.session` names a
user, `registry[u]` the list in Redis. A handler that waits for Redis is an
element of `gets` or of `sets`; an element of `sets` carries the copy it is
going to write. `Disconnect` is the synchronous start of `handleDisconnect`: the
Map first, then the return when the session is gone. The reads of one process go
over one connection and are answered in order, so the read of a disconnect
follows the read of the connect of the same socket. Socket ids are never reused.
`SendTo` takes the list and the Map at one instant, though the code awaits the
list before it looks into the Map (`socket.service.ts` 13): the Map, which
decides who is sent to, is read last, and a list never holds another user's ids,
so an older list only leaves out sockets that were listed since. `causes[u]` is
history: what has happened to user `u`'s list that the code has no answer to,
namely a list read while another handler was about to write it (`overlap`), an
expired list, a failed call, a crash, a session replaced by null in the guard.
The properties say that the list is right unless one of *certain* causes has
occurred, a different set of causes for each property.

### CursorWalk

The server is stateless here; the state is the user table (`visible`, `gone`),
the client's last `page`, and the history of its present run in one direction:
what it has shown (`seen`), the cursors it has sent (`used`), and the users that
lay ahead when it began and are still there (`stayed`). `Fetch` is `paginate`:
`Matching` is the where clause (the after cursor wins over the before cursor),
`Nearest` the first rows in the order of the query, flipped for a before cursor,
with rows of equal `createdAt` in any order, and `Answer` the rules for the two
next cursors; an empty answer has neither. The limit is any integer, as the DTO's
`minimum: 1` only documents (`page-options.dto.ts` 14-19): `buildPaginator` drops
a limit of 0, and the paginator's own 100 stays (`Size`); -1 takes 0 rows, which
is no `LIMIT`, always has more than -1 rows and so drops the last one (`Left`,
`HasMore`); PostgreSQL refuses what is below (`Served`). `asked` is the limit of
the last answer: `OnlyBoundarySkipped` says that a limit of -1 loses at most one
user more, when the answer is empty. `createdAt` is a pair: the
milliseconds `Ms`, all that the JavaScript `Date` in a cursor keeps and all that
`date_trunc` compares, and the microseconds `Sub` that the database orders by.
A page is a set: its order is the query's. A client may send only the after
cursor or both; it may turn round at any page. Users appear with any
`createdAt`, also an older one, since it is set before their transaction
commits.

### UserLifecycle

A request is an element of `Requests`: `Op[r]` says whether it is an update, a
delete over REST or the mutation, `Caller[r]` whose session it presents and
`Target[r]` whose account it is about (its own for an update). `pc[r]` is the
call it makes next, and then its answer.

| action | code |
|---|---|
| `Guard` | `AuthGuard` for HTTP and GraphQL: 401 without a session (`auth.guard.ts` 59-88) |
| `FindUsername` | the lookup and the comparison that set `shouldChangeUsername` (101-108); 404 |
| `UpdateUser` | `betterAuthService.api.updateUser` (110-116) |
| `WriteNames` | `userRepository.update` (119-122), which writes a deleted row too |
| `ReadBack` | `findOneUser` for the answer (123, 72-84); 404 |
| `FindOrFail`, `SoftDelete` | the two calls of `deleteUser` (87, 88) and its answer (89) |
| `CallFails`, `Die` | a call that rejects, perhaps after it was carried out; the process dies |
| `EndSession` | a session in Redis expires or is signed out of |

Better Auth keeps a username in lower case (`Lower`), and the index of the user
table is unique among the accounts that are not deleted: that is all the model
assumes of a rename that is accepted, and any other refusal is a `CallFails`.
The names stand as one value, the request that wrote them last, so every update
writes them; `image`, which travels in the same call as the username, is left
out. `rename`, like the code's local variable, is the decision taken at the
lookup and used a call later. `changed`, `failed` and `met` are history: what a
request has written, whether a call of it failed, and which requests about the
same account ran while it did.

### MailBuild

`src[t]` is the number of the edit that made the present source of template `t`,
`out[t]` what its output holds: such a number, `Empty` between the opening of a
stream and its write, or `Torn`, when a stream has written over the beginning of
what another one wrote. The directory of the outputs is kept from run to run
(`mail.build.ts` 20-22), so a run may find outputs: whole ones (`Old`), or what
a killed run or overlapping builds have left. `earlier[t]` says that an output
is still that one, and whether its source was gone when this run began
(`orphan`): nothing will delete it then, unless the template comes back.
`build[t][i]` is a build under way; several builds of one template may be.
`Start` is the script up to its first await, `OnChange` and `OnUnlink` are the
handlers, `Render`, `Open` and `Write` what happens after the await of `render`
and inside the stream. The watcher is chokidar as the script configures it: it
is `notified` of a path, looks at it (`Stat`), and reports `change`, `add` or
`unlink` by what it finds and what it knows; `Scan` is its first look, which
`ignoreInitial` keeps silent. A build loads the source as it is when the event
is handled, not when it was noticed. A deleted output lives on under the streams
that have it open (`linked`). `overlapped` and `alone` are history: whether a
build had its template to itself, and whether the last output came from one that
had. `missed` remembers a source that changed before the first look. `Broken`
contents do not load, or load and do not render.

### Startup

One process, whose `stage` is how far it has come; `reason` says why it failed.

| action | code |
|---|---|
| `Import` | the evaluation of the modules that `main.ts` imports: the upload interceptor reads `NODE_ENV` (`file-upload.interceptor.ts` 19-25), then the gateway merges the .env (`dotenv/config`) and reads the CORS origin, and the adapter's clients read their configuration |
| `Describe` | `isWorker` and `AppModule.main()` or `worker()` (`main.ts` 41-51), whose `ConfigModule.forRoot` merges the .env again |
| `Validate` | the ten `validateConfig` calls; an invalid one throws |
| `CreateModules` | the factories of queue, cache, throttler and translations, with `getOrThrow`; the database, which may not be there after all retries |
| `Configure` | what bootstrap asks for and sets up (56-147) |
| `Listen` | port of the role (163-177); `listen` rejects `NaN`, and a port that is taken or refused |
| `Reject` | nothing catches the rejection (179): the process ends, or, with the listener that `Sentry.init` (134) installs when it has a usable DSN, warns and stays without a port (`stranded`) |
| `Stop`, `Restart` | a signal; pm2, or the restart policy of `docker-compose.yml` |

`env` maps each of the variables that configurations name (`Vars`) to what the
validators and parsers can tell apart: absent, empty, fit or unfit, two texts
that convert to a number and do not parse (`Unparsed`: spaces convert to 0,
`.1e1` to 1, and `parseInt` makes `NaN` of both), and for `NODE_ENV` the two
values on which bootstrap branches. The `...Rules` are the decorated classes,
`Accepted` says what class-validator lets through after class-transformer's
implicit conversion, by which an empty text is the number 0 and any text a
boolean. The `...Config` functions are what `getConfig` makes of the same value:
`parseInt` of an empty text is `NaN`. `NumbersServed` names, for every number of
the configuration but the other role's port, the values with which it is none in
a process that serves. `settings` is the .env, `deployment` where the process
runs and the `IS_WORKER` it is given: in the image pm2 sets `NODE_ENV` and there
is no .env, compose exports the .env to a container, a shell exports nothing
but, perhaps, `IS_WORKER`. The upload folder is chosen before the first merge,
so a process from a shell whose .env says production stores uploads in `src`
where the code means `dist`; `main.ts` serves `src` either way (112), and
`ServesConfigured` says that the two differ only where the process itself was
given production.

### FieldRules and Requests

`FieldRules` is a pure module: a field maps what a client may send (`Sent`, one
representative for each kind of value that some decorator treats in its own way)
to what the handler would get (`hand`), with what the validators accept
(`admitted`) and what is let through unasked (`skipped`). Each decorator of
`field.decorators.ts` is an operator of its options. That an optional field also
lets null through, whatever its `nullable` says, is class-validator's
`IsOptional` and is stated in `FieldsAdmit`. So is that `ToLowerCase` and
`ToUpperCase` make undefined of null (`transform.decorators.ts` 53-55, 74-76): a
nullable email, or a nullable text whose case is converted, refuses null unless it
is optional. The option `each`, which no DTO uses, is left out.

In `Requests` a request is at a stage: `hook` (Fastify's hook for the
documentation pages, and the proxy route of Better Auth, which Nest does not
see), `throttle`, `guard`, `receive` (Multer), `pipe` (ValidationPipe), `handle`,
`put` (puts to S3 under way), `ended` with its `answer`. The message of a
websocket goes from `handshake` (the middleware of `afterInit`) to `guard` and
`handle`: `APP_GUARD`, which makes the throttler global, does not reach gateways.

| action | code |
|---|---|
| `Throttle`, `ThrottleFails` | `AppThrottlerGuard`: a forwarded header decides between `ips` and `ip`; without `trustProxy` there are no `ips`, and the guard throws. An empty header is neither missing nor true, and leads to `ip` (`Tracker`), which with `trustProxy` is the leftmost address of `X-Forwarded-For` (`Ip`) |
| `Handshake`, `Guard`, `GuardFails` | `afterInit`'s middleware; `AuthGuard` on HTTP and GraphQL (401 without a session) and on a websocket, where null passes |
| `Receive` | the interceptor and the checks of `FileController`; a local upload is stored here, and a request without a file is refused, or trips over the missing list |
| `Put`, `PutFails` | `Promise.all` over the puts: the first failure answers, the other puts go on |
| `Pipe`, `Handle` | the DTO of the request; a handler that may fail |
| `EndSession`, `Expire`, `Crash` | a session ends, a window of the throttler is over, the process dies |

The throttler's count is the library's: a set of requests per route and tracker,
emptied when its window is over. It is modelled as enabled, with numbers for
limit and ttl. With `trustProxy` all clients behind the proxy share one window,
which `RateIsKept` says; it also says that a client that comes directly gets no
further than its limit, whatever address it forwards. Both hold except for
requests that forward an address beside an empty header where the proxy is
trusted (`Claims`): those are counted by the address they forward. No controller
or resolver is marked `Public` or `OptionalAuth`, so those two branches of the
guard are left out; an upload to the disk is one step, and a put that fails has
stored nothing (one that was stored and whose reply was lost would be one more
file of a failed upload); so are the hooks of `setupHooks`, which are never
registered because the options given to Better Auth have no `hooks` and
`onModuleInit` returns at once. `greeted`, `before` and `failed` are history.

### OffsetPages

A client asks for a page (`ReadPage`, `ReadCount`: the two queries of `paginate`)
and goes on to the next (`AskNext`) while `currentPage` is below `totalPages`, as
the answer never tells a next page: `nextPage` and `previousPage` are computed
(`offset-pagination.dto.ts` 34, 36) before `totalPages` is assigned (40), and are
undefined in every answer (`Pagination`, where 0 stands for undefined). No run is
about that, as it depends on nothing. Users are created and deleted between the
queries and between the pages. `Sorted` is the order of the query, `createdAt`
alone, in which users of one moment come in any order and in each query anew. The
DTO's `order` is not used by the query, its `minimum: 1` only documents: a limit
of 0 lists everybody on each page, page 0 is the first page once more, and a
negative limit or offset is refused by PostgreSQL (`ReadPageFails`). A deletion
moves everybody behind it one place forward, perhaps out of a page that is still
to be read, a creation one place back, perhaps into it: `WalkIsWhole` says that
nothing else makes a walk miss a user or list one again.

## What the runs show

| run | expected | properties | what it shows |
|---|---|---|---|
| `mail_cooldown` | pass | `TypeOK`, `EarlyMailNeedsOverlap`, `RefusedForSameMail` | What the check, add and set of the mail cooldown do guarantee while three requests about one user interleave, fail and lose their process, and the clock runs over more than one cooldown. |
| `mail_cooldown_promise` | violation | `OneMailPerCooldown` | The comment 'Rate limited to 1 email per 30 seconds' taken literally: two overlapping requests both find no marker and both add a job. |
| `email_queue` | pass | `TypeOK`, `CopiesAccounted`, `NotGivenUpEarly`, `KeepsDelivery`, `DeletedGetsNoMail`, `EveryJobSettles` | Two jobs and two workers with retries, crashes, lost locks, lost replies and a deleted account: the queue implements the promise of MailDelivery, safety and liveness. |
| `socket_registry` | pass | `TypeOK`, `OpenSocketReached`, `GhostHasCause`, `SentToOwnOpenSockets`, `ConnectedGetsListed` | Three sockets of two users on two processes connect and disconnect while Redis calls interleave and fail, lists expire, sessions end and processes die: when the list and the Maps still agree. |
| `cursor_walk` | pass | `TypeOK`, `PagesInOrder`, `OnlyBoundarySkipped` | A client walks forward and back over five users, some created in one millisecond or at the same time, with limits from -2 to 2, while users are created and deleted: what a run shows, repeats and misses. |
| `user_lifecycle` | pass | `TypeOK`, `OkShowsWhatWasAsked`, `RefusedChangedNothing`, `SecondDeleteFails`, `NotShownAfterDelete` | Two profile updates and two deletes of one account interleave while calls fail, processes die and sessions end: what an answer still says about the account. |
| `user_mutation` | violation | `MutationAnswersUser` | The declared type of the deleteUser mutation taken literally: a successful delete answers the number 200, not an account. |
| `mail_build` | pass | `TypeOK`, `FreshAtRest`, `TornNeedsOverlap`, `EmptyIsBeingWritten`, `ComesToRest` | A template is edited, broken, removed and made again while earlier builds of it render, open and write, in a directory that may hold what an earlier run left: when its output is the one of its newest source. |
| `startup` | pass | `TypeOK`, `RoleIsWhole`, `LateFailureIsKnown`, `ServesConfigured` | An API and a worker process start in the image, in a container and from a shell, with a complete .env or one in which one variable is missing, empty, unfit or a text that converts to a number without parsing: what serves, as which role, and where a start fails or leaves a process without a port. |
| `requests` | pass | `TypeOK`, `ServedHasOwner`, `RateIsKept`, `StoredIsAccounted`, `FieldsAdmit`, `EachAnswered` | Two requests over HTTP or a websocket, direct or through a proxy, pass the hooks, throttler, guard, upload and pipe while sessions end, windows expire, puts fail and the process dies; and what the fields of a body admit, for their options. |
| `guarded_session` | violation | `GuardedIsAuthenticated` | The comment of AuthGuard taken literally: on a websocket, unlike REST and GraphQL, a message is handled without a session. |
| `offset_pages` | pass | `PagesTypeOK`, `ListingIsTrue` | A client lists four users page by page, two of them created in the same moment, with limits and first pages down to -1, while users are created and deleted between the queries and the pages. |

Every property has a mutant, a plausible mistake in the code that TLC finds with
the same configuration: for instance a marker a tick short
(`SetMarkerShort`), a reset mail with the magic link's key (`KeyOfCopied`), a
report that does not look at the lock (`ReportUnlocked`), a disconnect handler
that returns before it updates the Map (`DisconnectReturnsFirst`). The variants
stand next to what they vary, marked "Faulty variant".

### Bounds, and why they are enough

* MailCooldown: a cooldown of 2 ticks and a clock up to 4, so that a marker is
  live, in its last instant and gone, and a second marker can follow a first;
  three requests, two for the same mail and one for another mail of the same
  user, the least for which interference within a kind and independence between
  kinds can both be seen. Requests `r1` and `r2` are interchangeable and `Symm`
  says so.
* EmailQueue: two attempts, one stall, two crashes or lost locks (`MaxFaults`,
  the only artificial bound: without it workers could crash for ever and no job
  would settle), two workers, one job of each behaviour without a user.
* CursorWalk: five users in three milliseconds, two of them a microsecond apart
  and two at the same time, with limits from -2 to 2, so that a page can end
  inside a millisecond and a run has up to three pages; 0 takes all five, as 100
  does. Users are created and deleted once each, and never reused.
* UserLifecycle: two updates and two deletes of one account, one delete over
  each interface, with sessions of two accounts; the updates ask for two
  usernames that are one in lower case, of which the account already has one, so
  that a rename is decided, needless, or decided on a value that has changed
  since. Every request runs once.
* MailBuild: one template, since templates share nothing but the count of edits;
  four edits (`MaxEdits`), the second of them broken, and room for four builds
  of the template at once (`Slots`): three builds can overlap and a fourth come
  after them. It begins with or without a source, and with every kind of output.
* Startup: a complete .env and every one that differs from it in one variable,
  which is absent, empty, unfit, or one of the two texts that convert without
  parsing; local and production, with and without `DATABASE_URL`; in the image,
  in a container and from a shell, as either role. Each check and each read
  looks at one variable, and variables meet only in `DATABASE_URL`, `NODE_ENV`
  and the role, so one deviation at a time shows what there is; the theorems
  cover every .env.
* Requests: two requests on all routes, a limit of 1, two clients that come
  directly or through the proxy, two files: enough for one request to use up the
  window of another, and for one put to fail while the other goes on. The second
  client and the headers, missing, empty or with an address, and what is
  forwarded beside them, are tried on one throttled route.
* OffsetPages: four users, two of them created in the same moment, with limits
  and first pages from -1 to 2: a page can end between the two, and a walk has
  up to four pages.
* SocketRegistry: two sockets of one user on two processes, so that handlers of
  one user overlap across processes, and a socket of another user on one of
  them. Nothing is counted, so there is no bound but the instance.

`CHECK_DEADLOCK FALSE` is set because these systems may come to rest: when all
requests are answered and the clock is at its bound, when all jobs are settled,
when all sockets are closed.

### Fairness

Safety properties need none. `EmailQueue`'s fairness says that a worker's
current call returns or rejects (`Execute`; clients have timeouts), that idle
workers keep polling (`Take`; a crashed one is restarted by the container
runtime), and that BullMQ's timers go off (`Promote`, `CheckStalled`,
`LimiterOpens`). It does not say that calls succeed: `CallFails` may happen
every time. `SocketRegistry`'s fairness says that a command sent to Redis is
answered; a failure, crash or expiry may still come first. `MailCooldown` has no
fairness and no liveness property: nothing in the code retries a request. Nor
has `CursorWalk`, where a client may stop at any page, or `UserLifecycle`, where a
request may die with its process. `MailBuild`'s fairness is the event loop's: what
has been started is continued. It says nothing of `Start`, or of edits.
`Startup` has none: a start is one sequence.
`Requests`' is that a request that has been sent is served: each awaited call
returns or rejects, as the clients of Redis, PostgreSQL and S3 have timeouts.
`OffsetPages` has none; its client may stop.

## What is proved

Each `...Proofs` module extends the module it is about. The assumptions are the
named ones on the constants: `CooldownAssumption` (types, a positive cooldown,
`Never` and `Null` are not numbers), `QueueAssumption` (types, finitely many
workers, `NoJob` and `NoWorker` are none of the jobs and workers) and
`RegistryAssumption` (types), `WalkAssumption` (a finite table, limits that are
integers), `LifecycleAssumption` (types, an update is about the caller,
usernames are different at first, lower case is stable), and `BuildAssumption`
(types, different values for no file, old, empty and torn), `SettingsAssumption`
(types), `RequestsAssumption` with `OffersAssumption` (types, finitely many
requests, the proxy is no client), and `PagesAssumption` (finitely many users,
limits and pages that are integers). Of the .env and of what is sent nothing
else is assumed. Nothing is assumed about the number of requests, jobs, workers,
sockets, users, processes or templates.

* **MailCooldownProofs**: `TypeCorrect`, `EarlyMailTheorem`, `RefusalTheorem`.
  The two properties are not inductive: that a mail is protected is a fact about
  the marker in Redis, not about the requests. `IInv` adds the order of a
  request's steps (`PcHistory`), that nothing is dated in the future, that the
  marker under a key outlasts the cooldown of every mail that wrote it
  (`MarkerProtects`) and was written by one (`MarkerHasWriter`), and that a
  request that was let through saw no live marker (`CheckedClear`). The lemmas
  `KeyInjective` and `LimitedIffLive` carry the facts about keys and about
  `getTtl`.
* **EmailQueueProofs**: `TypeCorrect`, `CopiesTheorem`, `NotGivenUpTheorem`,
  `DeletedTheorem`, `DeliveryTheorem`. The number of copies is bounded by
  counting executions: the mails that have left and the workers that may still
  send one (`Senders`) are covered by the attempts and stalls of the job and its
  present execution (`Covered`). `Holding` relates locks to what the workers
  execute, `Remaining` says that an unsettled job has attempts and stalls left,
  `ReturnEarned` that a handler returned after a mail or without its user.
  `DeliveryTheorem` is the refinement: the initial states of `EmailQueue` map to
  initial states of `MailDelivery`, and every step to a step or a stutter.
  `BoundedTheorem` and `UsedUpTheorem`: `Ahead` counts the changes of state that
  a job has left, from its attempts and stalls, and every change uses one up, so
  no crash or late report lets a job begin again; and an active job has a worker
  with its lock, or is there for the stalled check.
* **SocketRegistryProofs**: `TypeCorrect`, `OpenSocketTheorem`, `GhostTheorem`,
  `SendTheorem`. `IInv` says what the lists and the pending copies contain
  (`Bookkeeping`), that an undisturbed list has one writer at a time
  (`OneWriter`), that an open socket is on the list or its handler is under way
  and no pending copy lacks it (`OpenKept`), and that a closed socket still
  listed has a handler under way that will find it (`ClosedLeaves`).
  `RunsOnceTheorem`: a handler's `Phase` never goes back, and a list changes
  only by expiring and by the write that ends a handler; it needs that a handler
  under way is in one place, about to read or with one copy to write
  (`OnePlace`).
* **PaginationProofs**, for `CursorWalk`: `TypeCorrect`, `OrderTheorem`,
  `BoundaryTheorem`. `IInv` adds that a cursor is the millisecond of the page's
  oldest or newest row (`CursorsOfPage`) and that `stayed` is still in the
  table. The lemma `NearestIsAllOrSome` says that a page is all that matches, or
  is not empty and has a next cursor, or is what a limit of -1 leaves of a
  single row; `FetchAnswers` turns it into what a step needs: a row that matches
  and is not on the page is no nearer than the far end of the page.
* **UserLifecycleProofs**: `TypeCorrect`, `OkTheorem`, `RefusedTheorem`,
  `SecondDeleteTheorem`, `NotShownTheorem`. The first two properties speak of
  answers; `IInv` adds what holds on the way: requests about one account that
  are both under way have met (`RunningHaveMet`), so an update that has met no
  other finds its own work when it goes on (`KeepsOwnWork`); nothing is written
  before Better Auth has answered (`NothingYet`); a delete that answered 200 has
  deleted (`DeletedIsGone`), and one that is past its lookup by then has met it
  (`DeletesHaveMet`).
* **MailBuildProofs**: `TypeCorrect`, `FreshTheorem`, `TornTheorem`,
  `EmptyTheorem`. Templates do not touch each other, so `IInv` is a conjunction
  over templates of `Good(t)`, and the lemma `Frame` disposes of all templates
  but the one a step is about. Its core: a build that is alone, when the watcher
  has nothing more to report, has loaded the present source (`LoadedPresent`),
  or that source is broken; it writes a file it has just emptied
  (`AloneWritesEmpty`); what the watcher is about to report matches the source
  unless it has been notified again (`EventMatches`); and a template it does not
  know has no output but from builds that overlapped its deletion, or an orphan
  of an earlier run (`UnknownIsGone`). `BuildsEndTheorem`: every step leaves the
  watcher less to report of a template (`ToReport`, where an edit that is still
  to come counts), or leaves its builds as they are but for one that goes on
  (`ToBuild`).
* **StartupProofs**: `TypeCorrect`, `RoleTheorem`, `LateFailureTheorem`,
  `ServesTheorem`. The heart is `MergeTwice`: merging the .env a second time
  changes nothing, so what the imports and the role were read from is what the
  modules get (`MergedOnce`, `RoleRead`, `EarlyRead`); the upload folder, read
  before the first merge, is only tied to what the process was given
  (`GivenFirst`). From validation on the environment is valid (`ValidOnce`), and
  `ValidValues` and `ValidConnection` turn that into facts about single
  variables, `MissingIsKnown` into the two that may still be missing.
* **RequestsProofs**: `TypeCorrect`, `OwnerTheorem`, `RateTheorem`,
  `StoredTheorem`. `IInv` says of every request which routes its stage admits
  (`OnRoute`), whose it is (`Owned`), what an upload still waits for and that
  precisely the rest is stored (`Waiting`, `Stored`); of every window that it
  holds requests of its route and address (`CountedThere`), of which at most
  `Limit` were let through (`FewThrough`); and of a refused request that it
  found `Limit` others (`RefusedFor`). `TrackerIsSource`, that a request is
  counted at the address it comes from unless it claims one, leads from there to
  `RateIsKept`. The lemma `Moves` covers the steps that touch one request and
  nothing the throttler has counted. `FieldsTheorem` goes through the
  decorators: `Made` says of a field that its validator takes no more than its
  type, and that its conversion keeps a missing value what it is and null what
  it is or makes it one (`StringMade`); `MadeIsTrue` and `MadeIsLax` that such a
  field, and its optional form, does what `FieldsAdmit` says; `NumberKind`,
  `StringKinds`, `SimpleKinds` and `ClassKind` show each decorator to be so
  made, for all options. `ForwardTheorem`: a request only goes forward, by
  `Ahead` of its stage and then put by put, and an answer that was given stands.
* **PaginationProofs**, for `OffsetPages`: `PagesTypeCorrect`, `ListingTheorem`.
  The argument is about places: `Rank` of a user is its place in the order, one
  more than the rows that are newer, and `Covered` is how many places the walk
  has read. That a user of no shared moment is at its place, in whatever order
  the others come, is `PlaceOfUntied`, and `PageIsPart` says which places a page
  has. A delete lowers ranks, a creation raises them and counts as a push
  (`Pushes`), a page raises `Covered`. `NoneMissed`: as long as nobody newer is
  deleted, a user that is not listed has a place beyond `Covered`, and as the
  client goes on while the total tells of more (`CeilCovers`), none is left at
  the end. `NoneTwice`: how often a user was listed, plus its rank, is at most
  `Covered`, plus one and the pushes; a page that lists it again can only have
  been reached by pushes.

## Only model-checked

Liveness (`EveryJobSettles`, `ConnectedGetsListed`, `ComesToRest`,
`EachAnswered`) is checked by TLC on the instances above and not proved: the
prover does not reason about fairness and `ENABLED` here. For each the safety
half is proved: every change of a job's state (`UsedUpTheorem`), every step of a
request (`ForwardTheorem`) and of a build (`BuildsEndTheorem`) lowers what, with
finitely many files and slots, cannot fall for ever; and a connected socket
whose list is undisturbed is on it or has a handler under way (`OpenKept`),
which runs once (`RunsOnceTheorem`). What is left to TLC is that fairness makes
the next step happen.

## Disagreement with the documentation

`auth.service.ts:46`, 68 and 90: "Rate limited to 1 email per 30 seconds". Run
`mail_cooldown_promise` shows two overlapping requests that are both let
through. `EarlyMailNeedsOverlap` is what holds instead: an early second mail
means that the two requests overlapped, or that the first one's marker was never
written.

`auth.guard.ts:29-34`: "Validates if the current request is authenticated for all
REST, GraphQL & Websockets", and "throws an error otherwise". Run
`guarded_session` shows a websocket's message that is handled without a session:
the handshake had found one, it ended, and the guard stores the null it gets (51)
and returns true (56). `ServedHasOwner` is what holds instead: REST and GraphQL
handlers run for the client whose session was found, and a websocket's handler
runs without one only after a handshake that had found it.

`user.resolver.ts:37`: `@Mutation(() => UserSchema)`. Run `user_mutation` shows a
successful `deleteUser` over GraphQL that answers `HttpStatus.OK`
(`user.service.ts:89`), which is no account.

## Not modelled, and the plan

What would come next:

1. `EmailPipeline`: `MailCooldown` and `EmailQueue` composed, from the request to
   the mail. Its abstract specification would bound the mails of one user and
   kind by the requests that were let through, times the executions of a job.
   The two modules meet in one place, `emailQueue.add`, and are checked and
   proved on either side of it.
2. The migrations, up and down, interrupted between two. They run while the image
   is built, before any process serves.

Left out for good:

* what keeps no state and orders nothing: worker events and queue events (they
  log), the logger, Sentry and Grafana beyond their configuration, the
  decorators for Swagger and serialization, the markup of the mail templates,
  entity declarations, `createBasicAuthHeaders`, the list a CORS origin expands
  to;
* what no code reaches: the optional and public branches of the guard, the hooks
  of `setupHooks`, `storeGet` and `storeSet`, `skipCount` and `takeAll`,
  broadcasts through the Socket.IO adapter;
* what belongs to libraries and services, but for what the models name of it:
  Better Auth's own routes, TypeORM, BullMQ's own processes, S3.

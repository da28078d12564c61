------------------------------- MODULE Startup -------------------------------
(***************************************************************************)
(* The start of one process: the API server or the worker.  Its imports    *)
(* read the environment, merge the .env file into it midway (dotenv/config)*)
(* and read on; the role is read and the modules are described; then ten   *)
(* configurations are validated, the modules' factories and bootstrap      *)
(* itself ask for values, and the process listens.                         *)
(*                                                                         *)
(* A variable of the environment is told apart only by what the validators *)
(* and the parsers make of it: absent, empty, fit (of its kind; 'true' for *)
(* a boolean), two texts that convert to a number and parse as none, blank *)
(* (spaces convert to 0) and point ('.1e1' converts to 1), and unfit (any  *)
(* other text; 'false' for a boolean).  NODE_ENV has two more values, on   *)
(* which bootstrap branches.                                               *)
(***************************************************************************)
CONSTANT Settings  \* the contents of .env that are considered

Fit == {"fit", "local", "production"}
Unparsed == {"blank", "point"}
Present == Fit \union Unparsed \union {"empty", "unfit"}
Values == Present \union {"absent"}

-------------------------------------------------------------------------------
(* Validation.  plainToClass converts first: an empty text counts as the     *)
(* number 0, as a blank one does, and any text counts as a boolean.          *)

Accepted(kind) ==
  CASE kind \in {"string", "boolean"} -> Present
    [] kind = "nonEmpty"              -> Present \ {"empty"}
    [] kind = "number"                -> Fit \union Unparsed \union {"empty"}
    [] kind = "positive"              -> Fit \union {"point"}
    [] kind = "pattern"               -> Fit \union {"point", "empty"}
    [] kind \in {"enum", "url", "email"} -> Fit

Required(kind) == [kind |-> kind, optional |-> FALSE]
Optional(kind) == [kind |-> kind, optional |-> TRUE]

Passes(rule, value) ==
  \/ value \in Accepted(rule.kind)
  \/ rule.optional /\ value = "absent"

AppRules ==
  [NODE_ENV |-> Optional("enum"),       IS_HTTPS |-> Optional("boolean"),
   IS_WORKER |-> Optional("boolean"),   APP_NAME |-> Required("nonEmpty"),
   APP_URL |-> Optional("url"),         APP_PORT |-> Required("number"),
   PORT |-> Optional("number"),         APP_DEBUG |-> Optional("boolean"),
   APP_FALLBACK_LANGUAGE |-> Optional("string"),
   APP_LOGGING |-> Optional("boolean"), APP_LOG_LEVEL |-> Optional("string"),
   APP_LOG_SERVICE |-> Optional("enum"),
   APP_CORS_ORIGIN |-> Optional("pattern"),
   APP_LOCAL_FILE_UPLOAD |-> Optional("boolean")]

DatabaseConnectionRules ==
  [DATABASE_HOST |-> Required("string"),     DATABASE_PORT |-> Required("number"),
   DATABASE_PASSWORD |-> Required("string"), DATABASE_NAME |-> Required("string"),
   DATABASE_USERNAME |-> Required("string")]

DatabaseOptionRules ==
  [DATABASE_LOGGING |-> Optional("boolean"),
   DATABASE_MAX_CONNECTIONS |-> Optional("positive"),
   DATABASE_SSL_MODE |-> Optional("enum"),
   DATABASE_REJECT_UNAUTHORIZED |-> Optional("boolean"),
   DATABASE_CA |-> Optional("string"), DATABASE_KEY |-> Optional("string"),
   DATABASE_CERT |-> Optional("string")]

RedisRules ==
  [REDIS_HOST |-> Required("nonEmpty"),   REDIS_PORT |-> Optional("number"),
   REDIS_PASSWORD |-> Optional("string"), REDIS_TLS |-> Optional("boolean"),
   REDIS_REJECT_UNAUTHORIZED |-> Optional("boolean"),
   REDIS_CA |-> Optional("string"), REDIS_KEY |-> Optional("string"),
   REDIS_CERT |-> Optional("string")]

\* Faulty variant: the secret is declared optional.
AuthRulesLax ==
  [AUTH_SECRET |-> Optional("nonEmpty"),
   BASIC_AUTH_USERNAME |-> Optional("string"),
   BASIC_AUTH_PASSWORD |-> Required("nonEmpty"),
   GITHUB_CLIENT_ID |-> Required("nonEmpty"),
   GITHUB_CLIENT_SECRET |-> Optional("string")]

AuthRules ==
  [AUTH_SECRET |-> Required("nonEmpty"),
   BASIC_AUTH_USERNAME |-> Optional("string"),
   BASIC_AUTH_PASSWORD |-> Required("nonEmpty"),
   GITHUB_CLIENT_ID |-> Required("nonEmpty"),
   GITHUB_CLIENT_SECRET |-> Optional("string")]

MailRules ==
  [MAIL_HOST |-> Required("nonEmpty"), MAIL_PORT |-> Optional("number"),
   MAIL_USER |-> Optional("string"),   MAIL_PASSWORD |-> Optional("string"),
   MAIL_IGNORE_TLS |-> Required("boolean"), MAIL_SECURE |-> Required("boolean"),
   MAIL_REQUIRE_TLS |-> Required("boolean"),
   MAIL_DEFAULT_EMAIL |-> Required("email"),
   MAIL_DEFAULT_NAME |-> Required("string")]

QueueRules ==
  [QUEUE_REMOVE_ON_COMPLETE |-> Optional("boolean"),
   RETRY_ATTEMPTS_ON_FAIL |-> Optional("number")]

SentryRules ==
  [SENTRY_DSN |-> Optional("string"), SENTRY_LOGGING |-> Optional("boolean")]

ThrottlerRules ==
  [THROTTLER_ENABLED |-> Optional("boolean"),
   THROTTLER_LIMIT |-> Optional("number"), THROTTLER_TTL |-> Optional("number")]

AwsRules ==
  [AWS_REGION |-> Optional("string"), AWS_KEY |-> Optional("string"),
   AWS_SECRET |-> Optional("string"), AWS_S3_BUCKET |-> Optional("string")]

GrafanaRules ==
  [GRAFANA_USERNAME |-> Required("nonEmpty"),
   GRAFANA_PASSWORD |-> Required("nonEmpty")]

\* Variables that configurations read and no validator names.
Unvalidated ==
  {"APP_WORKER_PORT", "QUEUE_REMOVE_ON_FAIL", "QUEUE_FAILED_RETRY_ATTEMPTS"}

\* DATABASE_URL turns the rules of the connection off, by ValidateIf.
DatabaseRules(e) ==
  IF e["DATABASE_URL"] \in {"absent", "empty"}
  THEN {DatabaseConnectionRules, DatabaseOptionRules}
  ELSE {DatabaseOptionRules}

\* Faulty variant: the mail configuration is not in the list.
LoadedWithoutMail(e) ==
  {AppRules, RedisRules, AuthRules, QueueRules, SentryRules,
   ThrottlerRules, AwsRules, GrafanaRules} \union DatabaseRules(e)

\* The configurations that the application loads.
Loaded(e) ==
  {AppRules, RedisRules, AuthRules, MailRules, QueueRules, SentryRules,
   ThrottlerRules, AwsRules, GrafanaRules} \union DatabaseRules(e)

Valid(e) ==
  \A rules \in Loaded(e) : \A v \in DOMAIN rules : Passes(rules[v], e[v])

Vars ==
  Unvalidated \union {"DATABASE_URL"} \union DOMAIN DatabaseConnectionRules
  \union UNION {DOMAIN rules : rules \in
    {AppRules, RedisRules, AuthRules, MailRules, QueueRules, SentryRules,
     ThrottlerRules, AwsRules, GrafanaRules, DatabaseOptionRules}}

-------------------------------------------------------------------------------
(* What the configurations make of the environment.  A value that is not     *)
(* there is "undefined", a number that does not parse is "NaN".              *)

Text(value) == IF value = "absent" THEN "undefined" ELSE value
Or(value, default) == IF value \in {"absent", "empty"} THEN default ELSE value
Int(value) == IF value \in Fit THEN "number" ELSE "NaN"
True(value) == value = "fit"

CorsOrigin(value) == IF value \in {"absent", "empty"} THEN "false" ELSE value

AppConfig(e) ==
  [nodeEnv |-> Or(e["NODE_ENV"], "fit"), isHttps |-> True(e["IS_HTTPS"]),
   isWorker |-> True(e["IS_WORKER"]), name |-> Text(e["APP_NAME"]),
   url |-> Or(e["APP_URL"], "fit"), port |-> Int(e["APP_PORT"]),
   workerPort |-> Int(e["APP_WORKER_PORT"]),
   fallbackLanguage |-> Or(e["APP_FALLBACK_LANGUAGE"], "fit"),
   appLogging |-> True(e["APP_LOGGING"]),
   corsOrigin |-> CorsOrigin(e["APP_CORS_ORIGIN"])]

DatabaseConfig(e) ==
  [host |-> Text(e["DATABASE_HOST"]), database |-> Text(e["DATABASE_NAME"]),
   port |-> Int(Or(e["DATABASE_PORT"], "fit")),
   poolSize |-> Int(Or(e["DATABASE_MAX_CONNECTIONS"], "fit"))]

RedisConfig(e) ==
  [host |-> Text(e["REDIS_HOST"]), port |-> Int(e["REDIS_PORT"]),
   password |-> Text(e["REDIS_PASSWORD"]), tls |-> True(e["REDIS_TLS"])]

AuthConfig(e) ==
  [authSecret |-> Text(e["AUTH_SECRET"]),
   basicAuth |-> [username |-> Text(e["BASIC_AUTH_USERNAME"]),
                  password |-> Text(e["BASIC_AUTH_PASSWORD"])]]

MailConfig(e) ==
  [host |-> Text(e["MAIL_HOST"]), port |-> Int(Or(e["MAIL_PORT"], "fit"))]

ThrottlerConfig(e) ==
  [limit |-> Int(e["THROTTLER_LIMIT"]),
   ttl |-> IF True(e["THROTTLER_ENABLED"]) THEN Int(e["THROTTLER_TTL"])
           ELSE "number"]

SentryConfig(e) == [dsn |-> Text(e["SENTRY_DSN"])]

\* The attempts of a job.
QueueAttempts(e) == Int(Or(e["QUEUE_FAILED_RETRY_ATTEMPTS"], "fit"))

-------------------------------------------------------------------------------
(* The process.  In the image pm2 sets NODE_ENV and there is no .env; compose *)
(* exports the .env to a container and adds IS_WORKER; a shell exports        *)
(* nothing, or IS_WORKER alone.                                               *)

ASSUME SettingsAssumption == Settings \subseteq [Vars -> Values]

VARIABLES
  settings,    \* the .env that was prepared
  deployment,  \* where the process runs, and the IS_WORKER it is given
  env,         \* process.env
  stage,       \* how far bootstrap has come
  reason,      \* why bootstrap failed
  early,       \* what was read before the configurations were validated
  modules,     \* the modules that were described: "main" or "worker"
  serving      \* what bootstrap set up: adapter, port, swagger, shutdown hooks

vars == <<settings, deployment, env, stage, reason, early, modules, serving>>

Stages == {"exec", "imported", "described", "validated", "created",
           "configured", "listening", "stranded", "crashed", "stopped"}
Deployments ==
  [place : {"image", "container"}, worker : {"fit", "unfit"}]
    \union [place : {"shell"}, worker : {"absent", "fit"}]

Given(v) ==
  CASE v = "IS_WORKER" /\ deployment.worker # "absent" -> deployment.worker
    [] v = "NODE_ENV" /\ deployment.place = "image" -> "production"
    [] deployment.place = "shell" -> "absent"
    [] OTHER -> settings[v]
ProcessEnv == [v \in Vars |-> Given(v)]

NothingRead ==
  [uploads |-> "none", cors |-> "undefined", isWorker |-> FALSE,
   redis |-> RedisConfig([v \in Vars |-> "absent"])]
NothingServed ==
  [adapter |-> FALSE, port |-> "none", docs |-> FALSE, hooks |-> FALSE,
   files |-> "none"]

Init ==
  /\ settings \in Settings
  /\ deployment \in Deployments
  /\ env = ProcessEnv
  /\ stage = "exec" /\ reason = "none"
  /\ early = NothingRead /\ modules = "none" /\ serving = NothingServed

End(why) ==
  /\ stage' = "crashed" /\ reason' = why
  /\ UNCHANGED <<settings, deployment, env, early, modules, serving>>

Reach(next) ==
  stage' = next /\ UNCHANGED <<settings, deployment, reason>>

\* The .env does not replace what is there; the image has none.
Merged ==
  [v \in Vars |-> IF env[v] = "absent" /\ deployment.place # "image"
                  THEN settings[v] ELSE env[v]]

\* The folder in which the interceptor of the uploads stores files.
UploadDestination(e) == IF e["NODE_ENV"] = "production" THEN "dist" ELSE "src"

\* The Redis clients of the websocket adapter.
AdapterClients(e) == RedisConfig(e)

\* The imports: the upload interceptor is loaded first, then the gateway, whose
\* dotenv/config merges the .env, then the adapter.
Import ==
  /\ stage = "exec"
  /\ env' = Merged
  /\ early' = [early EXCEPT !.uploads = UploadDestination(env),
       !.cors = AppConfig(env').corsOrigin, !.redis = AdapterClients(env')]
  /\ Reach("imported") /\ UNCHANGED <<modules, serving>>

\* Faulty variant: the .env replaces what the process was given.
DescribeOverrides ==
  /\ stage = "imported"
  /\ early' = [early EXCEPT !.isWorker = AppConfig(env).isWorker]
  /\ modules' = IF early'.isWorker THEN "worker" ELSE "main"
  /\ env' = [v \in Vars |->
       IF settings[v] # "absent" /\ deployment.place # "image"
       THEN settings[v] ELSE env[v]]
  /\ Reach("described") /\ UNCHANGED serving

\* The role, and AppModule.main() or worker(), with ConfigModule.forRoot.
Describe ==
  /\ stage = "imported"
  /\ early' = [early EXCEPT !.isWorker = AppConfig(env).isWorker]
  /\ modules' = IF early'.isWorker THEN "worker" ELSE "main"
  /\ env' = Merged
  /\ Reach("described") /\ UNCHANGED serving

\* Every configuration is validated before any of them is used.
Validate ==
  /\ stage = "described"
  /\ \/ Valid(env) /\ Reach("validated") /\ UNCHANGED <<env, early, modules, serving>>
     \/ ~Valid(env) /\ End("invalid")

\* What the factories of the modules ask for with getOrThrow.
QueueReads ==
  {RedisConfig(env).host, RedisConfig(env).port, RedisConfig(env).password}
CacheReads ==
  {RedisConfig(env).host, RedisConfig(env).port, RedisConfig(env).password}
LimitReads == {ThrottlerConfig(env).ttl, ThrottlerConfig(env).limit}
TranslationReads == {AppConfig(env).fallbackLanguage}

\* Both roles have the queue and the cache, the API has the rest.
FactoryReads ==
  QueueReads \union CacheReads
    \union IF modules = "worker" THEN {} ELSE LimitReads \union TranslationReads

\* The database may not be there, after all retries.
CreateModules ==
  /\ stage = "validated"
  /\ \/ /\ "undefined" \notin FactoryReads
        /\ Reach("created") /\ UNCHANGED <<env, early, modules, serving>>
     \/ "undefined" \in FactoryReads /\ End("missing")
     \/ "undefined" \notin FactoryReads /\ End("unreachable")

Documented == AppConfig(env).nodeEnv # "production"

DocumentationReads == {AppConfig(env).name, AppConfig(env).url}

\* What bootstrap asks for with getOrThrow.
BootstrapReads ==
  {AuthConfig(env).authSecret, AppConfig(env).corsOrigin,
   AppConfig(env).nodeEnv, SentryConfig(env).dsn}
    \union IF Documented THEN DocumentationReads ELSE {}

Configure ==
  /\ stage = "created"
  /\ \/ /\ "undefined" \notin BootstrapReads
        /\ serving' = [serving EXCEPT !.adapter = ~early.isWorker,
             !.docs = Documented, !.hooks = AppConfig(env).nodeEnv # "local",
             !.files = "src"]
        /\ Reach("configured") /\ UNCHANGED <<env, early, modules>>
     \/ "undefined" \in BootstrapReads /\ End("missing")

Port == IF early.isWorker THEN "APP_WORKER_PORT" ELSE "APP_PORT"
PortNumber ==
  IF early.isWorker THEN AppConfig(env).workerPort ELSE AppConfig(env).port

\* Sentry.init has put a listener on unhandled rejections, if it has a usable DSN.
Reported == SentryConfig(env).dsn \in Fit

\* A rejected bootstrap ends the process, unless there is that listener: it
\* warns, and the process stays without a port.
Reject(why) ==
  /\ stage' = IF Reported THEN "stranded" ELSE "crashed"
  /\ reason' = why
  /\ UNCHANGED <<settings, deployment, env, early, modules, serving>>

\* Faulty variant: the value that is no port is taken for the reason.
ListenValue ==
  /\ stage = "configured"
  /\ \/ /\ PortNumber = "number"
        /\ serving' = [serving EXCEPT !.port = Port]
        /\ Reach("listening") /\ UNCHANGED <<env, early, modules>>
     \/ PortNumber = "number" /\ Reject("taken")
     \/ PortNumber # "number" /\ Reject(PortNumber)

\* NaN is no port, and a port may be taken or refused: listen rejects.
Listen ==
  /\ stage = "configured"
  /\ \/ /\ PortNumber = "number"
        /\ serving' = [serving EXCEPT !.port = Port]
        /\ Reach("listening") /\ UNCHANGED <<env, early, modules>>
     \/ PortNumber = "number" /\ Reject("taken")
     \/ PortNumber # "number" /\ Reject("port")

\* A signal: with the shutdown hooks the process closes first.
Stop ==
  /\ stage \in {"listening", "stranded"} /\ stage' = "stopped"
  /\ UNCHANGED <<settings, deployment, env, reason, early, modules, serving>>

\* pm2 or the container's policy starts the process again.
Restart ==
  /\ stage \in {"crashed", "stopped"}
  /\ env' = ProcessEnv /\ stage' = "exec" /\ reason' = "none"
  /\ early' = NothingRead /\ modules' = "none" /\ serving' = NothingServed
  /\ UNCHANGED <<settings, deployment>>

Bootstrap ==
  Import \/ Describe \/ Validate \/ CreateModules \/ Configure \/ Listen
Next == Bootstrap \/ Stop \/ Restart
Spec == Init /\ [][Next]_vars

-------------------------------------------------------------------------------

(* Properties.                                                               *)

Redis ==
  [host : Values \union {"undefined"}, port : {"number", "NaN"},
   password : Values \union {"undefined"}, tls : BOOLEAN]

\* The types of the variables.
TypeOK ==
  /\ settings \in [Vars -> Values] /\ deployment \in Deployments
  /\ env \in [Vars -> Values]
  /\ stage \in Stages
  /\ reason \in {"none", "invalid", "missing", "unreachable", "port", "taken"}
  /\ early \in [uploads : {"none", "src", "dist"}, isWorker : BOOLEAN,
                cors : Values \union {"undefined", "false"}, redis : Redis]
  /\ modules \in {"none", "main", "worker"}
  /\ serving \in [adapter : BOOLEAN, docs : BOOLEAN, hooks : BOOLEAN,
                  files : {"none", "src"},
                  port : {"none", "APP_PORT", "APP_WORKER_PORT"}]

\* A process that serves is wholly the API or wholly the worker: its modules,
\* its websocket adapter and its port agree, and they agree with the
\* configuration that the modules are given (app.isWorker), although bootstrap
\* read the role before that was validated and the .env was merged twice.
RoleIsWhole ==
  stage = "listening" =>
    /\ modules = "worker" <=> ~serving.adapter
    /\ modules = "worker" <=> serving.port = "APP_WORKER_PORT"
    /\ modules = "worker" <=> AppConfig(env).isWorker

\* Once the configurations are valid, bootstrap fails for want of a value only
\* where validation is laxer than the use: SENTRY_DSN and REDIS_PASSWORD are
\* optional and asked for, an APP_PORT that is empty or converts without
\* parsing is no port, and APP_WORKER_PORT is not validated.
LateFailureIsKnown ==
  stage \in {"crashed", "stranded"} =>
    /\ reason = "missing" =>
         env["SENTRY_DSN"] = "absent" \/ env["REDIS_PASSWORD"] = "absent"
    /\ reason = "port" =>
         IF modules = "worker" THEN env["APP_WORKER_PORT"] \notin Fit
         ELSE env["APP_PORT"] \in Unparsed \union {"empty"}

\* The only variables that can be no number in a process that serves.  Those
\* with a default are so where a text converts and does not parse, those
\* without one also where they are left out; the window of the throttler counts
\* only while it is enabled; DATABASE_URL stands for the connection; the job
\* attempts are not validated.
NumbersServed ==
  /\ MailConfig(env).port = "NaN" => env["MAIL_PORT"] \in Unparsed
  /\ DatabaseConfig(env).poolSize = "NaN" =>
       env["DATABASE_MAX_CONNECTIONS"] = "point"
  /\ DatabaseConfig(env).port = "NaN" =>
       \/ env["DATABASE_PORT"] \in Unparsed
       \/ env["DATABASE_URL"] \notin {"absent", "empty"}
  /\ RedisConfig(env).port = "NaN" =>
       env["REDIS_PORT"] \in Unparsed \union {"absent", "empty"}
  /\ ThrottlerConfig(env).limit = "NaN" =>
       env["THROTTLER_LIMIT"] \in Unparsed \union {"absent", "empty"}
  /\ ThrottlerConfig(env).ttl = "NaN" =>
       /\ env["THROTTLER_ENABLED"] = "fit"
       /\ env["THROTTLER_TTL"] \in Unparsed \union {"absent", "empty"}
  /\ QueueAttempts(env) = "NaN" =>
       env["QUEUE_FAILED_RETRY_ATTEMPTS"] \in Unparsed \union {"unfit"}

\* A process that serves has a secret, a password for its documentation, a
\* Redis host, a mail host and a database host, but for the host where
\* DATABASE_URL is set; every number of its configuration, the other role's port
\* aside, is one, but for the texts that NumbersServed names.  The gateway's
\* origins and the Redis clients, read by the imports, are those of the
\* configuration; local uploads go to the folder that is served, except where
\* the process itself was given the production NODE_ENV.
ServesConfigured ==
  stage = "listening" =>
    /\ {AuthConfig(env).authSecret, AuthConfig(env).basicAuth.password,
        RedisConfig(env).host, MailConfig(env).host}
         \intersect {"undefined", "empty"} = {}
    /\ DatabaseConfig(env).host = "undefined" =>
         env["DATABASE_URL"] \notin {"absent", "empty"}
    /\ NumbersServed
    /\ early.redis = RedisConfig(env) /\ early.cors = AppConfig(env).corsOrigin
    /\ early.uploads # serving.files => Given("NODE_ENV") = "production"

===============================================================================

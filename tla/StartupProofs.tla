---------------------------- MODULE StartupProofs ----------------------------
(***************************************************************************)
(* Proofs about Startup, for any contents of .env.  What the imports and   *)
(* the role were read from is what the modules get, since merging the .env *)
(* a second time changes nothing; and what validation has let through once *)
(* stays let through.                                                      *)
(***************************************************************************)
EXTENDS Startup, TLAPS

Loading  == {"imported", "described", "validated", "created", "configured", "listening"}
Building == {"described", "validated", "created", "configured", "listening"}
Valued   == {"validated", "created", "configured", "listening"}

\* The second merge finds nothing to do.
MergedOnce == stage = "imported" => Merged = env

\* The role is that of the environment, and the modules have it.
RoleRead ==
  stage \in Building =>
    /\ early.isWorker = AppConfig(env).isWorker
    /\ modules = IF early.isWorker THEN "worker" ELSE "main"

\* What bootstrap set up follows the role.
RoleServed ==
  /\ stage \in {"configured", "listening"} => serving.adapter = ~early.isWorker
  /\ stage = "listening" => serving.port = Port

\* What the imports read is what there is now; the upload folder was read first.
EarlyRead ==
  stage \in Loading =>
    /\ early.redis = RedisConfig(env) /\ early.cors = AppConfig(env).corsOrigin
    /\ early.uploads = "src" \/ Given("NODE_ENV") = "production"

\* From validation on the environment is valid, and the values asked for exist.
ValidOnce ==
  /\ stage \in Valued => Valid(env)
  /\ stage = "created" => "undefined" \notin FactoryReads
  /\ stage \in {"configured", "listening"} =>
       /\ "undefined" \notin BootstrapReads
       /\ serving.files = "src"

\* Why bootstrap failed.
KnownEnd ==
  stage \in {"crashed", "stranded"} =>
    /\ reason = "missing" =>
         Valid(env) /\ "undefined" \in FactoryReads \union BootstrapReads
    /\ reason = "port" =>
         /\ Valid(env) /\ PortNumber # "number"
         /\ modules = IF early.isWorker THEN "worker" ELSE "main"

\* A process starts with what it was given.
GivenFirst == stage = "exec" => env = ProcessEnv

IInv ==
  /\ TypeOK
  /\ GivenFirst
  /\ MergedOnce
  /\ RoleRead
  /\ RoleServed
  /\ EarlyRead
  /\ ValidOnce
  /\ KnownEnd

-------------------------------------------------------------------------------

LEMMA Names ==
  /\ {"IS_WORKER", "NODE_ENV", "APP_NAME", "APP_URL", "APP_PORT", "APP_CORS_ORIGIN",
      "APP_FALLBACK_LANGUAGE", "APP_LOGGING"} \subseteq Vars
  /\ {"REDIS_HOST", "REDIS_PORT", "REDIS_PASSWORD", "REDIS_TLS"} \subseteq Vars
  /\ {"APP_WORKER_PORT", "QUEUE_FAILED_RETRY_ATTEMPTS", "DATABASE_URL"} \subseteq Vars
  /\ {"THROTTLER_ENABLED", "THROTTLER_TTL", "DATABASE_PORT"} \subseteq Vars
<1>1. DOMAIN AppRules \subseteq Vars /\ DOMAIN RedisRules \subseteq Vars
  BY DEF Vars
<1>2. Unvalidated \union {"DATABASE_URL"} \subseteq Vars
  BY DEF Vars
<1>3. {"IS_WORKER", "NODE_ENV", "APP_NAME", "APP_URL", "APP_PORT", "APP_CORS_ORIGIN",
      "APP_FALLBACK_LANGUAGE", "APP_LOGGING"} \subseteq DOMAIN AppRules
  BY DEF AppRules
<1>4. {"REDIS_HOST", "REDIS_PORT", "REDIS_PASSWORD", "REDIS_TLS"}
        \subseteq DOMAIN RedisRules
  BY DEF RedisRules
<1>5. {"THROTTLER_ENABLED", "THROTTLER_TTL", "DATABASE_PORT"} \subseteq Vars
  <2>1. DOMAIN ThrottlerRules \subseteq Vars
        /\ DOMAIN DatabaseConnectionRules \subseteq Vars
    BY DEF Vars
  <2> QED BY <2>1 DEF ThrottlerRules, DatabaseConnectionRules
<1> QED BY <1>1, <1>2, <1>3, <1>4, <1>5 DEF Unvalidated

\* What the configurations read by the imports are.
LEMMA ReadTypes ==
  ASSUME NEW e \in [Vars -> Values]
  PROVE  /\ RedisConfig(e) \in Redis
         /\ AppConfig(e).corsOrigin \in Values \union {"undefined", "false"}
         /\ AppConfig(e).isWorker \in BOOLEAN
         /\ UploadDestination(e) \in {"none", "src", "dist"}
<1>1. e["REDIS_HOST"] \in Values /\ e["REDIS_PASSWORD"] \in Values
      /\ e["APP_CORS_ORIGIN"] \in Values
  BY Names
<1>2. RedisConfig(e) \in Redis
  BY <1>1 DEF RedisConfig, Redis, Text, Int, True
<1>3. AppConfig(e).corsOrigin \in Values \union {"undefined", "false"}
  BY <1>1 DEF AppConfig, CorsOrigin
<1>4. AppConfig(e).isWorker \in BOOLEAN
  BY DEF AppConfig, True
<1>5. UploadDestination(e) \in {"none", "src", "dist"}
  BY DEF UploadDestination
<1> QED BY <1>2, <1>3, <1>4, <1>5

\* The environment of a process, and what is merged into it.
LEMMA EnvTypes ==
  ASSUME settings \in [Vars -> Values], deployment \in Deployments
  PROVE  /\ ProcessEnv \in [Vars -> Values]
         /\ env \in [Vars -> Values] => Merged \in [Vars -> Values]
<1>1. \A v \in Vars : settings[v] \in Values
  OBVIOUS
<1>2. {"fit", "unfit", "absent", "production"} \subseteq Values
  BY DEF Values, Present, Unparsed, Fit
<1>3. deployment.worker \in {"fit", "unfit", "absent"}
  BY DEF Deployments
<1>4. \A v \in Vars : Given(v) \in Values
  BY <1>1, <1>2, <1>3 DEF Given
<1>5. ProcessEnv \in [Vars -> Values]
  BY <1>4 DEF ProcessEnv
<1>6. env \in [Vars -> Values] => Merged \in [Vars -> Values]
  BY <1>1 DEF Merged
<1> QED BY <1>5, <1>6

\* A second merge changes nothing.
LEMMA MergeTwice ==
  ASSUME env' = Merged, settings' = settings, deployment' = deployment
  PROVE  Merged' = env'
<1>1. env' = [v \in Vars |-> IF env[v] = "absent" /\ deployment.place # "image"
                            THEN settings[v] ELSE env[v]]
  BY DEF Merged
<1>2. \A v \in Vars : (IF env'[v] = "absent" /\ deployment.place # "image"
                       THEN settings[v] ELSE env'[v]) = env'[v]
  BY <1>1
<1>3. Merged' = [v \in Vars |-> IF env'[v] = "absent" /\ deployment.place # "image"
                               THEN settings[v] ELSE env'[v]]
  BY DEF Merged
<1>4. Merged' = [v \in Vars |-> env'[v]]
  BY <1>2, <1>3
<1> QED BY <1>1, <1>4

\* Where the upload folder is not the served one, the process was given the
\* production NODE_ENV itself.
LEMMA FolderGiven ==
  ASSUME env = ProcessEnv
  PROVE  UploadDestination(env) = "src" \/ Given("NODE_ENV") = "production"
<1>1. env["NODE_ENV"] = Given("NODE_ENV")
  BY Names DEF ProcessEnv
<1> QED BY <1>1 DEF UploadDestination

-------------------------------------------------------------------------------

LEMMA InitIInv == Init => IInv
<1> SUFFICES ASSUME Init PROVE IInv
  OBVIOUS
<1>1. settings \in [Vars -> Values] /\ deployment \in Deployments
  BY SettingsAssumption DEF Init
<1>2. env \in [Vars -> Values]
  BY <1>1, EnvTypes DEF Init
<1>3. [v \in Vars |-> "absent"] \in [Vars -> Values]
  BY DEF Values
<1>4. RedisConfig([v \in Vars |-> "absent"]) \in Redis
  BY <1>3, ReadTypes
<1>5. TypeOK
  BY <1>1, <1>2, <1>4 DEF Init, TypeOK, Stages, NothingRead, NothingServed
<1> QED
  BY <1>5 DEF Init, IInv, MergedOnce, RoleRead, RoleServed, EarlyRead, ValidOnce,
     KnownEnd, GivenFirst, Building, Loading, Valued

LEMMA ImportIInv == IInv /\ Import => IInv'
<1> SUFFICES ASSUME IInv, Import PROVE IInv'
  OBVIOUS
<1>1. TypeOK /\ settings' = settings /\ deployment' = deployment
      /\ stage = "exec" /\ stage' = "imported" /\ env' = Merged /\ reason' = reason
      /\ modules' = modules /\ serving' = serving
  BY DEF IInv, Import, Reach
<1>2. env' \in [Vars -> Values]
  BY <1>1, EnvTypes DEF TypeOK
<1>3. early' = [early EXCEPT !.uploads = UploadDestination(env),
         !.cors = AppConfig(env').corsOrigin, !.redis = RedisConfig(env')]
  BY DEF Import, AdapterClients
<1>4. /\ RedisConfig(env') \in Redis
      /\ AppConfig(env').corsOrigin \in Values \union {"undefined", "false"}
      /\ UploadDestination(env) \in {"none", "src", "dist"}
  BY <1>1, <1>2, ReadTypes DEF TypeOK
<1>5. TypeOK'
  BY <1>1, <1>2, <1>3, <1>4 DEF TypeOK, Stages
<1>6. MergedOnce'
  BY <1>1, MergeTwice DEF MergedOnce
<1>7. EarlyRead'
  <2>1. early'.uploads = UploadDestination(env) /\ early'.redis = RedisConfig(env')
        /\ early'.cors = AppConfig(env').corsOrigin
    BY <1>1, <1>3 DEF TypeOK
  <2>2. UploadDestination(env) = "src" \/ Given("NODE_ENV")' = "production"
    <3>1. Given("NODE_ENV")' = Given("NODE_ENV")
      BY <1>1 DEF Given
    <3> QED BY <1>1, <3>1, FolderGiven DEF IInv, GivenFirst
  <2> QED BY <2>1, <2>2 DEF EarlyRead
<1> QED
  BY <1>1, <1>5, <1>6, <1>7 DEF IInv, RoleRead, RoleServed, ValidOnce, KnownEnd,
     GivenFirst, Building, Valued

\* What depends on the environment and the role alone stays with them.
LEMMA SameReads ==
  ASSUME env' = env, modules' = modules
  PROVE  FactoryReads' = FactoryReads /\ BootstrapReads' = BootstrapReads
<1>1. FactoryReads' = FactoryReads
  BY DEF FactoryReads, QueueReads, CacheReads, LimitReads, TranslationReads
<1>2. BootstrapReads' = BootstrapReads
  BY DEF BootstrapReads, Documented, DocumentationReads
<1> QED BY <1>1, <1>2

LEMMA SamePort ==
  ASSUME env' = env, early'.isWorker = early.isWorker
  PROVE  Port' = Port /\ PortNumber' = PortNumber
BY DEF Port, PortNumber

LEMMA SameGiven ==
  ASSUME settings' = settings, deployment' = deployment
  PROVE  Given("NODE_ENV")' = Given("NODE_ENV")
BY DEF Given

LEMMA DescribeIInv == IInv /\ Describe => IInv'
<1> SUFFICES ASSUME IInv, Describe PROVE IInv'
  OBVIOUS
<1>1. /\ settings' = settings /\ deployment' = deployment /\ reason' = reason
      /\ stage = "imported" /\ stage' = "described"
      /\ env' = env /\ serving' = serving
      /\ early' = [early EXCEPT !.isWorker = AppConfig(env).isWorker]
      /\ modules' = IF early'.isWorker THEN "worker" ELSE "main"
  BY DEF IInv, MergedOnce, Describe, Reach
<1>2. TypeOK'
  BY <1>1, ReadTypes DEF IInv, TypeOK, Stages
<1>3. RoleRead'
  BY <1>1 DEF IInv, TypeOK, RoleRead
<1>4. EarlyRead'
  BY <1>1, SameGiven DEF IInv, TypeOK, EarlyRead, Loading
<1> QED
  BY <1>1, <1>2, <1>3, <1>4 DEF IInv, GivenFirst, MergedOnce, RoleServed,
     ValidOnce, KnownEnd, Valued

\* What a step that only moves on, or ends the process, has to show.
LEMMA Onward ==
  ASSUME IInv, env' = env, modules' = modules, early' = early, reason' = reason,
         settings' = settings, deployment' = deployment,
         stage \in Building, stage' \in Valued,
         serving' \in [adapter : BOOLEAN, docs : BOOLEAN, hooks : BOOLEAN,
                       files : {"none", "src"},
                       port : {"none", "APP_PORT", "APP_WORKER_PORT"}],
         RoleServed', ValidOnce'
  PROVE  IInv'
<1>1. TypeOK'
  BY DEF IInv, TypeOK, Stages, Valued
<1>2. RoleRead'
  BY DEF IInv, RoleRead
<1>3. EarlyRead'
  BY SameGiven DEF IInv, EarlyRead, Loading, Building
<1> QED
  BY <1>1, <1>2, <1>3 DEF IInv, GivenFirst, MergedOnce, KnownEnd, Valued

LEMMA EndIInv ==
  ASSUME IInv, NEW why \in {"invalid", "missing"}, End(why),
         stage \in Building,
         why = "missing" =>
           Valid(env) /\ "undefined" \in FactoryReads \union BootstrapReads
  PROVE  IInv'
<1>1. /\ stage' = "crashed" /\ reason' = why
      /\ settings' = settings /\ deployment' = deployment /\ env' = env
      /\ early' = early /\ modules' = modules /\ serving' = serving
  BY DEF End
<1>2. TypeOK'
  BY <1>1 DEF IInv, TypeOK, Stages
<1>3. KnownEnd'
  BY <1>1, SameReads, SamePort DEF IInv, KnownEnd, RoleRead
<1> QED
  BY <1>1, <1>2, <1>3 DEF IInv, GivenFirst, MergedOnce, RoleRead, RoleServed,
     EarlyRead, ValidOnce, Building, Loading, Valued

LEMMA ValidateIInv == IInv /\ Validate => IInv'
<1> SUFFICES ASSUME IInv, Validate PROVE IInv'
  OBVIOUS
<1>1. stage = "described"
  BY DEF Validate
<1>2. CASE Valid(env) /\ Reach("validated") /\ UNCHANGED <<env, early, modules, serving>>
  <2>1. RoleServed' /\ ValidOnce'
    BY <1>2 DEF Reach, RoleServed, ValidOnce, Valued
  <2> QED BY <1>1, <1>2, <2>1, Onward DEF IInv, TypeOK, Reach, Building, Valued
<1>3. CASE ~Valid(env) /\ End("invalid")
  BY <1>1, <1>3, EndIInv DEF Building
<1> QED BY <1>2, <1>3 DEF Validate

LEMMA UnreachableIInv ==
  ASSUME IInv, End("unreachable"), stage \in Building
  PROVE  IInv'
<1>1. /\ stage' = "crashed" /\ reason' = "unreachable"
      /\ settings' = settings /\ deployment' = deployment /\ env' = env
      /\ early' = early /\ modules' = modules /\ serving' = serving
  BY DEF End
<1>2. TypeOK'
  BY <1>1 DEF IInv, TypeOK, Stages
<1> QED
  BY <1>1, <1>2 DEF IInv, GivenFirst, MergedOnce, RoleRead, RoleServed, KnownEnd,
     EarlyRead, ValidOnce, Building, Loading, Valued

LEMMA CreateModulesIInv == IInv /\ CreateModules => IInv'
<1> SUFFICES ASSUME IInv, CreateModules PROVE IInv'
  OBVIOUS
<1>1. stage = "validated" /\ Valid(env)
  BY DEF IInv, CreateModules, ValidOnce, Valued
<1>2. CASE /\ "undefined" \notin FactoryReads
           /\ Reach("created") /\ UNCHANGED <<env, early, modules, serving>>
  <2>1. ValidOnce'
    BY <1>1, <1>2, SameReads DEF Reach, ValidOnce, Valued
  <2>2. RoleServed'
    BY <1>2 DEF Reach, RoleServed
  <2> QED BY <1>1, <1>2, <2>1, <2>2, Onward DEF IInv, TypeOK, Reach, Building, Valued
<1>3. CASE "undefined" \in FactoryReads /\ End("missing")
  BY <1>1, <1>3, EndIInv DEF Building
<1>4. CASE "undefined" \notin FactoryReads /\ End("unreachable")
  BY <1>1, <1>4, UnreachableIInv DEF Building
<1> QED BY <1>2, <1>3, <1>4 DEF CreateModules

LEMMA ConfigureIInv == IInv /\ Configure => IInv'
<1> SUFFICES ASSUME IInv, Configure PROVE IInv'
  OBVIOUS
<1>1. stage = "created" /\ Valid(env)
  BY DEF IInv, Configure, ValidOnce, Valued
<1>2. CASE /\ "undefined" \notin BootstrapReads
           /\ serving' = [serving EXCEPT !.adapter = ~early.isWorker,
                !.docs = Documented, !.hooks = AppConfig(env).nodeEnv # "local",
                !.files = "src"]
           /\ Reach("configured") /\ UNCHANGED <<env, early, modules>>
  <2>1. Documented \in BOOLEAN /\ early.isWorker \in BOOLEAN
    BY DEF Documented, IInv, TypeOK
  <2>2. /\ serving' \in [adapter : BOOLEAN, docs : BOOLEAN, hooks : BOOLEAN,
                         files : {"none", "src"},
                         port : {"none", "APP_PORT", "APP_WORKER_PORT"}]
        /\ serving'.adapter = ~early.isWorker /\ serving'.files = "src"
    BY <1>2, <2>1 DEF IInv, TypeOK
  <2>3. ValidOnce'
    BY <1>1, <1>2, <2>2, SameReads DEF Reach, ValidOnce, Valued
  <2>4. RoleServed'
    BY <1>2, <2>2 DEF Reach, RoleServed
  <2> QED BY <1>1, <1>2, <2>2, <2>3, <2>4, Onward DEF Reach, Building, Valued
<1>3. CASE "undefined" \in BootstrapReads /\ End("missing")
  BY <1>1, <1>3, EndIInv DEF Building
<1> QED BY <1>2, <1>3 DEF Configure

\* A rejected listen ends the process or strands it.
LEMMA RejectIInv ==
  ASSUME IInv, NEW why \in {"taken", "port"}, Reject(why),
         stage \in Building, Valid(env), why = "port" => PortNumber # "number"
  PROVE  IInv'
<1>1. /\ stage' \in {"crashed", "stranded"} /\ reason' = why
      /\ settings' = settings /\ deployment' = deployment /\ env' = env
      /\ early' = early /\ modules' = modules /\ serving' = serving
  BY DEF Reject
<1>2. TypeOK'
  BY <1>1 DEF IInv, TypeOK, Stages
<1>3. KnownEnd'
  BY <1>1, SamePort DEF IInv, KnownEnd, RoleRead
<1> QED
  BY <1>1, <1>2, <1>3 DEF IInv, GivenFirst, MergedOnce, RoleRead, RoleServed,
     EarlyRead, ValidOnce, Building, Loading, Valued

LEMMA ListenIInv == IInv /\ Listen => IInv'
<1> SUFFICES ASSUME IInv, Listen PROVE IInv'
  OBVIOUS
<1>1. stage = "configured" /\ Valid(env)
  BY DEF IInv, Listen, ValidOnce, Valued
<1>2. CASE /\ PortNumber = "number"
           /\ serving' = [serving EXCEPT !.port = Port]
           /\ Reach("listening") /\ UNCHANGED <<env, early, modules>>
  <2>1. /\ serving' \in [adapter : BOOLEAN, docs : BOOLEAN, hooks : BOOLEAN,
                         files : {"none", "src"},
                         port : {"none", "APP_PORT", "APP_WORKER_PORT"}]
        /\ serving'.adapter = serving.adapter /\ serving'.files = serving.files
        /\ serving'.port = Port
    BY <1>2 DEF IInv, TypeOK, Port
  <2>2. ValidOnce'
    BY <1>1, <1>2, <2>1, SameReads DEF IInv, Reach, ValidOnce, Valued
  <2>3. RoleServed'
    BY <1>1, <1>2, <2>1, SamePort DEF IInv, Reach, RoleServed
  <2> QED BY <1>1, <1>2, <2>1, <2>2, <2>3, Onward DEF Reach, Building, Valued
<1>3. CASE PortNumber = "number" /\ Reject("taken")
  BY <1>1, <1>3, RejectIInv DEF Building
<1>4. CASE PortNumber # "number" /\ Reject("port")
  BY <1>1, <1>4, RejectIInv DEF Building
<1> QED BY <1>2, <1>3, <1>4 DEF Listen

LEMMA StopIInv == IInv /\ Stop => IInv'
<1> SUFFICES ASSUME IInv, Stop PROVE IInv'
  OBVIOUS
<1>1. TypeOK'
  BY DEF IInv, TypeOK, Stop, Stages
<1> QED
  BY <1>1 DEF Stop, IInv, GivenFirst, MergedOnce, RoleRead, RoleServed, KnownEnd,
     EarlyRead, ValidOnce, Building, Loading, Valued

LEMMA RestartIInv == IInv /\ Restart => IInv'
<1> SUFFICES ASSUME IInv, Restart PROVE IInv'
  OBVIOUS
<1>1. settings' = settings /\ deployment' = deployment /\ env' = ProcessEnv
      /\ stage' = "exec" /\ reason' = "none" /\ early' = NothingRead
      /\ modules' = "none" /\ serving' = NothingServed
  BY DEF Restart
<1>2. env' \in [Vars -> Values]
  BY <1>1, EnvTypes DEF IInv, TypeOK
<1>3. [v \in Vars |-> "absent"] \in [Vars -> Values]
  BY DEF Values
<1>4. RedisConfig([v \in Vars |-> "absent"]) \in Redis
  BY <1>3, ReadTypes
<1>5. TypeOK'
  BY <1>1, <1>2, <1>4 DEF IInv, TypeOK, Stages, NothingRead, NothingServed
<1>6. ProcessEnv' = ProcessEnv
  BY <1>1 DEF ProcessEnv, Given
<1> QED
  BY <1>1, <1>5, <1>6 DEF IInv, GivenFirst, MergedOnce, RoleRead, RoleServed,
     KnownEnd, EarlyRead, ValidOnce, Building, Loading, Valued

LEMMA StutterIInv == IInv /\ UNCHANGED vars => IInv'
<1> SUFFICES ASSUME IInv, UNCHANGED vars PROVE IInv'
  OBVIOUS
<1>1. TypeOK'
  BY DEF IInv, TypeOK, vars
<1>2. ProcessEnv' = ProcessEnv /\ Merged' = Merged
  BY DEF ProcessEnv, Merged, Given, vars
<1> QED
  BY <1>1, <1>2, SameReads, SamePort, SameGiven DEF vars, IInv, GivenFirst,
     MergedOnce, RoleRead, RoleServed, KnownEnd, EarlyRead, ValidOnce

LEMMA Inductive == IInv /\ [Next]_vars => IInv'
BY ImportIInv, DescribeIInv, ValidateIInv, CreateModulesIInv, ConfigureIInv,
   ListenIInv, StopIInv, RestartIInv, StutterIInv DEF Next, Bootstrap

LEMMA Invariance == Spec => []IInv
BY InitIInv, Inductive, PTL DEF Spec

-------------------------------------------------------------------------------

\* What is certain of a variable that a loaded configuration names.
LEMMA Named ==
  ASSUME NEW e, Valid(e), NEW rules \in Loaded(e), NEW v \in DOMAIN rules
  PROVE  Passes(rules[v], e[v])
BY DEF Valid

\* The texts that pass for a number.
LaxNumber == Fit \union Unparsed \union {"empty"}

\* The values that the start depends on, in a valid environment.
LEMMA ValidValues ==
  ASSUME NEW e, Valid(e)
  PROVE  /\ e["APP_NAME"] \in Present \ {"empty"}
         /\ e["AUTH_SECRET"] \in Present \ {"empty"}
         /\ e["BASIC_AUTH_PASSWORD"] \in Present \ {"empty"}
         /\ e["REDIS_HOST"] \in Present \ {"empty"}
         /\ e["MAIL_HOST"] \in Present \ {"empty"}
         /\ e["APP_PORT"] \in LaxNumber
         /\ e["REDIS_PORT"] \in LaxNumber \union {"absent"}
         /\ e["MAIL_PORT"] \in LaxNumber \union {"absent"}
         /\ e["THROTTLER_LIMIT"] \in LaxNumber \union {"absent"}
         /\ e["THROTTLER_TTL"] \in LaxNumber \union {"absent"}
         /\ e["DATABASE_MAX_CONNECTIONS"] \in Fit \union {"point", "absent"}
         /\ e["SENTRY_DSN"] \in Values
         /\ e["REDIS_PASSWORD"] \in Values
<1>1. {AppRules, RedisRules, AuthRules, MailRules, SentryRules, ThrottlerRules,
       DatabaseOptionRules} \subseteq Loaded(e)
  BY DEF Loaded, DatabaseRules
<1>2. /\ Passes(AppRules["APP_NAME"], e["APP_NAME"])
      /\ Passes(AppRules["APP_PORT"], e["APP_PORT"])
  <2>1. {"APP_NAME", "APP_PORT"} \subseteq DOMAIN AppRules
    BY DEF AppRules
  <2> QED BY <1>1, <2>1, Named
<1>3. /\ Passes(RedisRules["REDIS_HOST"], e["REDIS_HOST"])
      /\ Passes(RedisRules["REDIS_PORT"], e["REDIS_PORT"])
      /\ Passes(RedisRules["REDIS_PASSWORD"], e["REDIS_PASSWORD"])
  <2>1. {"REDIS_HOST", "REDIS_PORT", "REDIS_PASSWORD"} \subseteq DOMAIN RedisRules
    BY DEF RedisRules
  <2> QED BY <1>1, <2>1, Named
<1>4. /\ Passes(AuthRules["AUTH_SECRET"], e["AUTH_SECRET"])
      /\ Passes(AuthRules["BASIC_AUTH_PASSWORD"], e["BASIC_AUTH_PASSWORD"])
  <2>1. {"AUTH_SECRET", "BASIC_AUTH_PASSWORD"} \subseteq DOMAIN AuthRules
    BY DEF AuthRules
  <2> QED BY <1>1, <2>1, Named
<1>5. /\ Passes(MailRules["MAIL_HOST"], e["MAIL_HOST"])
      /\ Passes(MailRules["MAIL_PORT"], e["MAIL_PORT"])
  <2>1. {"MAIL_HOST", "MAIL_PORT"} \subseteq DOMAIN MailRules
    BY DEF MailRules
  <2> QED BY <1>1, <2>1, Named
<1>6. /\ Passes(SentryRules["SENTRY_DSN"], e["SENTRY_DSN"])
      /\ Passes(ThrottlerRules["THROTTLER_LIMIT"], e["THROTTLER_LIMIT"])
      /\ Passes(ThrottlerRules["THROTTLER_TTL"], e["THROTTLER_TTL"])
      /\ Passes(DatabaseOptionRules["DATABASE_MAX_CONNECTIONS"],
                e["DATABASE_MAX_CONNECTIONS"])
  <2>1. /\ "SENTRY_DSN" \in DOMAIN SentryRules
        /\ {"THROTTLER_LIMIT", "THROTTLER_TTL"} \subseteq DOMAIN ThrottlerRules
        /\ "DATABASE_MAX_CONNECTIONS" \in DOMAIN DatabaseOptionRules
    BY DEF SentryRules, ThrottlerRules, DatabaseOptionRules
  <2> QED BY <1>1, <2>1, Named
<1>7. /\ AppRules["APP_NAME"] = Required("nonEmpty")
      /\ AppRules["APP_PORT"] = Required("number")
  BY DEF AppRules
<1>8. /\ RedisRules["REDIS_HOST"] = Required("nonEmpty")
      /\ RedisRules["REDIS_PORT"] = Optional("number")
      /\ RedisRules["REDIS_PASSWORD"] = Optional("string")
  BY DEF RedisRules
<1>9. /\ AuthRules["AUTH_SECRET"] = Required("nonEmpty")
      /\ AuthRules["BASIC_AUTH_PASSWORD"] = Required("nonEmpty")
      /\ MailRules["MAIL_HOST"] = Required("nonEmpty")
      /\ MailRules["MAIL_PORT"] = Optional("number")
  BY DEF AuthRules, MailRules
<1>10. /\ SentryRules["SENTRY_DSN"] = Optional("string")
       /\ ThrottlerRules["THROTTLER_LIMIT"] = Optional("number")
       /\ ThrottlerRules["THROTTLER_TTL"] = Optional("number")
       /\ DatabaseOptionRules["DATABASE_MAX_CONNECTIONS"] = Optional("positive")
  BY DEF SentryRules, ThrottlerRules, DatabaseOptionRules
<1>11. \A x : Passes(Required("nonEmpty"), x) => x \in Present \ {"empty"}
  BY DEF Passes, Required, Accepted
<1>12. \A x : Passes(Required("number"), x) => x \in LaxNumber
  BY DEF Passes, Required, Accepted, LaxNumber
<1>13. \A x : Passes(Optional("number"), x) => x \in LaxNumber \union {"absent"}
  BY DEF Passes, Optional, Accepted, LaxNumber
<1>14. \A x : Passes(Optional("positive"), x) => x \in Fit \union {"point", "absent"}
  BY DEF Passes, Optional, Accepted
<1>15. \A x : Passes(Optional("string"), x) => x \in Values
  BY DEF Passes, Optional, Accepted, Values
<1>16. /\ e["APP_NAME"] \in Present \ {"empty"}
       /\ e["APP_PORT"] \in LaxNumber
  BY <1>2, <1>7, <1>11, <1>12
<1>17. /\ e["REDIS_HOST"] \in Present \ {"empty"}
       /\ e["REDIS_PORT"] \in LaxNumber \union {"absent"}
       /\ e["REDIS_PASSWORD"] \in Values
  BY <1>3, <1>8, <1>11, <1>13, <1>15
<1>18. /\ e["AUTH_SECRET"] \in Present \ {"empty"}
       /\ e["BASIC_AUTH_PASSWORD"] \in Present \ {"empty"}
  BY <1>4, <1>9, <1>11
<1>19. /\ e["MAIL_HOST"] \in Present \ {"empty"}
       /\ e["MAIL_PORT"] \in LaxNumber \union {"absent"}
  BY <1>5, <1>9, <1>11, <1>13
<1>20. /\ e["SENTRY_DSN"] \in Values
       /\ e["THROTTLER_LIMIT"] \in LaxNumber \union {"absent"}
       /\ e["THROTTLER_TTL"] \in LaxNumber \union {"absent"}
       /\ e["DATABASE_MAX_CONNECTIONS"] \in Fit \union {"point", "absent"}
  BY <1>6, <1>10, <1>13, <1>14, <1>15
<1> QED BY <1>16, <1>17, <1>18, <1>19, <1>20

\* Without DATABASE_URL the connection is validated.
LEMMA ValidConnection ==
  ASSUME NEW e, Valid(e), e["DATABASE_URL"] \in {"absent", "empty"}
  PROVE  /\ e["DATABASE_HOST"] \in Present
         /\ e["DATABASE_PORT"] \in LaxNumber
<1>1. DatabaseConnectionRules \in Loaded(e)
  BY DEF Loaded, DatabaseRules
<1>2. {"DATABASE_HOST", "DATABASE_PORT"} \subseteq DOMAIN DatabaseConnectionRules
  BY DEF DatabaseConnectionRules
<1>3. /\ DatabaseConnectionRules["DATABASE_HOST"] = Required("string")
      /\ DatabaseConnectionRules["DATABASE_PORT"] = Required("number")
  BY DEF DatabaseConnectionRules
<1>4. /\ Passes(Required("string"), e["DATABASE_HOST"])
      /\ Passes(Required("number"), e["DATABASE_PORT"])
  BY <1>1, <1>2, <1>3, Named
<1> QED BY <1>4 DEF Passes, Required, Accepted, LaxNumber

\* A value that is asked for and not there is one of the two that may be left out.
LEMMA MissingIsKnown ==
  ASSUME env \in [Vars -> Values], Valid(env),
         "undefined" \in FactoryReads \union BootstrapReads
  PROVE  env["SENTRY_DSN"] = "absent" \/ env["REDIS_PASSWORD"] = "absent"
<1>1. "undefined" \notin Values
  BY DEF Values, Present, Unparsed, Fit
<1>2. /\ env["APP_NAME"] # "absent" /\ env["AUTH_SECRET"] # "absent"
      /\ env["REDIS_HOST"] # "absent"
      /\ {env["APP_NAME"], env["AUTH_SECRET"], env["REDIS_HOST"],
          env["SENTRY_DSN"], env["REDIS_PASSWORD"], env["NODE_ENV"], env["APP_URL"],
          env["APP_CORS_ORIGIN"], env["APP_FALLBACK_LANGUAGE"]} \subseteq Values
  BY ValidValues, Names DEF Values, Present, Unparsed, Fit
<1>3. /\ RedisConfig(env).port # "undefined" /\ ThrottlerConfig(env).ttl # "undefined"
      /\ ThrottlerConfig(env).limit # "undefined"
      /\ AppConfig(env).fallbackLanguage # "undefined"
      /\ AppConfig(env).corsOrigin # "undefined"
      /\ AppConfig(env).nodeEnv # "undefined" /\ AppConfig(env).url # "undefined"
  BY <1>1, <1>2 DEF RedisConfig, ThrottlerConfig, AppConfig, Int, Or, CorsOrigin
<1>4. /\ RedisConfig(env).host # "undefined" /\ AuthConfig(env).authSecret # "undefined"
      /\ AppConfig(env).name # "undefined"
  BY <1>1, <1>2 DEF RedisConfig, AuthConfig, AppConfig, Text
<1>5. SentryConfig(env).dsn = "undefined" \/ RedisConfig(env).password = "undefined"
  BY <1>3, <1>4 DEF FactoryReads, BootstrapReads, QueueReads, CacheReads, LimitReads,
     TranslationReads, DocumentationReads
<1> QED BY <1>1, <1>2, <1>5 DEF SentryConfig, RedisConfig, Text

-------------------------------------------------------------------------------
(* The theorems.                                                             *)

\* The variables keep their types, whatever the .env holds.
THEOREM TypeCorrect == Spec => []TypeOK
<1>1. IInv => TypeOK
  BY DEF IInv
<1> QED BY Invariance, <1>1, PTL

\* A process that serves is the API or the worker in all its parts: modules,
\* websocket adapter, port and configuration, though main.ts reads the role
\* before the .env is merged a second time and validated.
THEOREM RoleTheorem == Spec => []RoleIsWhole
<1>1. IInv => RoleIsWhole
  <2> SUFFICES ASSUME IInv, stage = "listening"
               PROVE  /\ modules = "worker" <=> ~serving.adapter
                      /\ modules = "worker" <=> serving.port = "APP_WORKER_PORT"
                      /\ modules = "worker" <=> AppConfig(env).isWorker
    BY DEF RoleIsWhole
  <2>1. /\ early.isWorker = AppConfig(env).isWorker
        /\ modules = IF early.isWorker THEN "worker" ELSE "main"
        /\ serving.adapter = ~early.isWorker /\ serving.port = Port
        /\ early.isWorker \in BOOLEAN
    BY DEF IInv, TypeOK, RoleRead, RoleServed, Building
  <2> QED BY <2>1 DEF Port
<1> QED BY Invariance, <1>1, PTL

\* With a valid environment bootstrap fails for want of a value only for the two
\* optional ones it asks for, and at listen for want of a port only where the
\* worker's or a text that does not parse was let through.
THEOREM LateFailureTheorem == Spec => []LateFailureIsKnown
<1>1. IInv => LateFailureIsKnown
  <2> SUFFICES ASSUME IInv, stage \in {"crashed", "stranded"}
               PROVE  LateFailureIsKnown
    BY DEF LateFailureIsKnown
  <2>1. reason = "missing" =>
          env["SENTRY_DSN"] = "absent" \/ env["REDIS_PASSWORD"] = "absent"
    BY MissingIsKnown DEF IInv, TypeOK, KnownEnd
  <2>2. ASSUME reason = "port"
        PROVE  IF modules = "worker" THEN env["APP_WORKER_PORT"] \notin Fit
               ELSE env["APP_PORT"] \in Unparsed \union {"empty"}
    <3>1. /\ Valid(env) /\ PortNumber # "number"
          /\ modules = IF early.isWorker THEN "worker" ELSE "main"
          /\ early.isWorker \in BOOLEAN
      BY <2>2 DEF IInv, TypeOK, KnownEnd
    <3>2. CASE early.isWorker
      BY <3>1, <3>2 DEF PortNumber, AppConfig, Int
    <3>3. CASE ~early.isWorker
      <4>1. env["APP_PORT"] \notin Fit
        BY <3>1, <3>3 DEF PortNumber, AppConfig, Int
      <4> QED BY <3>1, <3>3, <4>1, ValidValues DEF LaxNumber
    <3> QED BY <3>1, <3>2, <3>3
  <2> QED BY <2>1, <2>2 DEF LateFailureIsKnown
<1> QED BY Invariance, <1>1, PTL

\* What a valid environment makes of the numbers.
LEMMA NumbersKnown ==
  ASSUME env \in [Vars -> Values], Valid(env)
  PROVE  NumbersServed
<1>1. /\ env["MAIL_PORT"] \in LaxNumber \union {"absent"}
      /\ env["REDIS_PORT"] \in LaxNumber \union {"absent"}
      /\ env["THROTTLER_LIMIT"] \in LaxNumber \union {"absent"}
      /\ env["THROTTLER_TTL"] \in LaxNumber \union {"absent"}
      /\ env["DATABASE_MAX_CONNECTIONS"] \in Fit \union {"point", "absent"}
  BY ValidValues
<1>2. /\ MailConfig(env).port = "NaN" => env["MAIL_PORT"] \in Unparsed
      /\ DatabaseConfig(env).poolSize = "NaN" =>
           env["DATABASE_MAX_CONNECTIONS"] = "point"
  BY <1>1 DEF MailConfig, DatabaseConfig, Int, Or, LaxNumber, Fit
<1>3. DatabaseConfig(env).port = "NaN" =>
        \/ env["DATABASE_PORT"] \in Unparsed
        \/ env["DATABASE_URL"] \notin {"absent", "empty"}
  <2>1. SUFFICES ASSUME env["DATABASE_URL"] \in {"absent", "empty"},
                        DatabaseConfig(env).port = "NaN"
                 PROVE  env["DATABASE_PORT"] \in Unparsed
    OBVIOUS
  <2>2. env["DATABASE_PORT"] \in LaxNumber
    BY <2>1, ValidConnection
  <2> QED BY <2>1, <2>2 DEF DatabaseConfig, Int, Or, LaxNumber, Fit
<1>4. /\ RedisConfig(env).port = "NaN" =>
           env["REDIS_PORT"] \in Unparsed \union {"absent", "empty"}
      /\ ThrottlerConfig(env).limit = "NaN" =>
           env["THROTTLER_LIMIT"] \in Unparsed \union {"absent", "empty"}
  BY <1>1 DEF RedisConfig, ThrottlerConfig, Int, LaxNumber
<1>5. ThrottlerConfig(env).ttl = "NaN" =>
        /\ env["THROTTLER_ENABLED"] = "fit"
        /\ env["THROTTLER_TTL"] \in Unparsed \union {"absent", "empty"}
  BY <1>1 DEF ThrottlerConfig, Int, True, LaxNumber
<1>6. QueueAttempts(env) = "NaN" =>
        env["QUEUE_FAILED_RETRY_ATTEMPTS"] \in Unparsed \union {"unfit"}
  <2>1. env["QUEUE_FAILED_RETRY_ATTEMPTS"] \in Values
    BY Names
  <2> QED BY <2>1 DEF QueueAttempts, Int, Or, Values, Present, Fit
<1> QED BY <1>2, <1>3, <1>4, <1>5, <1>6 DEF NumbersServed

\* A process that serves has its secrets and hosts, and numbers wherever it works
\* with numbers but for the texts that NumbersServed names, variable by variable;
\* the values that the imports read before validation are those of the
\* configuration.
THEOREM ServesTheorem == Spec => []ServesConfigured
<1>1. IInv => ServesConfigured
  <2> SUFFICES ASSUME IInv, stage = "listening" PROVE ServesConfigured
    BY DEF ServesConfigured
  <2>1. Valid(env) /\ env \in [Vars -> Values] /\ serving.files = "src"
    BY DEF IInv, TypeOK, ValidOnce, Valued
  <2>2. "undefined" \notin Present
    BY DEF Present, Unparsed, Fit
  <2>3. {AuthConfig(env).authSecret, AuthConfig(env).basicAuth.password,
         RedisConfig(env).host, MailConfig(env).host}
          \intersect {"undefined", "empty"} = {}
    <3>1. /\ env["AUTH_SECRET"] \in Present \ {"empty"}
          /\ env["BASIC_AUTH_PASSWORD"] \in Present \ {"empty"}
          /\ env["REDIS_HOST"] \in Present \ {"empty"}
          /\ env["MAIL_HOST"] \in Present \ {"empty"}
      BY <2>1, ValidValues
    <3> QED BY <2>2, <3>1 DEF AuthConfig, RedisConfig, MailConfig, Text
  <2>4. DatabaseConfig(env).host = "undefined" =>
          env["DATABASE_URL"] \notin {"absent", "empty"}
    <3>1. SUFFICES ASSUME env["DATABASE_URL"] \in {"absent", "empty"}
                   PROVE  DatabaseConfig(env).host # "undefined"
      OBVIOUS
    <3>2. env["DATABASE_HOST"] \in Present
      BY <2>1, <3>1, ValidConnection
    <3>3. Text(env["DATABASE_HOST"]) # "undefined"
      BY <3>2 DEF Text, Present, Unparsed, Fit
    <3> QED BY <3>3 DEF DatabaseConfig
  <2>5. NumbersServed
    BY <2>1, NumbersKnown
  <2>6. /\ early.redis = RedisConfig(env) /\ early.cors = AppConfig(env).corsOrigin
        /\ early.uploads # serving.files => Given("NODE_ENV") = "production"
    BY <2>1 DEF IInv, EarlyRead, Loading
  <2> QED BY <2>3, <2>4, <2>5, <2>6 DEF ServesConfigured
<1> QED BY Invariance, <1>1, PTL

===============================================================================

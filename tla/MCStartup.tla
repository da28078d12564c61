------------------------------ MODULE MCStartup ------------------------------
(* A .env that lacks nothing, and every one that differs from it in one       *)
(* variable; with and without DATABASE_URL, in a local and in a production    *)
(* environment.                                                               *)
EXTENDS Startup

Complete ==
  {[v \in Vars |-> CASE v = "NODE_ENV" -> nodeEnv
                     [] v = "DATABASE_URL" -> url
                     [] OTHER -> "fit"] :
     nodeEnv \in {"local", "production"}, url \in {"absent", "fit"}}

MCSettings ==
  Complete \union
    {[s EXCEPT ![v] = value] :
       s \in Complete, v \in Vars,
       value \in {"absent", "empty", "unfit"} \union Unparsed}

===============================================================================

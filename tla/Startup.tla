------------------------------ MODULE Startup ------------------------------
(***************************************************************************)
(* main: what the process connects to, in which order, and which failures  *)
(* end it.  Each step sets package variables that requests and consumers   *)
(* use later without looking whether they are set.                         *)
(***************************************************************************)
EXTENDS Naturals

CONSTANT MaxFailures  \* bound: files, connections and ports that fail

ASSUME StartupAssumption == MaxFailures \in Nat

Stages == {"logger", "http", "postgres", "kafka", "redis", "ping", "router",
           "serving", "exited"}

(* logger.log, httpclient.client, postgres.DB, campaign.Producer and       *)
(* redis_provider.Client.                                                  *)
Handles == {"logger", "httpClient", "DB", "Producer", "Client"}

(* The configuration files: <name>.yml below the base path.                *)
Configs == {"logger", "application", "postgres", "language"}

Urls == {"missing", "malformed", "valid"}

VARIABLES
    stage,      \* the step main is at
    handles,    \* the package variables that are set
    providers,  \* the configurations that were read
    redisUrl,   \* what the application's configuration says of Redis
    consumers,  \* whether the consumers' goroutines were started
    failures    \* how many failures there were

startupVars == <<stage, handles, providers, redisUrl, consumers, failures>>

StartupTypeOK ==
    /\ stage \in Stages
    /\ handles \subseteq Handles
    /\ providers \subseteq Configs
    /\ redisUrl \in Urls
    /\ consumers \in BOOLEAN
    /\ failures \in 0 .. MaxFailures

StartupInit ==
    /\ stage = "logger"
    /\ handles = {}
    /\ providers = {}
    /\ redisUrl \in Urls
    /\ consumers = FALSE
    /\ failures = 0

Fails == failures < MaxFailures /\ failures' = failures + 1

(* configs.Get, as far as it succeeds: a provider that was read is kept.   *)
Get(name) == providers' = providers \union {name}
-----------------------------------------------------------------------------
(* The step main is at sets some handles, and main goes on with the next.  *)
Advance(from, to, set) ==
    /\ stage = from
    /\ stage' = to
    /\ handles' = handles \union set
    /\ UNCHANGED redisUrl

InitLogger ==
    /\ Advance("logger", "http", {"logger"})
    /\ Get("logger")
    /\ UNCHANGED <<consumers, failures>>

InitHTTPClient ==
    /\ Advance("http", "postgres", {"httpClient"})
    /\ Get("application")
    /\ UNCHANGED <<consumers, failures>>

(* DB is set after the ping and the migrations, whose errors are not       *)
(* looked at.                                                              *)
InitPostgresDB ==
    /\ Advance("postgres", "kafka", {"DB"})
    /\ Get("postgres")
    /\ UNCHANGED <<consumers, failures>>

(* Two producers for one variable; then the consumers, in the background.  *)
ConnectKafka ==
    /\ Advance("kafka", "redis", {"Producer"})
    /\ consumers' = TRUE
    /\ UNCHANGED <<providers, failures>>

(* Mutant: the client is kept once it has answered a ping.                 *)
ConnectAndKeepLater ==
    /\ Advance("redis", IF redisUrl = "valid" THEN "ping" ELSE "router", {})
    /\ UNCHANGED <<providers, consumers, failures>>

(* Without an address main goes on, and Client stays nil.                  *)
ConnectRedis ==
    /\ IF redisUrl = "valid" THEN Advance("redis", "ping", {"Client"})
       ELSE Advance("redis", "router", {})
    /\ UNCHANGED <<providers, consumers, failures>>

(* A Redis that does not answer is logged, and its client used.            *)
PingRedis ==
    /\ Advance("ping", "router", {})
    /\ Fails \/ UNCHANGED failures
    /\ UNCHANGED <<providers, consumers>>

StartRouter ==
    /\ Advance("router", "serving", {})
    /\ UNCHANGED <<providers, consumers, failures>>

(* All other failures end the process.  Some by panic(err) or log.Fatal,   *)
(* some because a configuration that could not be read is a nil provider,  *)
(* logged and then dereferenced; the router because main returns.          *)
StepFails ==
    /\ stage \in {"logger", "http", "postgres", "kafka", "router"}
    /\ Fails
    /\ stage' = "exited"
    /\ UNCHANGED <<handles, providers, redisUrl, consumers>>

StartupNext ==
    \/ InitLogger \/ InitHTTPClient \/ InitPostgresDB
    \/ ConnectKafka \/ ConnectRedis \/ PingRedis
    \/ StartRouter \/ StepFails
-----------------------------------------------------------------------------
(* Whoever serves a request, or consumes a message, finds set what it      *)
(* takes for granted; and a Redis that was down when the service started   *)
(* is used when it is up, for its client was set before the first ping.    *)
(* Only an address that is no address leaves the service without one.      *)
ServingIsConnected ==
    /\ consumers => {"logger", "DB", "Producer"} \subseteq handles
    /\ stage = "serving" =>
          /\ Handles \ {"Client"} \subseteq handles
          /\ consumers
          /\ "Client" \in handles <=> redisUrl = "valid"
          /\ "application" \in providers
=============================================================================

------------------------------ MODULE Service ------------------------------
(***************************************************************************)
(* The way of a request through the router, from LoadBundle to its answer, *)
(* and the variables that all requests share: the bundle of messages, the  *)
(* configurations and their mutex, and the data of the API gateway.        *)
(*                                                                         *)
(* Only the mutex is one.  Every request replaces the bundle and then      *)
(* fills whichever bundle is there; go-i18n's maps are not guarded, and Go *)
(* ends a process in which it sees two accesses to a map overlap, one of   *)
(* them a write.                                                           *)
(***************************************************************************)
EXTENDS Startup

CONSTANTS
    Requests,   \* requests
    Languages,  \* languageList of language.yml
    Default,    \* DefaultLanguage
    NoRequest   \* of no request: no bundle, a mutex nobody holds

ASSUME ServiceAssumption ==
    /\ Default \in Languages
    /\ NoRequest \notin Requests

Kinds == {"create", "update", "get", "gateway"}

(* What the Authorization header says of authCompleted.                    *)
Headers == {"completed", "open", "silent"}

(* What a handler comes to.  Rejected stands for the messages of the rules *)
(* a request may break (see RequestValidation).                            *)
Errors == {"BadRequest", "UserNotFound", "Rejected", "CampaignNameAlreadyExists",
           "CampaignNotFound", "InvalidID", "DatabaseFailure", "FileMissing"}
Results == Errors \union {"Success", "NoContent", "Refused", "Panic"}

ResultsOf(k) ==
    CASE k = "create" -> {"BadRequest", "UserNotFound", "Rejected",
                          "CampaignNameAlreadyExists", "Success"}
      [] k = "update" -> {"BadRequest", "UserNotFound", "Rejected",
                          "CampaignNameAlreadyExists", "CampaignNotFound",
                          "InvalidID", "Panic", "Success"}
      [] k = "get" -> {"BadRequest", "UserNotFound", "DatabaseFailure", "NoContent",
                       "Success"}
      [] k = "gateway" -> {"FileMissing", "Success"}

(* Mutant: what the request breaks is answered with a 422.                 *)
UnprocessableStatusOf(result) ==
    CASE result = "Success" -> 200
      [] result = "NoContent" -> 204
      [] result \in {"BadRequest", "Rejected"} -> 422
      [] result \in {"UserNotFound", "CampaignNotFound"} -> 404
      [] result = "CampaignNameAlreadyExists" -> 409
      [] result = "Refused" -> 424
      [] OTHER -> 500

(* ErrorBasedOnResponse and the Send functions.  "invalid campaign ID" and *)
(* a wrapped error of the database are none of its cases.                  *)
StatusOf(result) ==
    CASE result = "Success" -> 200
      [] result = "NoContent" -> 204
      [] result \in {"BadRequest", "Rejected"} -> 400
      [] result \in {"UserNotFound", "CampaignNotFound"} -> 404
      [] result = "CampaignNameAlreadyExists" -> 409
      [] result = "Refused" -> 424
      [] OTHER -> 500

Statuses == {0, 200, 204, 400, 404, 409, 424, 500}

(* The results locales/en.json has no message for.                         *)
Untranslated == {"NoContent", "InvalidID", "DatabaseFailure"}

(* What needs the client of Redis: every GET of a user, and an update that *)
(* passed its validators.                                                  *)
NeedsClient(k, result) ==
    \/ k = "get" /\ result \notin {"BadRequest", "UserNotFound"}
    \/ k = "update" /\ result \in {"CampaignNotFound", "InvalidID", "Success"}

PCs == {"idle", "fresh", "registering", "config", "reading", "load", "loading",
        "header", "check", "handler", "message", "translating", "nameless",
        "closed", "answered"}

VARIABLES
    pc,         \* where each request is
    bundle,     \* Bundle, named for the request that made it
    loaded,     \* the languages loaded into each bundle
    unloaded,   \* the languages a request has still to load
    using,      \* the bundle a request is registering with, loading or reading
    mutex,      \* who holds the mutex of the configurations
    auth,       \* UserDatafromGataway.AuthCompleted
    kind,       \* what each request asks for
    header,     \* what its header said
    result,     \* what its handler came to
    status,     \* its answer, 0 while there is none
    found,      \* the message of its answer was found in the bundle
    background, \* the accepted writes whose goroutines still run
    alone       \* history: no other request was there while this one was

shared == <<bundle, loaded, mutex, auth>>
answer == <<kind, header, result, status, found>>
serviceVars == <<pc, shared, unloaded, using, answer, background, alone>>
vars == <<startupVars, serviceVars>>

Over == {"idle", "nameless", "closed", "answered"}
InFlight(r) == pc[r] \notin Over

ServiceTypeOK ==
    /\ StartupTypeOK
    /\ pc \in [Requests -> PCs]
    /\ bundle \in Requests \union {NoRequest}
    /\ loaded \in [Requests -> SUBSET Languages]
    /\ unloaded \in [Requests -> SUBSET Languages]
    /\ using \in [Requests -> Requests \union {NoRequest}]
    /\ mutex \in Requests \union {NoRequest}
    /\ auth \in BOOLEAN
    /\ kind \in [Requests -> Kinds]
    /\ header \in [Requests -> Headers]
    /\ result \in [Requests -> Results]
    /\ status \in [Requests -> Statuses]
    /\ found \in [Requests -> BOOLEAN]
    /\ background \subseteq Requests
    /\ alone \in [Requests -> BOOLEAN]

Init ==
    /\ StartupInit
    /\ pc = [r \in Requests |-> "idle"]
    /\ bundle = NoRequest
    /\ loaded = [r \in Requests |-> {}]
    /\ unloaded = [r \in Requests |-> {}]
    /\ using = [r \in Requests |-> NoRequest]
    /\ mutex = NoRequest
    /\ auth = FALSE
    /\ kind = [r \in Requests |-> "get"]
    /\ header = [r \in Requests |-> "silent"]
    /\ result = [r \in Requests |-> "Success"]
    /\ status = [r \in Requests |-> 0]
    /\ found = [r \in Requests |-> FALSE]
    /\ background = {}
    /\ alone = [r \in Requests |-> FALSE]

(* The goroutine of a request moves on.                                    *)
Goes(r, from, to) == pc[r] = from /\ pc' = [pc EXCEPT ![r] = to]

(* A panic in a goroutine that nothing recovers, or an error of the Go     *)
(* runtime: the process ends.                                              *)
Dies ==
    /\ stage' = "exited"
    /\ UNCHANGED <<handles, providers, redisUrl, consumers, failures>>
-----------------------------------------------------------------------------
(* LoadBundle.  A request arrives and replaces the bundle.                 *)
Arrive(r) ==
    /\ Goes(r, "idle", "fresh")
    /\ bundle' = r
    /\ alone' = [s \in Requests |->
                   IF s = r THEN \A t \in Requests : ~InFlight(t)
                   ELSE alone[s] /\ ~InFlight(s)]
    /\ UNCHANGED <<startupVars, loaded, mutex, auth, unloaded, using, answer, background>>

(* RegisterUnmarshalFunc, a write to a map of the bundle that is there by  *)
(* now, takes until the next action of the request.                        *)
Register(r) ==
    /\ Goes(r, "fresh", "registering")
    /\ using' = [using EXCEPT ![r] = bundle]
    /\ UNCHANGED <<startupVars, shared, unloaded, answer, background, alone>>

Registered(r) ==
    /\ Goes(r, "registering", "config")
    /\ using' = [using EXCEPT ![r] = NoRequest]
    /\ UNCHANGED <<startupVars, shared, unloaded, answer, background, alone>>

(* Mutant: the languages are loaded once, as configurations are.           *)
TakeLanguagesOnce(r) ==
    /\ mutex = NoRequest
    /\ "language" \in providers
    /\ Goes(r, "config", "load")
    /\ unloaded' = [unloaded EXCEPT ![r] =
                      IF \E s \in Requests : loaded[s] # {} THEN {} ELSE Languages]
    /\ UNCHANGED <<startupVars, shared, using, answer, background, alone>>

(* configs.Get(LanguageConfig): a provider that was read is given at once, *)
(* otherwise the file is read under the mutex.                             *)
TakeLanguages(r) ==
    /\ mutex = NoRequest
    /\ "language" \in providers
    /\ Goes(r, "config", "load")
    /\ unloaded' = [unloaded EXCEPT ![r] = Languages]
    /\ UNCHANGED <<startupVars, shared, using, answer, background, alone>>

OpenFile(r) ==
    /\ mutex = NoRequest
    /\ "language" \notin providers
    /\ Goes(r, "config", "reading")
    /\ mutex' = r
    /\ UNCHANGED <<startupVars, bundle, loaded, auth, unloaded, using, answer, background,
                   alone>>

ReadFile(r) ==
    /\ Goes(r, "reading", "load")
    /\ mutex' = NoRequest
    /\ Get("language")
    /\ unloaded' = [unloaded EXCEPT ![r] = Languages]
    /\ UNCHANGED <<stage, handles, redisUrl, consumers, failures, bundle, loaded, auth,
                   using, answer, background, alone>>

(* Mutant: the mutex is not released by a deferred call.                   *)
ReadFailsUnderMutex(r) ==
    /\ Goes(r, "reading", "closed")
    /\ Fails
    /\ UNCHANGED <<stage, handles, providers, redisUrl, consumers, shared,
                   unloaded, using, answer, background, alone>>

(* The error is dropped and the nil provider dereferenced; this panic is   *)
(* outside of gin.Recovery, and net/http closes the connection.            *)
ReadFails(r) ==
    /\ Goes(r, "reading", "closed")
    /\ Fails
    /\ mutex' = NoRequest
    /\ UNCHANGED <<stage, handles, providers, redisUrl, consumers, bundle, loaded, auth,
                   unloaded, using, answer, background, alone>>

(* MustLoadMessageFile, for each language, writes to the bundle that is    *)
(* there by now; without the file it panics as above.                      *)
Load(r) ==
    /\ Goes(r, "load", "loading")
    /\ unloaded[r] # {}
    /\ using' = [using EXCEPT ![r] = bundle]
    /\ UNCHANGED <<startupVars, shared, unloaded, answer, background, alone>>

Loaded(r) ==
    /\ Goes(r, "loading", "load")
    /\ \E language \in unloaded[r] :
          /\ unloaded' = [unloaded EXCEPT ![r] = @ \ {language}]
          /\ loaded' = [loaded EXCEPT ![using[r]] = @ \union {language}]
    /\ using' = [using EXCEPT ![r] = NoRequest]
    /\ UNCHANGED <<startupVars, bundle, mutex, auth, answer, background, alone>>

(* Mutant: the files are loaded in a goroutine of their own.               *)
LoadFailsInBackground(r) ==
    /\ pc[r] = "loading"
    /\ Dies
    /\ UNCHANGED serviceVars

LoadFails(r) ==
    /\ Goes(r, "loading", "closed")
    /\ Fails
    /\ using' = [using EXCEPT ![r] = NoRequest]
    /\ UNCHANGED <<stage, handles, providers, redisUrl, consumers, shared, unloaded, answer,
                   background, alone>>
-----------------------------------------------------------------------------
(* The route; /v1 goes through the gateway's middleware.                   *)
Route(r) ==
    /\ unloaded[r] = {}
    /\ \E k \in Kinds :
          /\ kind' = [kind EXCEPT ![r] = k]
          /\ Goes(r, "load", IF k = "gateway" THEN "handler" ELSE "header")
    /\ UNCHANGED <<startupVars, shared, unloaded, using, header, result, status, found,
                   background, alone>>

(* The header is decoded over the data of the last one: a header without   *)
(* authCompleted, or none, or one that is not JSON, leaves it as it is.    *)
DecodeHeader(r) ==
    /\ Goes(r, "header", "check")
    /\ \E h \in Headers :
          /\ header' = [header EXCEPT ![r] = h]
          /\ auth' = IF h = "silent" THEN auth ELSE h = "completed"
    /\ UNCHANGED <<startupVars, bundle, loaded, mutex, unloaded, using, kind, result, status,
                   found, background, alone>>

(* An answer.  An accepted write starts its goroutines.                    *)
Answers(r, from, res) ==
    /\ Goes(r, from, "answered")
    /\ result' = [result EXCEPT ![r] = res]
    /\ status' = [status EXCEPT ![r] = StatusOf(res)]

(* Mutant: the request is aborted, but the handler writes another answer.  *)
CheckAndGoOn(r) ==
    /\ Goes(r, "check", "handler")
    /\ UNCHANGED <<startupVars, shared, unloaded, using, answer, background, alone>>

Check(r) ==
    /\ IF auth THEN Answers(r, "check", "Refused")
       ELSE Goes(r, "check", "handler") /\ UNCHANGED <<result, status>>
    /\ UNCHANGED <<startupVars, shared, unloaded, using, kind, header, found, background,
                   alone>>

(* The handler comes to a result.  It needs a message for it, unless it    *)
(* panicked, which gin.Recovery answers, or serves the gateway's file.     *)
Starts(r, res) ==
    IF kind[r] \in {"create", "update"} /\ res = "Success" THEN background \union {r}
    ELSE background

Handle(r) ==
    /\ \E res \in ResultsOf(kind[r]) :
          /\ NeedsClient(kind[r], res) => "Client" \in handles
          /\ background' = Starts(r, res)
          /\ IF res = "Panic" \/ (kind[r] = "gateway" /\ res = "Success")
             THEN Answers(r, "handler", res)
             ELSE /\ Goes(r, "handler", "message")
                  /\ result' = [result EXCEPT ![r] = res]
                  /\ UNCHANGED status
    /\ UNCHANGED <<startupVars, shared, unloaded, using, kind, header, found, alone>>

(* A GET with a nil client panics in the handler, which is recovered ...   *)
GetWithoutClient(r) ==
    /\ kind[r] = "get"
    /\ "Client" \notin handles
    /\ Answers(r, "handler", "Panic")
    /\ UNCHANGED <<startupVars, shared, unloaded, using, kind, header, found, background,
                   alone>>

(* ... an update in the goroutine that looks for its campaign.             *)
UpdateWithoutClient(r) ==
    /\ pc[r] = "handler"
    /\ kind[r] = "update"
    /\ "Client" \notin handles
    /\ Dies
    /\ UNCHANGED serviceVars

(* An update without a name panics in its name validator.                  *)
UpdateWithoutName(r) ==
    /\ kind[r] = "update"
    /\ Goes(r, "handler", "nameless")
    /\ Dies
    /\ UNCHANGED <<shared, unloaded, using, answer, background, alone>>

(* The invalidation, and the re-cache, of an accepted write.               *)
RunBackground(r) ==
    /\ r \in background
    /\ IF "Client" \in handles THEN UNCHANGED startupVars ELSE Dies
    /\ background' = background \ {r}
    /\ UNCHANGED <<pc, shared, unloaded, using, answer, alone>>

(* GetMessage.  The configuration was read by this request, or before it.  *)
Localize(r) ==
    /\ mutex = NoRequest
    /\ "language" \in providers
    /\ Goes(r, "message", "translating")
    /\ using' = [using EXCEPT ![r] = bundle]
    /\ UNCHANGED <<startupVars, shared, unloaded, answer, background, alone>>

(* Without a message the answer has the id.                                *)
Localized(r) ==
    /\ Answers(r, "translating", result[r])
    /\ found' = [found EXCEPT ![r] =
                   Default \in loaded[using[r]] /\ result[r] \notin Untranslated]
    /\ using' = [using EXCEPT ![r] = NoRequest]
    /\ UNCHANGED <<startupVars, shared, unloaded, kind, header, background, alone>>

(* Two accesses to one map, one of them a write: Register writes the map   *)
(* of the decoders, Load reads it and writes that of the messages, which   *)
(* Localize reads.                                                         *)
Collide(p, q) ==
    \/ p \in {"registering", "loading"} /\ q \in {"registering", "loading"}
    \/ {p, q} = {"loading", "translating"}

MapsCollide ==
    /\ \E r, s \in Requests :
          r # s /\ using[r] # NoRequest /\ using[r] = using[s] /\ Collide(pc[r], pc[s])
    /\ Dies
    /\ UNCHANGED serviceVars
-----------------------------------------------------------------------------
Middleware(r) ==
    \/ Register(r) \/ Registered(r)
    \/ TakeLanguages(r) \/ OpenFile(r) \/ ReadFile(r) \/ ReadFails(r)
    \/ Load(r) \/ Loaded(r) \/ LoadFails(r)
    \/ Route(r) \/ DecodeHeader(r) \/ Check(r)

Handler(r) ==
    \/ Handle(r) \/ GetWithoutClient(r) \/ UpdateWithoutClient(r) \/ UpdateWithoutName(r)
    \/ Localize(r) \/ Localized(r)

(* Requests are served while the process serves.                           *)
Serves(r) == stage = "serving" /\ (Middleware(r) \/ Handler(r))

Next ==
    \/ StartupNext /\ UNCHANGED serviceVars
    \/ stage = "serving" /\ \E r \in Requests : Arrive(r)
    \/ \E r \in Requests : Serves(r)
    \/ stage = "serving" /\ \E r \in Requests : RunBackground(r)
    \/ stage = "serving" /\ MapsCollide

(* net/http runs each request in a goroutine of its own; the mutex is      *)
(* given to every goroutine that waits for it.  Nobody has to send a       *)
(* request, and main has to get nowhere.                                   *)
Fairness == \A r \in Requests : WF_vars(Serves(r))

Spec == Init /\ [][Next]_vars /\ Fairness
-----------------------------------------------------------------------------
(* A request that had the service to itself is answered in words, whatever *)
(* bundles the ones before it left behind, loaded, half loaded or replaced *)
(* while they loaded them.                                                 *)
HasMessage(r) ==
    result[r] \notin Untranslated \union {"Refused", "Panic"}
    /\ ~(kind[r] = "gateway" /\ result[r] = "Success")

AloneIsTranslated ==
    \A r \in Requests : alone[r] /\ pc[r] = "answered" /\ HasMessage(r) => found[r]

(* The gateway's data is one variable for all requests.  A request that    *)
(* had the service to itself is judged by its own header, if that says     *)
(* anything; and nobody is refused unless somebody's header asked for it.  *)
OwnHeaderDecides ==
    \A r \in Requests :
        pc[r] = "answered" =>
            /\ alone[r] /\ kind[r] # "gateway" /\ header[r] # "silent" =>
                  (status[r] = 424 <=> header[r] = "completed")
            /\ status[r] = 424 => \E s \in Requests : header[s] = "completed"

(* Once it serves, the process does not end but for what is known: two     *)
(* requests at a time, a Redis it has no address of, an update without a   *)
(* name.  A file that is missing, in particular, costs a request its       *)
(* answer and never the process.                                           *)
DeathHasACause ==
    stage = "exited" =>
        \/ \A r \in Requests : pc[r] = "idle"
        \/ \E r \in Requests : pc[r] # "idle" /\ ~alone[r]
        \/ "Client" \notin handles
        \/ \E r \in Requests : pc[r] = "nameless"

(* Every request is answered, or its connection closed, unless the process *)
(* ends: nobody waits for ever for the mutex of the configurations, and    *)
(* once requests stop coming none is left.                                 *)
EveryRequestEnds == []<>(stage = "exited" \/ \A r \in Requests : ~InFlight(r))
-----------------------------------------------------------------------------
(* What the safety properties rest on.                                     *)

(* What main has set, by the step it is at.                                *)
HandlesSoFar ==
    /\ consumers => {"logger", "DB", "Producer"} \subseteq handles
    /\ stage \in {"http", "postgres", "kafka"} => "logger" \in handles
    /\ stage \in {"postgres", "kafka"} => "httpClient" \in handles /\ "application" \in providers
    /\ stage = "kafka" => "DB" \in handles
    /\ stage \in {"logger", "http", "postgres", "kafka", "redis"} => "Client" \notin handles
    /\ stage \in {"redis", "ping", "router", "serving"} =>
          consumers /\ "httpClient" \in handles /\ "application" \in providers
    /\ stage = "ping" => "Client" \in handles /\ redisUrl = "valid"
    /\ stage \in {"router", "serving"} => ("Client" \in handles <=> redisUrl = "valid")

IdleUntilServing ==
    stage \notin {"serving", "exited"} => \A r \in Requests : pc[r] = "idle"

(* A bundle is in use between two actions, and by requests under way.  The *)
(* first to arrive made one.                                               *)
InUse(r) == pc[r] \in {"registering", "loading", "translating"}
UsesEndInTime ==
    \A r \in Requests :
        /\ using[r] # NoRequest <=> InUse(r)
        /\ alone[r] /\ InUse(r) => using[r] = r
        /\ bundle = NoRequest => pc[r] = "idle"

(* Two requests under way are never both, nor either of them, alone.       *)
AloneMeansAlone ==
    \A r \in Requests :
        alone[r] /\ InFlight(r) => bundle = r /\ \A s \in Requests \ {r} : ~InFlight(s)

Routed == {"header", "check", "handler", "message", "translating"}
BundleFills ==
    \A r \in Requests :
        alone[r] =>
            /\ pc[r] \in {"load", "loading"} => Languages \subseteq loaded[r] \union unloaded[r]
            /\ pc[r] \in Routed => Default \in loaded[r]

(* Headers decide what is refused, and nothing else does.                  *)
Judged == {"check", "handler", "message", "translating", "nameless", "answered"}
HeadersAreDecoded ==
    \A r \in Requests :
        /\ pc[r] \notin Judged => header[r] = "silent"
        /\ alone[r] /\ header[r] # "silent" /\ pc[r] = "check" =>
              (auth <=> header[r] = "completed")
        /\ alone[r] /\ kind[r] # "gateway" /\ pc[r] \in {"handler", "message", "translating"} =>
              header[r] # "completed"
        /\ pc[r] \in {"message", "translating"} => result[r] # "Refused"
RefusalsAreAskedFor ==
    auth => \E s \in Requests : header[s] = "completed"

ServiceInvariant ==
    /\ ServiceTypeOK
    /\ HandlesSoFar /\ IdleUntilServing
    /\ UsesEndInTime /\ AloneMeansAlone /\ BundleFills
    /\ HeadersAreDecoded /\ RefusalsAreAskedFor
    /\ AloneIsTranslated /\ OwnHeaderDecides /\ DeathHasACause
=============================================================================

------------------------- MODULE RequestValidation -------------------------
(***************************************************************************)
(* One POST or PATCH /v1/campaign request, from binding to its answer.     *)
(*                                                                         *)
(* The handler starts four validator goroutines that report the rules they *)
(* find broken on a buffered channel, a goroutine that closes the channel  *)
(* when the four have returned, and takes the first error or the close,    *)
(* whichever comes first.  An update then starts a second stage: a         *)
(* goroutine that loads the campaign from Redis or Postgres and reports on *)
(* two channels of its own.                                                *)
(*                                                                         *)
(* The rest of the service appears only as what this request can see of    *)
(* it: whether its name is taken, the row it updates, its cached copy.     *)
(***************************************************************************)
EXTENDS Integers, Sequences

CONSTANTS
    Requests,         \* the requests a client may send, see RequestType
    Now,              \* the time read by the time validator, in milliseconds
    DatabaseMayFail,  \* whether a query may return an error
    Nil               \* an optional field the request leaves out

Names == {"blank", "given"}

(* An id that Postgres reads as a uuid, with its hyphens anywhere, may     *)
(* still be one that uuid.Parse refuses.                                   *)
Ids == {"uuid", "loose", "malformed"}
Dates == {"start", "end"}
Limits == {"max", "min"}

(* A create request carries every field but the id; in an update every     *)
(* field but the user may be missing.                                      *)
RequestType ==
    [kind: {"create", "update"}, user: BOOLEAN, id: Ids \union {Nil},
     name: Names \union {Nil}, start: Int \union {Nil}, end: Int \union {Nil},
     max: Int \union {Nil}, min: Int \union {Nil}, price: Int \union {Nil}]

ASSUME RequestAssumption ==
    /\ Requests \subseteq RequestType
    /\ Now \in Int
    /\ DatabaseMayFail \in BOOLEAN

Validators == {"time", "participants", "price", "name"}

(* The rules each validator goroutine tests, in the order it tests them.   *)
Checks ==
    [time         |-> <<"InvalidStartDate", "InvalidEndDate", "EndBeforeStart">>,
     participants |-> <<"MaxLessThanMin">>,
     price        |-> <<"PriceNotPositive">>,
     name         |-> <<"NameAlreadyExists">>]

Rules == {"InvalidStartDate", "InvalidEndDate", "EndBeforeStart",
          "MaxLessThanMin", "PriceNotPositive", "NameAlreadyExists"}

Verdicts == Rules \union
            {"none", "accepted", "BadRequest", "CampaignNotFound", "InvalidCampaignID"}

(* Mutant: one slot for each validator, as if each sent at most one error. *)
OneSlotPerValidator == 4
(* make(chan error, 5) in both handlers.                                   *)
ErrorCapacity == 5

(* Mutant: unbuffered channels in the second stage.                        *)
Unbuffered == 0
(* The two channels of an update's second stage.                           *)
FetchCapacity == 1

-----------------------------------------------------------------------------
(* The rules on the request alone.  An update applies a rule only when it  *)
(* carries every field the rule compares.                                  *)
Given(r, fields) == \A f \in fields : r[f] # Nil

(* Mutant: the participants validator rejects equal limits.                *)
BreaksOnEqualLimits(r, rule) ==
    \/ rule = "InvalidStartDate" /\ Given(r, Dates) /\ r.start < Now
    \/ rule = "MaxLessThanMin"   /\ Given(r, Limits) /\ r.max <= r.min

Breaks(r, rule) ==
    \/ rule = "InvalidStartDate" /\ Given(r, Dates) /\ r.start < Now
    \/ rule = "InvalidEndDate"   /\ Given(r, Dates) /\ r.end < Now
    \/ rule = "EndBeforeStart"   /\ Given(r, Dates) /\ r.end <= r.start
    \/ rule = "MaxLessThanMin"   /\ Given(r, Limits) /\ r.max < r.min
    \/ rule = "PriceNotPositive" /\ r.price # Nil /\ r.price <= 0

(* What gin's binding lets through to the handler.                         *)
Bound(r) ==
    /\ r.user
    /\ r.kind = "update" => r.id # Nil
    /\ r.kind = "create" =>
          /\ r.name \notin {Nil, "blank"}
          /\ Given(r, Dates \union Limits \union {"price"})
          /\ r.start # 0 /\ r.end # 0
          /\ r.max >= 2 /\ r.min >= 1 /\ r.price >= 0
-----------------------------------------------------------------------------
VARIABLES
    request,      \* the request being served
    nameTaken,    \* a row holds the request's name (for an update: another row)
    rowExists,    \* there is a row with the id an update carries
    cached,       \* its copy in Redis, kept under its uuid: "hit", "unreadable", "miss"
    handler,      \* "binding", "validating", "fetching" or "replied"
    at,           \* for each validator, the index of its next check
    errCh,        \* the errors sent and not received
    closed,       \* errCh is closed
    lookupFailed, \* the name lookup ended in a database error
    fetcher,      \* the goroutine of an update's second stage
    getErrCh,     \* its error channel
    modelCh,      \* its model channel
    fetchClosed,  \* both are closed
    verdict,      \* what the client is told, "none" before that
    crashed       \* a goroutine panicked: the process is gone

environment == <<request, nameTaken, rowExists, cached>>
validation == <<at, errCh, closed, lookupFailed>>
fetch == <<fetcher, getErrCh, modelCh, fetchClosed>>
vars == <<environment, handler, validation, fetch, verdict, crashed>>

Models == {"loaded", "empty"}

TypeOK ==
    /\ request \in Requests
    /\ nameTaken \in BOOLEAN
    /\ rowExists \in BOOLEAN
    /\ cached \in {"hit", "unreadable", "miss"}
    /\ handler \in {"binding", "validating", "fetching", "replied"}
    /\ at \in [Validators -> 1 .. 4]
    /\ errCh \in Seq(Rules)
    /\ closed \in BOOLEAN
    /\ lookupFailed \in BOOLEAN
    /\ fetcher \in {"idle", "reading", "reporting", "found", "absent", "returned"}
    /\ getErrCh \in Seq({"CampaignNotFound"})
    /\ modelCh \in Seq(Models)
    /\ fetchClosed \in BOOLEAN
    /\ verdict \in Verdicts
    /\ crashed \in BOOLEAN

(* What is kept under a malformed id that reads like filters is an answer: *)
(* decoded as a campaign it is as empty as a copy that does not decode.    *)
Init ==
    /\ request \in Requests
    /\ nameTaken \in BOOLEAN
    /\ rowExists \in IF request.kind = "update" THEN BOOLEAN ELSE {FALSE}
    /\ cached \in IF request.id = "uuid" THEN {"hit", "unreadable", "miss"}
                  ELSE IF request.id = "malformed" THEN {"unreadable", "miss"}
                  ELSE {"miss"}
    /\ handler = "binding"
    /\ at = [v \in Validators |-> 1]
    /\ errCh = << >>
    /\ closed = FALSE
    /\ lookupFailed = FALSE
    /\ fetcher = "idle"
    /\ getErrCh = << >>
    /\ modelCh = << >>
    /\ fetchClosed = FALSE
    /\ verdict = "none"
    /\ crashed = FALSE

Returned(v) == at[v] > Len(Checks[v])

(* Mutant: wg.Add(5) for four goroutines, so that Wait never returns.      *)
OneDoneIsMissing == FALSE

AllReturned == \A v \in Validators : Returned(v)

Reply(answer) == handler' = "replied" /\ verdict' = answer
-----------------------------------------------------------------------------
(* The request is bound; its goroutines are started.                       *)
Bind ==
    /\ ~crashed
    /\ handler = "binding"
    /\ IF Bound(request) THEN handler' = "validating" /\ UNCHANGED verdict
                         ELSE Reply("BadRequest")
    /\ UNCHANGED <<environment, validation, fetch, crashed>>

(* Mutant: a validator skips the check after the one it ends.              *)
ReportAndSkip(v, broken) ==
    /\ broken /\ ~closed => Len(errCh) < ErrorCapacity
    /\ errCh' = IF broken /\ ~closed THEN Append(errCh, Checks[v][at[v]]) ELSE errCh
    /\ crashed' = (broken /\ closed)
    /\ at' = [at EXCEPT ![v] = @ + 2]

(* A validator ends the check it is at; a broken rule is sent on errCh,    *)
(* which blocks while errCh is full and panics when errCh is closed.       *)
Report(v, broken) ==
    /\ broken /\ ~closed => Len(errCh) < ErrorCapacity
    /\ errCh' = IF broken /\ ~closed THEN Append(errCh, Checks[v][at[v]]) ELSE errCh
    /\ crashed' = (broken /\ closed)
    /\ at' = [at EXCEPT ![v] = @ + 1]

Running(v) ==
    /\ ~crashed
    /\ handler # "binding" /\ Bound(request)
    /\ ~Returned(v)

(* One comparison of the time, participants or price validator.            *)
CheckFields(v) ==
    /\ Running(v)
    /\ Report(v, Breaks(request, Checks[v][at[v]]))
    /\ UNCHANGED <<environment, handler, closed, lookupFailed, fetch, verdict>>

(* The outcomes of the name query.  An empty name is not looked up, and an *)
(* error of the query, which a malformed id always causes, counts as "not  *)
(* found".                                                                 *)
LookupFailures ==
    IF request.kind = "update" /\ request.id = "malformed" THEN {TRUE}
    ELSE IF DatabaseMayFail THEN BOOLEAN ELSE {FALSE}

CheckName ==
    /\ Running("name")
    /\ request.name # Nil
    /\ \E failed \in IF request.name = "blank" THEN {FALSE} ELSE LookupFailures :
          /\ Report("name", request.name # "blank" /\ nameTaken /\ ~failed)
          /\ lookupFailed' = failed
    /\ UNCHANGED <<environment, handler, closed, fetch, verdict>>

(* The update handler dereferences the name without testing it: a panic in *)
(* a goroutine that nothing recovers.                                      *)
CheckMissingName ==
    /\ Running("name")
    /\ request.name = Nil
    /\ crashed' = TRUE
    /\ UNCHANGED <<environment, handler, validation, fetch, verdict>>

(* Mutant: wg.Add(1) inside the goroutines, so that Wait may return early. *)
CloseEarly ==
    /\ ~crashed
    /\ handler # "binding" /\ Bound(request)
    /\ ~closed
    /\ closed' = TRUE
    /\ UNCHANGED <<environment, handler, at, errCh, lookupFailed, fetch, verdict, crashed>>

(* wg.Wait() returns: the channel is closed.                               *)
Close ==
    /\ ~crashed
    /\ handler # "binding" /\ Bound(request)
    /\ AllReturned
    /\ ~closed
    /\ closed' = TRUE
    /\ UNCHANGED <<environment, handler, at, errCh, lookupFailed, fetch, verdict, crashed>>

(* The handler takes the first error and answers with it; whatever else is *)
(* sent stays in the channel.                                              *)
ReceiveError ==
    /\ ~crashed
    /\ handler = "validating"
    /\ errCh # << >>
    /\ errCh' = Tail(errCh)
    /\ Reply(Head(errCh))
    /\ UNCHANGED <<environment, at, closed, lookupFailed, fetch, crashed>>

(* Mutant: the handler polls the channel instead of waiting for its close. *)
PassWithoutWaiting ==
    /\ ~crashed
    /\ handler = "validating"
    /\ errCh = << >>
    /\ handler' = IF request.kind = "create" THEN "replied" ELSE "fetching"
    /\ verdict' = IF request.kind = "create" THEN "accepted" ELSE verdict
    /\ fetcher' = IF request.kind = "create" THEN fetcher ELSE "reading"
    /\ UNCHANGED <<environment, validation, getErrCh, modelCh, fetchClosed, crashed>>

(* The channel is closed and empty: a create is accepted, an update goes   *)
(* on to load its campaign.                                                *)
PassValidation ==
    /\ ~crashed
    /\ handler = "validating"
    /\ closed /\ errCh = << >>
    /\ \/ /\ request.kind = "create"
          /\ Reply("accepted")
          /\ UNCHANGED fetcher
       \/ /\ request.kind = "update"
          /\ handler' = "fetching"
          /\ fetcher' = "reading"
          /\ UNCHANGED verdict
    /\ UNCHANGED <<environment, validation, getErrCh, modelCh, fetchClosed, crashed>>
-----------------------------------------------------------------------------
(* The second stage of an update.  A cached copy that does not decode is   *)
(* logged and used as it is: empty.                                        *)
ReadableRow == rowExists /\ request.id # "malformed"

(* Redis is read first, then Postgres.                                     *)
FetchCampaign ==
    /\ ~crashed
    /\ fetcher = "reading"
    /\ fetcher' \in
          IF cached = "hit" THEN {"found"}
          ELSE IF cached = "unreadable" THEN {"absent"}
          ELSE (IF ReadableRow THEN {"found"} ELSE {})
                 \union (IF ReadableRow /\ ~DatabaseMayFail THEN {} ELSE {"reporting"})
    /\ UNCHANGED <<environment, handler, validation, getErrCh, modelCh, fetchClosed,
                   verdict, crashed>>

SendFetchError ==
    /\ ~crashed
    /\ fetcher = "reporting"
    /\ Len(getErrCh) < FetchCapacity
    /\ getErrCh' = Append(getErrCh, "CampaignNotFound")
    /\ fetcher' = "absent"
    /\ UNCHANGED <<environment, handler, validation, modelCh, fetchClosed, verdict, crashed>>

(* The model is sent even after an error was.                              *)
SendModel ==
    /\ ~crashed
    /\ fetcher \in {"found", "absent"}
    /\ Len(modelCh) < FetchCapacity
    /\ modelCh' = Append(modelCh, IF fetcher = "found" THEN "loaded" ELSE "empty")
    /\ fetcher' = "returned"
    /\ UNCHANGED <<environment, handler, validation, getErrCh, fetchClosed, verdict, crashed>>

CloseFetch ==
    /\ ~crashed
    /\ fetcher = "returned"
    /\ ~fetchClosed
    /\ fetchClosed' = TRUE
    /\ UNCHANGED <<environment, handler, validation, fetcher, getErrCh, modelCh,
                   verdict, crashed>>

ReceiveFetchError ==
    /\ ~crashed
    /\ handler = "fetching"
    /\ getErrCh # << >>
    /\ getErrCh' = Tail(getErrCh)
    /\ Reply(Head(getErrCh))
    /\ UNCHANGED <<environment, validation, fetcher, modelCh, fetchClosed, crashed>>

(* Mutant: the handler takes the model without looking at the errors.      *)
TakeModelFirst ==
    /\ ~crashed
    /\ handler = "fetching"
    /\ modelCh # << >>
    /\ modelCh' = Tail(modelCh)
    /\ Reply(IF request.id = "uuid" THEN "accepted" ELSE "InvalidCampaignID")
    /\ UNCHANGED <<environment, validation, fetcher, getErrCh, fetchClosed, crashed>>

(* No error came: the handler takes the model, overlays the fields of the  *)
(* request on it and parses the id, in this order.                         *)
TakeModel ==
    /\ ~crashed
    /\ handler = "fetching"
    /\ fetchClosed /\ getErrCh = << >>
    /\ modelCh # << >>
    /\ modelCh' = Tail(modelCh)
    /\ Reply(IF request.id = "uuid" THEN "accepted" ELSE "InvalidCampaignID")
    /\ UNCHANGED <<environment, validation, fetcher, getErrCh, fetchClosed, crashed>>
-----------------------------------------------------------------------------
Validate == \/ \E v \in Validators \ {"name"} : CheckFields(v)
            \/ CheckName
            \/ CheckMissingName
            \/ Close

Fetch == FetchCampaign \/ SendFetchError \/ SendModel \/ CloseFetch

Handle == Bind \/ ReceiveError \/ PassValidation \/ ReceiveFetchError \/ TakeModel

Next == Handle \/ Validate \/ Fetch

(* Every goroutine that can run is run by the Go scheduler, and every      *)
(* query returns.                                                          *)
Fairness ==
    /\ WF_vars(Handle)
    /\ \A v \in Validators \ {"name"} : WF_vars(CheckFields(v))
    /\ WF_vars(CheckName \/ CheckMissingName)
    /\ WF_vars(Close)
    /\ WF_vars(Fetch)

Spec == Init /\ [][Next]_vars /\ Fairness
-----------------------------------------------------------------------------
(* An accepted request breaks no rule among the fields it carries, and its *)
(* name was free unless the database failed to tell: the answer waits for  *)
(* every validator, whatever order the four goroutines run in.             *)
AcceptedIsValid ==
    verdict = "accepted" =>
        /\ Given(request, Dates) => Now <= request.start /\ request.start < request.end
        /\ Given(request, Limits) => request.min <= request.max
        /\ request.price # Nil => request.price > 0
        /\ request.name = "given" /\ nameTaken => lookupFailed

(* An error answer is true of the request: a late error of one goroutine   *)
(* is never taken for that of another, and a campaign with a cached copy   *)
(* is not reported missing.                                                *)
RejectionIsJustified ==
    /\ verdict = "InvalidStartDate" => request.start < Now
    /\ verdict = "InvalidEndDate"   => request.end < Now
    /\ verdict = "EndBeforeStart"   => request.end <= request.start
    /\ verdict = "MaxLessThanMin"   => request.max < request.min
    /\ verdict = "PriceNotPositive" => request.price <= 0
    /\ verdict = "NameAlreadyExists" => nameTaken /\ request.name = "given"
    /\ verdict = "CampaignNotFound" => cached = "miss"

(* An update of a campaign that exists nowhere is never accepted: the      *)
(* error of the second stage is seen although its model is sent too.       *)
MissingCampaignIsRefused ==
    request.kind = "update" /\ ~rowExists /\ cached = "miss" => verdict # "accepted"

(* The process dies only of the missing-name dereference: in particular no *)
(* goroutine sends on the closed error channel.                            *)
CrashNeedsMissingName ==
    crashed => request.kind = "update" /\ request.name = Nil

(* Once the handler has taken its one error and left, every error still to *)
(* come fits in the channel: six checks, one taken, five slots.            *)
ChecksLeft == 10 - (at["time"] + at["participants"] + at["price"] + at["name"])

NoSenderIsStuck ==
    verdict \in Rules => Len(errCh) + ChecksLeft <= ErrorCapacity

(* Why these hold: their inductive strengthening.                          *)

(* The handler answers once and fetches last, the name lookup ends its     *)
(* validator, and the channels are closed after the last send.             *)
StagesAreOrdered ==
    /\ handler # "replied" => verdict = "none"
    /\ lookupFailed => Returned("name")
    /\ closed => AllReturned
    /\ handler \in {"binding", "validating"} => fetcher = "idle"
    /\ fetchClosed => fetcher = "returned"

(* A rule is broken as far as its validator could tell; a name is taken    *)
(* only if its lookup did not fail.                                        *)
Broken(rule) ==
    IF rule = "NameAlreadyExists" THEN request.name = "given" /\ nameTaken
    ELSE Breaks(request, rule)

Missed(rule) == rule = "NameAlreadyExists" /\ lookupFailed

(* Every error sent, or answered with, is of a broken rule.                *)
ErrorsAreTrue ==
    /\ \A i \in DOMAIN errCh : Broken(errCh[i])
    /\ verdict \in Rules => Broken(verdict)

(* As long as no error was taken, an empty channel means that every check  *)
(* made so far found its rule kept.                                        *)
SilenceIsPassing ==
    verdict \notin Rules /\ errCh = << >> =>
        \A v \in Validators : \A i \in 1 .. at[v] - 1 :
            Broken(Checks[v][i]) => Missed(Checks[v][i])

(* Whoever is past the first stage saw the channel closed and empty.       *)
Passed == handler = "fetching" \/ verdict \in {"accepted", "CampaignNotFound",
                                               "InvalidCampaignID"}
PassedIsClosed == Passed => closed /\ errCh = << >>

(* Six checks, and one place more once the handler has taken an error.     *)
SlotsAreEnough ==
    Len(errCh) + ChecksLeft <= IF verdict \in Rules THEN ErrorCapacity
                               ELSE ErrorCapacity + 1

(* A fetch error is of a campaign without a copy; and that of a campaign   *)
(* that is nowhere is in its channel before the model is.                  *)
Nowhere == request.kind = "update" /\ ~rowExists /\ cached = "miss"

FetchErrorsAreSeen ==
    /\ getErrCh # << >> \/ fetcher = "reporting" \/ verdict = "CampaignNotFound"
          => cached = "miss"
    /\ Nowhere => /\ fetcher # "found"
                  /\ handler = "fetching" /\ fetcher \in {"absent", "returned"}
                        => getErrCh # << >>

RequestInvariant ==
    /\ TypeOK
    /\ StagesAreOrdered
    /\ ErrorsAreTrue
    /\ SilenceIsPassing
    /\ PassedIsClosed
    /\ SlotsAreEnough
    /\ FetchErrorsAreSeen
    /\ CrashNeedsMissingName
    /\ MissingCampaignIsRefused

(* Every request is answered, unless the process dies first.               *)
EveryRequestIsAnswered == <>(verdict # "none" \/ crashed)

(* Every goroutine the request started returns, also those that send after *)
(* the answer was given: no goroutine leaks.                               *)
GoroutinesReturn ==
    <>[](\/ crashed
         \/ ~Bound(request)
         \/ AllReturned /\ closed /\ fetcher = "idle"
         \/ AllReturned /\ closed /\ fetcher = "returned" /\ fetchClosed)

(* What the code's messages and comments promise and it does not do.       *)

(* An optional field may be left out of an update (models/campaign.go:128).*)
MissingNameIsSafe == ~crashed
=============================================================================

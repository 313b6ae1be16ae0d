# Campaign service: a TLA+ model

The campaign service is a Go program that serves three requests: create a
campaign, update one, list campaigns. Writes are accepted before anything is
stored: the handler validates, answers, and leaves the rest to goroutines, two
Kafka topics and two consumers in the same process. Reads go through Redis.
This directory holds the specifications of that machinery, the configurations
that model-check them, and proofs.

All paths below are relative to `src/`.

## 1. The system

| Component | State it keeps | Operations | Talks to |
|---|---|---|---|
| Create and update handlers: validation (`api/campaign/campaign.go`, `business/campaign/create.go`, `update.go`) | per request: a wait group, a buffered error channel, in an update two channels more | bind, four validator goroutines, close, take the first error, fetch the campaign, answer | Postgres (name, row), Redis (copy) |
| Publishing (`create.go:132`, `update.go:247`, `library/kafka/campaign/producer.go`, `library/kafka/connection.go`) | one goroutine per accepted write | build the event, `SendMessage` | Kafka |
| Consumers (`library/kafka/campaign/consumer.go`) | per topic: a partition consumer, the event it decodes into, the attempt | subscribe at the newest offset, decode, write, retry, drop | Kafka, the writer |
| Postgres writer (`utils/campaigns/campaigns.go`) | a transaction, two goroutines, an error channel | `InsertIntoPostgres`, `UpdateCampaignInPostgres` | tables campaigns, locations, status logs |
| GET handler (`business/campaign/get.go`) | the fill goroutine | copy, answer, index, count and find, fill | Redis, Postgres |
| Invalidation and re-cache (`utils/helperfunctions/helperfunctions.go`, `update.go:253-279`) | two goroutines per write | delete copies, index and answers; set the new copy | Redis |
| Router, gateway middleware, localization (`api/router.go`, `utils/middleware`, `utils/localization`) | two process-wide globals | decode the gateway header, load and look up messages | every request |
| Error mapping (`utils/commons.go`) | none | error to HTTP status | handlers |
| Startup and configuration (`main.go`, `library/*`, `utils/configs`) | the clients of Postgres, Kafka, Redis; a map of configurations and its mutex | connect in order, start the router; read a configuration once | all |
| Cache helpers (`utils/helperfunctions/helperfunctions.go:246-465`) | none | set, remove, list copies; invalidate answers | Redis; handlers call `AddCampaignToUserIndex` and the invalidation only |
| HTTP client (`utils/httpclient`) | none | a request with retries and a deadline | nobody calls it |
| Rate limiter, MongoDB, Novu | - | - | nobody calls them |

### What is hard

* **Goroutines in one request.** Four validators, a closer and the handler share
  a channel of five slots; the handler leaves after the first error. Nothing may
  block, leak or send on the closed channel, whatever the order.
* **An answer given before the write.** An event may be lost before it is
  published, appended twice, skipped by a consumer that was not listening, or
  dropped after three attempts.
* **Writes that are not in their transaction.** The writer opens `tx` and then
  writes through `db`. An attempt that fails leaves what it wrote; one of its
  goroutines may still be running when the next attempt is.
* **An event that is reused.** A consumer decodes each message over the last one.
* **Two consumers, one table.** Create and update messages of one campaign are
  consumed by different goroutines.
* **A cache written by four kinds of goroutine.** Fills, invalidations, re-caches
  and the event that changes the row are not ordered with each other.
* **Keys that are found by their text.** A key is told from others by its last
  part and by what it contains, and its parts come from requests.
* **Variables that all requests share.** The message bundle is replaced by each
  request, the gateway's data decoded over that of the last one; neither has a lock.
* **Handles that may be nil.** `main` goes on without Redis, and what then panics
  is recovered in some goroutines and ends the process in others.

## 2. The modules

| Module | Models | Used by |
|---|---|---|
| `RequestValidation` | one create or update request up to its answer | `MCRequestValidation` |
| `CampaignWritePath` | from the accepted request to the tables | `MCCampaignWritePath`, `CampaignWritePathProofs` |
| `OrderedDelivery` | what a topic and its consumer promise (abstract) | instantiated twice by `CampaignWritePath` |
| `CampaignCache` | the Redis keys of one user, reads and writes | `MCCampaignCache`, `CampaignCacheProofs` |
| `CacheHelpers` | the text of keys, and the functions that work on the keys of all users | `MCHelpers`, `CacheHelpersProofs` |
| `Startup` | `main`: connections, handles, failures | extended by `Service` |
| `Service` | the way of requests through the router, and what they share | `MCService`, `ServiceProofs` |
| `HttpClient` | one call of the HTTP client, in time | `MCHelpers`, `HttpClientProofs` |
| `RequestValidationProofs` | theorems about `RequestValidation` | |
| `CampaignWritePathProofs` | theorems about `CampaignWritePath` | `DeliveryProofs` |
| `DeliveryProofs` | `CampaignWritePath` implements `OrderedDelivery` | `FaultProofs` |
| `FaultProofs` | what failures can do to `CampaignWritePath`, by counting | |
| `CampaignCacheProofs` | theorems about `CampaignCache` | |
| `CacheHelpersProofs` | theorems about `CacheHelpers` | |
| `ServiceProofs` | theorems about `Startup` and `Service` | |
| `HttpClientProofs` | theorems about `HttpClient` | |

An operator introduced by a comment that begins with *Mutant* is no part of a
specification: it is a definition with a plausible mistake in it. It is put in
the place of the definition it follows to see that a property notices.

### RequestValidation

`at[v]` is the check that validator `v` is about to make, `errCh` the channel,
`handler` the stage of the handler. A step is one check with its send
(`Report`): the send blocks when the channel is full and panics when it is
closed, as in Go. `Close` is the goroutine behind `wg.Wait()`; `ReceiveError` and
`PassValidation` are the two ways out of `for err := range errCh`. An update goes
on to `FetchCampaign`, `SendFetchError`, `SendModel`, `CloseFetch`, and answers by
`ReceiveFetchError` or `TakeModel`. Create and update share the actions because
the code of both has the same shape; the differences (every field present in a
create, optional ones in an update, the nil name) are in the requests and in
guards. The database appears as what the request sees of it: whether its name is
taken, whether its row exists, whether Redis has a copy that decodes. A malformed id
may read like filters, so that what is kept under its key is an answer: that decodes
into a record as empty as one that does not.

### CampaignWritePath

* `accepted`, `outbox`: requests answered with success, and the goroutines that
  publish them. `AcceptCreate` and `AcceptUpdate` are the handlers after
  validation, with the name lookup as it finds the table; a lookup that fails counts
  as one that finds nothing (`LookUpName`).
* `topic`, `offset`: a topic has one partition, so it is a sequence. `Publish`
  appends; `PublishUnacknowledged` appends and sends again; `PublishFails` gives up.
* `pc`, `attempt`, `failed`, `tx`, `carried`: a consumer and its current attempt.
  `carried` is `event.UpdateFields`, which is declared once and decoded over.
* `tasks`: write goroutines that have not returned, with the attempt they belong
  to, so that one that outlives its attempt is told from a current one.
* `campaigns`, `locations`, `statusLogs`: the tables. `Save` writes the row at
  once, since it goes through `db`; `Commit` writes nothing, since nothing was
  written through `tx`.
* `outcome` is history: what became of each message.
* `Crash` stops the process and starts it again: memory is lost, tables and
  topics stay, consumers subscribe again at the newest offset.

Abstractions: a failed call wrote nothing; `MergedLocations` and `MergedTags` are what
the merged record may carry: the row's, or those of any message of the campaign
(`MessagesOf`) that is in the outbox or a topic, since a copy in Redis was read from
the row or is the merged record of an update (when copies are set and deleted is the
subject of `CampaignCache`), and a copy that does not decode gives null tags; a create
event carries no update fields (they are null), so only the update consumer has
`carried`.

### OrderedDelivery

Every appended message is resolved at most once and in order, and a new
subscription gives up what is pending. It is the strongest promise that the
consumer's start at the newest offset leaves. `CreateDelivery` and
`UpdateDelivery` map it to the two topics of `CampaignWritePath`: a message is
named by its request.

### CampaignCache

`copies` are the keys `campaign:user:<user>:<id>`, `index` the set
`campaign:user:<user>:index`, `answers` the keys `campaign:user:<user>[:<filters>]`.
A campaign, in the table or in a copy, is a function from its columns to the writes it
has them from, so that "stale" is a difference of columns: the fields a request
names (`Fields`), the tags and the location, which every event takes from the record it
was merged into (`Merged`), and the columns the service sets itself when it stores the
event, `updated_at` and the status logs (`Stamped`). `carried` are the fields of the
update consumer's event, which each message is decoded over (`Decoded`): the row gets
all of them (`Stored`), the copy only those of its own write (`Overlaid`). An update
that finds no copy starts from the row without location and status logs (`Loaded`),
since nothing is preloaded there.

The key of an answer is the text of its filters. `KeyText` gives it, and several
filters may have the same; the id of a query is not part of it. `Skipped` are the
texts that the invalidation takes for those of an index or a copy
(`helperfunctions.go:230-232`). What the texts are is left to `CacheHelpers`, with
sorting and pagination.

`get` has the requests with their fill goroutines, `write` the accepted writes with
their events, `invalidation` and `recache` the other two goroutines of a write. One
action is one Redis command or one query. `calm` is history: it turns false when a
command fails, when a write starts while a fill or another write of the same campaign
is at work, or when a fill starts under a write.

`CopiesAreFresh` says in which columns a copy may differ from its row even in calm:
the stamped ones; a location that was not loaded; a field that the row has from an
event of another campaign, which is the other side of what `LeakedFields` shows below.
Where the row shows a write of its own campaign, the copy shows the same. In the same
way `FilterIsRespected` says that a reply is one to the filter asked for or to one with
the same key.

The keys of one user are modelled; an update that another user sends
(`AcceptForeignUpdate`; the code does not check the owner) changes the row and none
of these keys. That user's copy, which such an update may start from, is taken to be
the row as it is loaded, and updates of campaigns outside `Ids` are not distinguished
from those of other campaigns in it. A restart of the consumer appears as an event
that is lost, with `carried` empty after it; a create that fails half way is
stored as a whole or not at all (its parts are the subject of `CampaignWritePath`).

### CacheHelpers

A key is the sequence of its parts between colons, without the common
`campaign:user`. `AnswerKey` builds it from a query as `get.go:47-87` does, field by
field, so that a value with a colon makes two parts and tags are joined by commas;
`Meaning` is what `get.go:137-197` asks of the table for the same query, its `id`
included, which is not in the key (`AnswersAreSpecific` below). That an answer is found
by another query only if the two ask for the same, but for the id and the separators,
is `AnswersFitTheQuery`. `PassesForCopy` is `isIndividualCampaignKey`, by the last part;
`PassesForIndex` is `strings.Contains(key, ":index")`. `run[c]` is one call of a
function, with the step it is at; each action is one command, which may fail, and
`StopCalls` stops the process between any two. Keys may have expired or not when a
call starts, but expiry is no action here: `timed` records which index has a time to
live at all, which is what `IndexExpires` is about. Three things the code does are
stated as they are, not as a fault: the answer under the bare key survives an
invalidation (`ListIsFresh` below), so do answers whose text looks like an index or
a copy, and an error between `SAdd` and `Expire` leaves an index for ever.
`GetCampaignFromRedis` only reads one key and is left out.

### Startup and Service

`Startup` has one action per step of `main`. `handles` are the package variables set
so far; `redisUrl` is what the configuration says, since only an address that is
missing or malformed leaves `redis_provider.Client` nil. A step that fails ends
the process, by `panic`, `log.Fatal` or a nil configuration that is dereferenced.

`Service` extends it: while `stage` is "serving" requests arrive. `bundle` is
`localization.Bundle`, named for the request that made it, `loaded` the languages in
each bundle, `mutex` the mutex of `configs`, `auth` the field of
`middleware.UserDatafromGataway` that decides. `using[r]` is the bundle that a
request is writing to or reading in this moment: these accesses last from one action
to the next, and when two of them overlap on one map the Go runtime may end the
process (`MapsCollide`). `Handle` chooses what the handler comes to among the results
of its kind (`RequestValidation` and `CampaignCache` say when); `StatusOf` maps it as
`ErrorBasedOnResponse` does. `background` are the goroutines of accepted writes,
which need the client of Redis. `alone` is history: no other request was under way
from a request's arrival to its end. A panic in `LoadBundle` comes before
`gin.Recovery()` in the chain and closes the connection; one in a handler is answered
with a 500; one in any other goroutine is `Dies`.

### HttpClient

`attempt`, `now`, `began`, `wake`: the attempt, the time since the call, when this
attempt began and when the next is due. `Tick` lets time pass while nothing is
ready: an attempt lasts at most until the context or the client's own timeout ends
it, a wait until `select` has a case. When both cases are ready either is taken.

## 3. What the runs show

Deadlock is not checked: a run is over when its requests are served, and the
service then waits for the next one.

| Run | Instance | Checks |
|---|---|---|
| `Validation` | every request of `MCRequests`: creates that break each rule alone and in every combination, updates with dates and limits given together, alone or not at all; a database that may fail | `AcceptedIsValid`, `RejectionIsJustified`, `MissingCampaignIsRefused`, `CrashNeedsMissingName`, `NoSenderIsStuck`, the inductive invariant, and that every request is answered and every goroutine returns |
| `WriteFaultFree` | two creates and any of five updates, three requests, no failure | `StoredUpdateHolds`, `EveryStoredMessageIsLogged`, `EventuallyStored` |
| `WriteFaults` | two requests with two failures, or one with four; one restart, an unreadable update | `StoredIsComplete`, `NoOrphans`, `SecondLocationNeedsFault`, `IdleHoldsNoTransaction`, `AttemptsAreBounded`, `DropNeedsFaults`, `RestartKeepsUpdates`, the inductive invariant, `EventuallyResolved`, and both topics implement `OrderedDelivery` |
| `CacheReads` | two GETs of lists, one write, two campaigns, three filters of which two share a key; all three requests, or two of them and a failure | `FilterIsRespected`, `FilteredAnswersAreFresh`, `CachedCampaignsExist`, the inductive invariant |
| `CacheWrites` | two campaigns and two fields; one write, one GET and one failure, or two writes alone | `CopiesAreFresh`, `StaleKeysExpire` |
| `Service` | every start of the process with any Redis address; two requests of any kind, header and result; one language; one failure | `ServingIsConnected`, `AloneIsTranslated`, `OwnHeaderDecides`, `DeathHasACause`, the inductive invariant, `EveryRequestEnds` |
| `Helpers` | either three calls of the cache helpers, over two users, two campaigns and six queries, with one failure or crash; or one HTTP call with any timeout in {0, 3}, retries from -1 to 2 and waits up to 3 | `AnswersFitTheQuery`, `IndexExpires`, `InvalidationIsExact`, `ActiveListIsComplete`; `ReturnsByDeadline`, `OutcomeIsJustified` |

Runs that end in a counterexample, each against a sentence of the code:

| Run | What happens |
|---|---|
| `MissingName` | `models/campaign.go:128` makes the name of an update optional; `update.go:96` dereferences it in a goroutine: the process dies. |
| `LeakedFields` | "only the changed fields" (`campaigns.go:162`): update campaign 1's price, then campaign 2's name; campaign 2 gets campaign 1's price, because `consumer.go:112` declares the event outside its loop. |
| `PartialCreate` | "start a transaction" (`campaigns.go:22`): three failed logs drop the message, and the campaign is in the table. |
| `ListIsFresh` | "Delete all query cache keys" (`helperfunctions.go:217`): the pattern misses the key of the query without filters. |
| `AnswersAreSpecific` | "for this specific query" (`get.go:91`): the id is not in the key, so one campaign is answered with the list of all. |

### Bounds and why they are enough

* `Validation` is one request: requests share nothing but the database, and what
  another request can change there is chosen at the start. The channel's
  arithmetic (six checks, five slots, one receive) needs all three date rules, the
  limits, the price and the name to break at once, and `MCCreates` has that request.
* `WriteFaultFree` needs three messages for a field to leak from one update into
  another; `LeakedFields` needs a fourth, for the second campaign. `WriteFaults`
  needs two failures to make an attempt give up while the goroutine of the one
  before still runs; a drop needs three, and a second copy of the message one
  more. The action constraint `Bounded` allows the four where there is one
  request and two where there are two. Three columns stand for the kinds
  the code distinguishes: checked (name), always written (tags), any other (price).
* In `CacheReads` a GET fills and another reads; a write between them makes the
  difference. Its filters depend on the campaign's name: two exclude each other and
  have one key, the third has a key of its own. `CacheWrites` needs a second update for
  a base that the first one cached, and for a field that the consumer carries from
  one campaign to the other; `MCSpec` lets two writes meet only each other, and a failure
  meet two requests (`Meets`). A create that is followed by an update, more writes, and
  two writes together with a GET or a failure are left to the theorems.
* `Service` needs two requests for one to disturb the other, and the failure
  of one file, connection or port: after it the process is gone, or the request is.
  A third request adds no kind of overlap, and the proofs are for any number.
* `Helpers` has three calls: two that leave keys in Redis, or overlap, and one that
  looks. Its queries have a value with a colon that begins with "index", a tag with a
  comma, values that look like a uuid, and a limit without a skip; batches are of
  one key, so that there are several. For the HTTP client the deadline of 3 falls
  into each of three attempts and the waits between them. The two modules share
  nothing, and a behaviour is one of either (`part`).
* `MaxRequests`, `MaxFaults`, `MaxCrashes`, `MaxGets`, `MaxWrites`, `MaxFailures` and
  `MaxCalls`, with `Bounded` and `Meets`, are the only bounds.

### Fairness

Goroutines that can run do run, and calls to Kafka, Redis and Postgres return
(each with a result or an error). Every validator, the closer, the fetch
goroutine, the publisher, each consumer, the write goroutines, fills,
invalidations and re-caches are therefore weakly fair. Clients need not send
anything, nothing has to fail, the process has not to crash. In `CampaignCache`
copies and answers are set with a time to live, so their expiry is fair; the
index gets its own only in a later command, so its expiry is not.
In `Service` the goroutine of each request is weakly fair, and so is the mutex, which
Go gives to those who wait; `main` need not get anywhere. `CacheHelpers` and
`HttpClient` have no liveness: their deadline is a bound on `now`, which only passes
while nothing is ready.
`EventuallyStored` is stated of requests accepted when the consumer has
subscribed: one that is accepted earlier may be skipped.

## 4. What is proved

The theorems hold for every value of the constants. Their only assumptions are
`RequestAssumption`, `WritePathAssumption`, `CacheAssumption`, `KeysAssumption`,
`StartupAssumption`, `ServiceAssumption` and `HttpAssumption`, which TLC evaluates in
every run of the modules: requests and calls have the right types, an accepted update
carries a name (without one the process does not get there), there are finitely many
campaigns, the columns a request names are other than those the service sets, `SetCampaignInRedis` is called with a campaign and a fill and a look at the
answers with a query, the id of a campaign passes for one, the default language is one
of the languages, the clock and the bounds are numbers. One theorem has a hypothesis
more, which it states: `StoredUpdatesHold`.

### `RequestValidationProofs`

| Theorem | Statement |
|---|---|
| `RequestInvariantHolds` | `Spec => []RequestInvariant` |
| `SendersAreNeverStuck` | `Spec => []NoSenderIsStuck` |
| `OnlyMissingNamesCrash` | `Spec => []CrashNeedsMissingName` |
| `AcceptedRequestsAreValid` | `Spec => []AcceptedIsValid` |
| `RejectionsAreJustified` | `Spec => []RejectionIsJustified` |
| `MissingCampaignsAreRefused` | `Spec => []MissingCampaignIsRefused` |

`AcceptedIsValid` speaks of the moment of the answer, and its reason lies in the
past: the channel was closed, hence all validators had returned
(`StagesAreOrdered`), and it was empty although no error had been taken, hence each
check had found its rule kept (`SilenceIsPassing`). That an error is of a broken rule
(`ErrorsAreTrue`) gives `RejectionIsJustified`. `SlotsAreEnough` counts: the errors in
the channel and the checks to come are at most six, five once an error was taken,
which is the channel's capacity. `FetchErrorsAreSeen` says that the error of the
fetch goroutine is in its channel before the empty model is in the other, which the
handler reads second. A validator that is still running excludes the closed channel,
so that no send panics. One lemma per action shows that the conjunction is kept;
`CheckedKeeps` is shared by the field checks and the name check.

### `CampaignWritePathProofs`

| Theorem | Statement |
|---|---|
| `InvariantHolds` | `Spec => []WritePathInvariant` |
| `TypeCorrect` | `Spec => []TypeOK` |
| `StoredMeansComplete` | `Spec => []StoredIsComplete` |
| `NothingIsOrphaned` | `Spec => []NoOrphans` |
| `TransactionsAreClosed` | `Spec => []IdleHoldsNoTransaction` |

`StoredIsComplete` is not inductive. A message becomes stored when its two
goroutines have returned and `errCh` is empty, so one needs to know that what a
waiting consumer lacks is still to be written by a goroutine of this attempt or
is told by an error (`WaitingIsAccountedFor`); that goroutines of given-up attempts
only add to the tables, and only for rows that exist (`TasksHaveRows`); that an
error is pending only while its consumer waits (`FailureIsRolledBack`); that a
consumer is at a message (`OffsetsAreValid`); and that update messages are of
campaigns in the table, where they stay (`MessagesAreWellFormed`).
`WritePathInvariant` is the conjunction. The proof has a lemma for `Init`, one for
each action or group of actions and each conjunct that it can disturb, and lemmas
about sequences and `Over`.

### `DeliveryProofs`

| Theorem | Statement |
|---|---|
| `HeadsAreNext` | `Spec => []HeadIsNext` |
| `TopicsDeliverInOrder` | `Spec => MessagesAreDeliveredInOrder` |

That `Resolve` may only take the first pending message is what the steps of the write
path do not show: a consumer resolves the message at its own `offset`. `HeadIsNext`
relates the two. What lies before the offset is resolved, and as long as the consumer
listens, what lies from there on is pending; between a restart and the new
subscription only the first half holds, and `Subscribe` gives up what is left.
`StepsAreDelivery` maps each step to a step of `OrderedDelivery`, or to none, for
either topic.

### `FaultProofs`

| Theorem | Statement |
|---|---|
| `StoredMessagesAreLogged` | `Spec => []EveryStoredMessageIsLogged` |
| `DropsAreEarned` | `Spec => []DropNeedsFaults` |
| `TriesAreBounded` | `Spec => []AttemptsAreBounded` |
| `SecondLocationsAreFaults` | `Spec => []SecondLocationNeedsFault` |
| `RestartsKeepUpdates` | `Spec => []RestartKeepsUpdates` |
| `StoredUpdatesHold` | with `MaxFaults = 0`, as in `WriteFaultFree`: `Spec => []StoredUpdateHolds` |

These bound one number by another, and none is inductive: what is written is counted
too late. Each has an invariant that adds what may still be written, or has already
been paid for:

* `LogsCover`: beside the stored messages of a campaign it counts the message a
  consumer waits for, once its log is written, so that the commit that makes it stored
  finds the log there. Write goroutines are told apart by their attempt, since a log
  of a given-up attempt pays for nothing.
* `FaultsCover`: the dropped messages, `MaxRetries` each, and what the message at hand
  has spent (its attempts so far, and one for an error that is pending) are at
  most `faults`. An attempt ends in an error only by a step that adds a fault, and a
  goroutine that is still running from an attempt before adds no error twice.
* `TriesCover`: the locations of a campaign and the goroutines that may still write one
  are at most its tries: `MaxRetries` for each create message that the consumer has
  passed, the attempts made at the one it is at. It needs that goroutines are finitely
  many (`GoroutinesFinite`).
* `CopiesCover`: the locations and goroutines, or the row, and the copies of a create
  event that are still to be saved, in the outbox or the topic, are at most one and
  the failures so far. A resend and a retry make a copy more, and each has cost a
  failure; without one, a create is saved once.
* `UpdatesShow`: `carried` has the columns of the message that is being saved, with their
  values, and while no call failed, the row shows the update that the consumer waits
  for. A create that is saved after an update of its campaign would need a second
  copy, which by `CopiesCover` costs a failure.

### `CampaignCacheProofs`

| Theorem | Statement |
|---|---|
| `CacheIsConsistent` | `Spec => []CacheInvariant` |
| `CacheTypes` | `Spec => []TypeOK` |
| `OnlyRowsAreCached` | `Spec => []CachedCampaignsExist` |
| `RepliesRespectFilters` | `Spec => []FilterIsRespected` |
| `InvalidationLeavesFreshAnswers` | `Spec => []FilteredAnswersAreFresh` |
| `RecacheLeavesFreshCopies` | `Spec => []CopiesAreFresh` |

Freshness speaks of the moment when all writes are over; `CacheInvariant` says what
holds on the way. In calm no fill is at work while a write is, so what a fill read is
still what the table shows when it is cached (`FillsAreFresh`). A filtered answer that
is there while a write is at work is one that the write's invalidation has still to
look for or has found (`AnswersAreDeleted`). What a write started from agrees with the
row until the event comes through, what the write made of it agrees from then on, and
the copy is gone or the write's own, unless the re-cache is still to come
(`CopiesFollowWrites`): this is what makes the order of the three goroutines
irrelevant.

The step that needs an argument is the event itself (`StoredAgrees`): the row gets
fields that the copy will not have. A field carried over is from a write of this
campaign or of another. If of another, the copy may differ from it. If of this one, the
row still shows it, because in calm only a later update of the same campaign could
have changed the field, and that one would have been decoded over it
(`CarriedFieldsAreStored`); so the write started from it, or from a copy that agreed
with it. That writes shown in rows and carried in the event have been sent keeps a
write yet to come from being taken for one of them.

`FilterIsRespected` needs that lists in fills and under keys respect the filter of
their query, whose key they are under (`ListsRespectFilters`), `CachedCampaignsExist`
that a create has nothing to re-cache (`WritesAreWellFormed`).

### `CacheHelpersProofs`

| Theorem | Statement |
|---|---|
| `KeysAreConsistent` | `KeysSpec => []KeysInvariant` |
| `IndexesExpire` | `KeysSpec => []IndexExpires` |
| `ActiveListsAreComplete` | `KeysSpec => []ActiveListIsComplete` |
| `InvalidationsAreExact` | `KeysSpec => []InvalidationIsExact` |
| `AnswersAreFoundByKey` | `KeysSpec => []FoundUnderTheirKey`: a look finds only answers to queries that have its key |

The properties are about calls that are over; `KeysInvariant` is about calls under way.
An index without a time to live has a call that is about to give it one
(`IndexWillExpire`). A list has each copy that is to be in it among those it got or
those in its batches (`ListsAreUnderWay`). An invalidation that is alone has done what
its earlier steps do, and the answers that are left are those it is about to delete
(`InvalidationsAreUnderWay`). `Follows` says what a step does to other calls, `Moves`
what it leaves its own call at; with one lemma for each action in these terms, a part
of the invariant is looked at only in the actions that can disturb it.

### `ServiceProofs`

| Theorem | Statement |
|---|---|
| `ServiceInvariantHolds` | `Spec => []ServiceInvariant` |
| `ServedMeansConnected` | `Spec => []ServingIsConnected` |
| `AloneMeansTranslated` | `Spec => []AloneIsTranslated` |
| `OwnHeadersDecide` | `Spec => []OwnHeaderDecides` |
| `DeathsAreExplained` | `Spec => []DeathHasACause` |

`AloneIsTranslated` needs the whole way of the request: while it is alone the
bundle is its own (`AloneMeansAlone`), it writes to and reads from that one
(`UsesEndInTime`), and what it has loaded and what it has still to load are together
all languages (`BundleFills`). `OwnHeaderDecides` needs that the global
still holds what this request decoded when it is checked (`HeadersAreDecoded`), and
that the global is never true unless some header made it so (`RefusalsAreAskedFor`).
`DeathHasACause` needs two users of one bundle for a collision, which excludes that
either is alone, and `HandlesSoFar`, which follows `main` from step to step and also
gives `ServingIsConnected`.

### `HttpClientProofs`

| Theorem | Statement |
|---|---|
| `CallsReturnByDeadline` | `HttpSpec => []ReturnsByDeadline` |
| `OutcomesAreJustified` | `HttpSpec => []OutcomeIsJustified` |

### Only model-checked

* Liveness: `EveryRequestIsAnswered`, `GoroutinesReturn`, `EventuallyStored`,
  `EventuallyResolved`, `StaleKeysExpire`, `EveryRequestEnds`. Fairness is `ENABLED`,
  which is out of the prover's reach.
* `AnswersFitTheQuery`: `AnswersAreFoundByKey` proves that a look finds only answers to
  queries with its key; what queries with one key have in common is left to TLC. A key
  is built by folding over the parameters, and tags are joined character by
  character: induction over data, and strings, of which the provers know nothing but
  equality. The queries of `Helpers` have keys that do coincide: with and without an
  id, and by a colon and a comma.

Every other invariant of the runs is a theorem.

## 5. What is not modelled

* The rate limiter, MongoDB and Novu: nothing in the program calls them.
* Logging, constants and flags: output, or no state. The logger is a handle of `Startup`.
* The routes that are commented out (`router.go:60-387`), CORS and the request
  logger's middleware, which change nothing that requests share.
* The watcher of a configuration file (viper), which replaces values and not
  providers; go-redis, sarama and gorm beyond the result of a call.
* The loss of precision of numbers on their way through
  `map[string]interface{}`; an event that does not decode any more is modelled.
* Redis evicting keys, and the deletion of campaigns, for which there is no request.
* The glob characters that a user id may have in the pattern of an invalidation: a user
  id is one literal part of a key.

One thing could be taken further. An update starts from a cached copy, and
`CampaignWritePath` lets that be any copy of a message that was not lost: a module
composed with `CampaignCache` would have only those that can still be there, and that of
a lost event.

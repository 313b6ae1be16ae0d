------------------------- MODULE CampaignWritePath -------------------------
(***************************************************************************)
(* How an accepted request reaches Postgres: the publish goroutine of the  *)
(* handler, the Kafka topics create_campaign and update_campaign (one      *)
(* partition each), and the goroutine that consumes each topic and writes  *)
(* the campaign, its location and its status log.                          *)
(*                                                                         *)
(* Consumers start at the newest offset whenever the process starts, keep  *)
(* no offset, try a message three times and then drop it.  The writes go   *)
(* through the shared database handle: the transaction opened beside them  *)
(* covers none of them, so a rollback undoes nothing.                      *)
(***************************************************************************)
EXTENDS Integers, Sequences, FiniteSets

CONSTANTS
    Columns,      \* the columns of a campaign that requests set
    Values,       \* what a column, or a location, may hold
    Creations,    \* the create requests clients send, see CreationType
    Changes,      \* the update requests clients send, see ChangeType
    NoRow,        \* no campaign has this id
    NoLocation,   \* the event carries no location
    Null,         \* the tags of a record that was not decoded
    MaxRequests,  \* bound: requests accepted
    MaxFaults,    \* bound: failures of Kafka and of the database
    MaxCrashes    \* bound: restarts of the process

Create == "create_campaign"
Update == "update_campaign"
Topics == {Create, Update}

(* A readable event decodes into a campaign; one with a number that the    *)
(* trip through map[string]interface{} pushes out of int64 does not.       *)
Row == [Columns -> Values]
Partial == UNION {[S -> Values] : S \in SUBSET Columns}
CreationType == [columns: Row, location: Values, readable: BOOLEAN]
ChangeType == [columns: Partial, location: Values \union {NoLocation}, readable: BOOLEAN]

(* An update that leaves out the name kills the process before it gets     *)
(* here, see RequestValidation.                                            *)
ASSUME WritePathAssumption ==
    /\ {"name", "tags"} \subseteq Columns
    /\ NoRow \notin Row
    /\ NoLocation \notin Values
    /\ Null \in Values
    /\ Creations \subseteq CreationType
    /\ Changes \subseteq ChangeType
    /\ \A c \in Changes : "name" \in DOMAIN c.columns
    /\ MaxRequests \in Nat /\ MaxFaults \in Nat /\ MaxCrashes \in Nat

(* A campaign is identified by the number of the request that created it:  *)
(* the handler draws a fresh uuid for each.                                *)
Ids == 1 .. MaxRequests

Message == [request: Ids, id: Ids, columns: Partial, tags: Values,
            location: Values \union {NoLocation}, readable: BOOLEAN]

Envelope == [topic: Topics, message: Message]

Task == [topic: Topics, offset: Nat, attempt: Nat, kind: {"location", "log"}]

Outcomes == {"pending", "stored", "dropped", "skipped"}

MaxRetries == 3
-----------------------------------------------------------------------------
VARIABLES
    accepted,    \* how many requests were answered with success
    outbox,      \* the publish goroutines that have not returned
    topic,       \* the messages of each topic
    outcome,     \* history: what became of each message of each topic
    campaigns,   \* the campaigns table
    locations,   \* for each campaign, its rows of the locations table
    statusLogs,  \* for each topic and campaign, how many status logs it wrote
    pc,          \* where each consumer is
    offset,      \* the offset each consumer is at
    attempt,     \* the attempt it is in
    failed,      \* errCh of that attempt holds an error
    tx,          \* whether its transaction is open
    carried,     \* event.UpdateFields of the update consumer, never reset
    tasks,       \* the write goroutines that have not returned
    faults,      \* how many failures there were
    crashes      \* how many restarts

requests == <<accepted, outbox>>
log == <<topic, outcome>>
tables == <<campaigns, locations, statusLogs>>
consumers == <<pc, offset, attempt, failed, tx, carried>>
vars == <<requests, log, tables, consumers, tasks, faults, crashes>>

States == {"opening", "polling", "decoding", "saving", "waiting", "stopped"}

TypeOK ==
    /\ accepted \in 0 .. MaxRequests
    /\ outbox \subseteq Envelope
    /\ topic \in [Topics -> Seq(Message)]
    /\ outcome \in [Topics -> Seq(Outcomes)]
    /\ campaigns \in [Ids -> Row \union {NoRow}]
    /\ locations \in [Ids -> Seq(Values)]
    /\ statusLogs \in [Topics -> [Ids -> Nat]]
    /\ pc \in [Topics -> States]
    /\ offset \in [Topics -> Nat \ {0}]
    /\ attempt \in [Topics -> 1 .. MaxRetries]
    /\ failed \in [Topics -> BOOLEAN]
    /\ tx \in [Topics -> {"none", "open"}]
    /\ carried \in Partial
    /\ tasks \subseteq Task
    /\ faults \in 0 .. MaxFaults
    /\ crashes \in 0 .. MaxCrashes

EmptyMap == [c \in {} |-> c]

(* The keys of f are written over those of g.                              *)
Over(f, g) ==
    [c \in DOMAIN f \union DOMAIN g |-> IF c \in DOMAIN f THEN f[c] ELSE g[c]]

Init ==
    /\ accepted = 0
    /\ outbox = {}
    /\ topic = [t \in Topics |-> << >>]
    /\ outcome = [t \in Topics |-> << >>]
    /\ campaigns = [id \in Ids |-> NoRow]
    /\ locations = [id \in Ids |-> << >>]
    /\ statusLogs = [t \in Topics |-> [id \in Ids |-> 0]]
    /\ pc = [t \in Topics |-> "opening"]
    /\ offset = [t \in Topics |-> 1]
    /\ attempt = [t \in Topics |-> 1]
    /\ failed = [t \in Topics |-> FALSE]
    /\ tx = [t \in Topics |-> "none"]
    /\ carried = EmptyMap
    /\ tasks = {}
    /\ faults = 0
    /\ crashes = 0

Fault == faults < MaxFaults /\ faults' = faults + 1

Exists(id) == campaigns[id] # NoRow
-----------------------------------------------------------------------------
(* The handlers, after validation (see RequestValidation): the answer is   *)
(* success, and a goroutine that publishes the event is started.           *)
Accept(t, m) ==
    /\ accepted' = accepted + 1
    /\ outbox' = outbox \union {[topic |-> t, message |-> m]}
    /\ UNCHANGED <<log, tables, consumers, tasks, crashes>>

NameIsFree(name, id) ==
    \A other \in Ids \ {id} : Exists(other) => campaigns[other]["name"] # name

(* A query for the name that fails counts as one that finds none.          *)
LookUpName(name, id) ==
    \/ NameIsFree(name, id) /\ UNCHANGED faults
    \/ Fault

AcceptCreate ==
    /\ accepted < MaxRequests
    /\ \E c \in Creations :
          LET id == accepted + 1 IN
          /\ LookUpName(c.columns["name"], id)
          /\ Accept(Create,
                    [request |-> id, id |-> id, columns |-> c.columns,
                     tags |-> c.columns["tags"], location |-> c.location,
                     readable |-> c.readable])

(* The messages of a campaign, published or not.  A copy of it in Redis    *)
(* was read from its row or is the merged record of one of its updates.    *)
MessagesOf(id) ==
    {m \in {e.message : e \in outbox}
            \union UNION {{topic[t][o] : o \in DOMAIN topic[t]} : t \in Topics} : m.id = id}

(* The location in the merged record: the new one, the one in the cached   *)
(* copy, or none when the record was read from Postgres, where it is not   *)
(* preloaded.                                                              *)
MergedLocations(id, c) ==
    IF c.location # NoLocation THEN {c.location}
    ELSE {NoLocation} \union {locations[id][i] : i \in DOMAIN locations[id]}
                     \union {m.location : m \in MessagesOf(id)}

(* Its tags: the new ones, those of the row, or those of a copy, which may *)
(* be behind the row or ahead of it, or not be one that decodes.           *)
MergedTags(id, c) ==
    IF "tags" \in DOMAIN c.columns THEN {c.columns["tags"]}
    ELSE {campaigns[id]["tags"], Null} \union {m.tags : m \in MessagesOf(id)}

(* The event carries the fields of the request and, always, the tags of    *)
(* the merged record.                                                      *)
AcceptUpdate ==
    /\ accepted < MaxRequests
    /\ \E id \in Ids, c \in Changes :
          /\ Exists(id)
          /\ LookUpName(c.columns["name"], id)
          /\ \E place \in MergedLocations(id, c), tags \in MergedTags(id, c) :
                Accept(Update,
                       [request |-> accepted + 1, id |-> id, columns |-> c.columns,
                        tags |-> tags, location |-> place, readable |-> c.readable])
-----------------------------------------------------------------------------
(* SendMessage: the broker appends the event and acknowledges it.          *)
Appended(e) ==
    /\ topic' = [topic EXCEPT ![e.topic] = Append(@, e.message)]
    /\ outcome' = [outcome EXCEPT ![e.topic] = Append(@, "pending")]

Publish ==
    \E e \in outbox :
        /\ Appended(e)
        /\ outbox' = outbox \ {e}
        /\ UNCHANGED <<accepted, tables, consumers, tasks, faults, crashes>>

(* The acknowledgement is lost: the producer, which is not idempotent,     *)
(* sends the event again.                                                  *)
PublishUnacknowledged ==
    \E e \in outbox :
        /\ Fault
        /\ Appended(e)
        /\ UNCHANGED <<requests, tables, consumers, tasks, crashes>>

(* The retries run out: the error is logged.                               *)
PublishFails ==
    \E e \in outbox :
        /\ Fault
        /\ outbox' = outbox \ {e}
        /\ UNCHANGED <<accepted, log, tables, consumers, tasks, crashes>>
-----------------------------------------------------------------------------
(* Mutant: sarama.OffsetOldest.                                            *)
OldestOffset(t) == 1

(* sarama.OffsetNewest: the next message to be appended.                   *)
StartOffset(t) == Len(topic[t]) + 1

(* The consumer of t subscribes; nothing pending will be read.             *)
Subscribe(t) ==
    /\ pc[t] = "opening"
    /\ pc' = [pc EXCEPT ![t] = "polling"]
    /\ offset' = [offset EXCEPT ![t] = StartOffset(t)]
    /\ outcome' = [outcome EXCEPT ![t] =
                     [o \in DOMAIN @ |-> IF @[o] = "pending" THEN "skipped" ELSE @[o]]]
    /\ UNCHANGED <<requests, topic, tables, attempt, failed, tx, carried, tasks,
                   faults, crashes>>

(* The error of a goroutine nobody waits for: the topic has no consumer    *)
(* until the process restarts.                                             *)
SubscribeFails(t) ==
    /\ pc[t] = "opening"
    /\ Fault
    /\ pc' = [pc EXCEPT ![t] = "stopped"]
    /\ UNCHANGED <<requests, log, tables, offset, attempt, failed, tx, carried, tasks,
                   crashes>>

Poll(t) ==
    /\ pc[t] = "polling"
    /\ offset[t] <= Len(topic[t])
    /\ pc' = [pc EXCEPT ![t] = "decoding"]
    /\ attempt' = [attempt EXCEPT ![t] = 1]
    /\ UNCHANGED <<requests, log, tables, offset, failed, tx, carried, tasks, faults, crashes>>

(* The message the consumer of t is at.                                    *)
Current(t) == topic[t][offset[t]]

(* Mutant: break instead of continue leaves the consumer's loop.           *)
FinishAndLeave(t, result) ==
    /\ outcome' = [outcome EXCEPT ![t][offset[t]] = result]
    /\ offset' = [offset EXCEPT ![t] = @ + 1]
    /\ pc' = [pc EXCEPT ![t] = "stopped"]
    /\ UNCHANGED attempt

Finish(t, result) ==
    /\ outcome' = [outcome EXCEPT ![t][offset[t]] = result]
    /\ offset' = [offset EXCEPT ![t] = @ + 1]
    /\ pc' = [pc EXCEPT ![t] = "polling"]
    /\ UNCHANGED attempt

(* Mutant: attempt <= maxRetries.                                          *)
RetryOnceMore(t) ==
    \/ /\ attempt[t] <= MaxRetries
       /\ attempt' = [attempt EXCEPT ![t] = @ + 1]
       /\ pc' = [pc EXCEPT ![t] = "decoding"]
       /\ UNCHANGED <<offset, outcome>>
    \/ attempt[t] > MaxRetries /\ Finish(t, "dropped")

(* Mutant: a message is dropped after two attempts.                        *)
RetryOnce(t) ==
    \/ /\ attempt[t] < MaxRetries - 1
       /\ attempt' = [attempt EXCEPT ![t] = @ + 1]
       /\ pc' = [pc EXCEPT ![t] = "decoding"]
       /\ UNCHANGED <<offset, outcome>>
    \/ attempt[t] >= MaxRetries - 1 /\ Finish(t, "dropped")

(* Mutant: the attempts are not counted.                                   *)
RetryForever(t) ==
    /\ pc' = [pc EXCEPT ![t] = "decoding"]
    /\ UNCHANGED <<offset, outcome, attempt>>

(* An attempt failed: the next one, or the message is dropped.             *)
Retry(t) ==
    \/ /\ attempt[t] < MaxRetries
       /\ attempt' = [attempt EXCEPT ![t] = @ + 1]
       /\ pc' = [pc EXCEPT ![t] = "decoding"]
       /\ UNCHANGED <<offset, outcome>>
    \/ attempt[t] = MaxRetries /\ Finish(t, "dropped")

(* Mutant: the keys of earlier messages win over those of this one.        *)
CarryOver(t) == Over(carried, Current(t).columns)

(* Unmarshal into the event of the last message: the keys of this one are  *)
(* added to the map, the others stay.  A create event carries null, which  *)
(* empties the map of its own consumer.                                    *)
Carry(t) == Over(Current(t).columns, carried)

Decoded(t) == carried' = IF t = Update THEN Carry(t) ELSE carried

(* The event decodes and the transaction begins.                           *)
Begin(t) ==
    /\ pc[t] = "decoding"
    /\ Current(t).readable
    /\ Decoded(t)
    /\ tx' = [tx EXCEPT ![t] = "open"]
    /\ pc' = [pc EXCEPT ![t] = "saving"]
    /\ UNCHANGED <<requests, log, tables, offset, attempt, failed, tasks, faults, crashes>>

(* The event does not decode into a campaign.                              *)
DecodeFails(t) ==
    /\ pc[t] = "decoding"
    /\ ~Current(t).readable
    /\ Decoded(t)
    /\ Retry(t)
    /\ UNCHANGED <<requests, topic, tables, failed, tx, tasks, faults, crashes>>

BeginFails(t) ==
    /\ pc[t] = "decoding"
    /\ Current(t).readable
    /\ Decoded(t)
    /\ Fault
    /\ Retry(t)
    /\ UNCHANGED <<requests, topic, tables, failed, tx, tasks, crashes>>
-----------------------------------------------------------------------------
(* What Save writes: a create replaces the whole row, or inserts it; an    *)
(* update writes the carried fields and the tags, if the row is there.     *)
Written(t, m) ==
    IF t = Create THEN m.columns
    ELSE IF Exists(m.id) THEN [Over(carried, campaigns[m.id]) EXCEPT !["tags"] = m.tags]
    ELSE NoRow

(* The two write goroutines of the attempt; without a location an update's *)
(* location goroutine does nothing.                                        *)
NewTasks(t) ==
    {[topic |-> t, offset |-> offset[t], attempt |-> attempt[t], kind |-> k] :
        k \in {"log"} \union IF Current(t).location = NoLocation THEN {} ELSE {"location"}}

(* Mutant: the goroutines are started whether or not the row was saved.    *)
SaveAnyway(t) ==
    /\ pc[t] = "saving"
    /\ \/ campaigns' = [campaigns EXCEPT ![Current(t).id] = Written(t, Current(t))]
       \/ UNCHANGED campaigns
    /\ tasks' = tasks \union NewTasks(t)
    /\ pc' = [pc EXCEPT ![t] = "waiting"]
    /\ UNCHANGED <<requests, log, locations, statusLogs, offset, attempt, failed, tx,
                   carried, faults, crashes>>

Save(t) ==
    /\ pc[t] = "saving"
    /\ campaigns' = [campaigns EXCEPT ![Current(t).id] = Written(t, Current(t))]
    /\ tasks' = tasks \union NewTasks(t)
    /\ pc' = [pc EXCEPT ![t] = "waiting"]
    /\ UNCHANGED <<requests, log, locations, statusLogs, offset, attempt, failed, tx,
                   carried, faults, crashes>>

(* Mutant: the error path of Save forgets tx.Rollback().                   *)
SaveFailsWithoutRollback(t) ==
    /\ pc[t] = "saving"
    /\ Fault
    /\ Retry(t)
    /\ UNCHANGED <<requests, topic, tables, failed, tx, carried, tasks, crashes>>

SaveFails(t) ==
    /\ pc[t] = "saving"
    /\ Fault
    /\ tx' = [tx EXCEPT ![t] = "none"]
    /\ Retry(t)
    /\ UNCHANGED <<requests, topic, tables, failed, carried, tasks, crashes>>

(* A write goroutine.  Creating a campaign adds a location row with a new  *)
(* id; updating one writes every location row the campaign has.            *)
Moved(task, m) ==
    IF task.topic = Create THEN Append(locations[m.id], m.location)
    ELSE [i \in DOMAIN locations[m.id] |-> m.location]

RunTask(task) ==
    LET m == topic[task.topic][task.offset] IN
    /\ tasks' = tasks \ {task}
    /\ IF task.kind = "location"
       THEN /\ locations' = [locations EXCEPT ![m.id] = Moved(task, m)]
            /\ UNCHANGED statusLogs
       ELSE /\ statusLogs' = [statusLogs EXCEPT ![task.topic][m.id] = @ + 1]
            /\ UNCHANGED locations
    /\ UNCHANGED <<requests, log, campaigns, consumers, faults, crashes>>

(* The goroutine belongs to the attempt its consumer is in, and not to one *)
(* that was given up while the goroutine was still running.                *)
IsCurrent(task) ==
    /\ pc[task.topic] = "waiting"
    /\ task.offset = offset[task.topic]
    /\ task.attempt = attempt[task.topic]

(* The write fails: tx.Rollback(), then the error is sent.                 *)
FailTask(task) ==
    /\ Fault
    /\ tasks' = tasks \ {task}
    /\ IF IsCurrent(task)
       THEN /\ failed' = [failed EXCEPT ![task.topic] = TRUE]
            /\ tx' = [tx EXCEPT ![task.topic] = "none"]
       ELSE UNCHANGED <<failed, tx>>
    /\ UNCHANGED <<requests, log, tables, pc, offset, attempt, carried, crashes>>

(* The first error ends the attempt, even if the other goroutine is still  *)
(* writing.                                                                *)
GiveUp(t) ==
    /\ pc[t] = "waiting"
    /\ failed[t]
    /\ failed' = [failed EXCEPT ![t] = FALSE]
    /\ Retry(t)
    /\ UNCHANGED <<requests, topic, tables, tx, carried, tasks, faults, crashes>>

(* Mutant: the channel is polled, not drained.                             *)
NothingFailedYet(t) == pc[t] = "waiting" /\ ~failed[t]

(* Both goroutines returned and neither failed.                            *)
AllWritten(t) ==
    /\ pc[t] = "waiting"
    /\ ~failed[t]
    /\ \A task \in tasks : ~(task.topic = t /\ IsCurrent(task))

(* Mutant: no break after a successful attempt.                            *)
CommitAndGoOn(t) ==
    /\ AllWritten(t)
    /\ tx' = [tx EXCEPT ![t] = "none"]
    /\ \/ attempt[t] < MaxRetries /\ Retry(t)
       \/ attempt[t] = MaxRetries /\ Finish(t, "stored")
    /\ UNCHANGED <<requests, topic, tables, failed, carried, tasks, faults, crashes>>

Commit(t) ==
    /\ AllWritten(t)
    /\ tx' = [tx EXCEPT ![t] = "none"]
    /\ Finish(t, "stored")
    /\ UNCHANGED <<requests, topic, tables, failed, carried, tasks, faults, crashes>>

CommitFails(t) ==
    /\ AllWritten(t)
    /\ Fault
    /\ tx' = [tx EXCEPT ![t] = "none"]
    /\ Retry(t)
    /\ UNCHANGED <<requests, topic, tables, failed, carried, tasks, crashes>>
-----------------------------------------------------------------------------
(* The process stops and starts again: what it held in memory is gone.     *)
Crash ==
    /\ crashes < MaxCrashes
    /\ crashes' = crashes + 1
    /\ outbox' = {}
    /\ tasks' = {}
    /\ pc' = [t \in Topics |-> "opening"]
    /\ failed' = [t \in Topics |-> FALSE]
    /\ tx' = [t \in Topics |-> "none"]
    /\ attempt' = [t \in Topics |-> 1]
    /\ carried' = EmptyMap
    /\ UNCHANGED <<accepted, log, tables, offset, faults>>
-----------------------------------------------------------------------------
Accepts == AcceptCreate \/ AcceptUpdate

Producer == Publish \/ PublishUnacknowledged \/ PublishFails

Work(t) == \/ Subscribe(t) \/ Poll(t) \/ Begin(t) \/ DecodeFails(t) \/ Save(t)
           \/ GiveUp(t) \/ Commit(t)

Trouble(t) == SubscribeFails(t) \/ BeginFails(t) \/ SaveFails(t) \/ CommitFails(t)

Next ==
    \/ Accepts
    \/ Producer
    \/ \E t \in Topics : Work(t) \/ Trouble(t)
    \/ \E task \in tasks : RunTask(task) \/ FailTask(task)
    \/ Crash

(* Goroutines are scheduled, calls to Kafka and to the database return,    *)
(* and the consumer's select keeps taking messages; nobody has to send a   *)
(* request, and nothing has to fail.                                       *)
Fairness ==
    /\ WF_vars(Publish)
    /\ \A t \in Topics : WF_vars(Work(t))
    /\ WF_vars(\E task \in tasks : RunTask(task))

Spec == Init /\ [][Next]_vars /\ Fairness
-----------------------------------------------------------------------------
Stored(t, o) == outcome[t][o] = "stored"

(* A create message is reported processed only when its campaign, at least *)
(* one location and a status log are in the database, an update message    *)
(* only when its status log is: the consumer waits for both write          *)
(* goroutines, in whatever order they and those of given-up attempts end.  *)
StoredIsComplete ==
    \A t \in Topics : \A o \in DOMAIN outcome[t] :
        LET id == topic[t][o].id IN
        Stored(t, o) =>
            /\ statusLogs[t][id] > 0
            /\ t = Create => Exists(id) /\ locations[id] # << >>

(* Why StoredIsComplete, NoOrphans and IdleHoldsNoTransaction hold: their  *)
(* inductive strengthening.                                                *)

(* A consumer at work is at a message of its topic.                        *)
OffsetsAreValid ==
    \A t \in Topics :
        /\ Len(outcome[t]) = Len(topic[t])
        /\ pc[t] \in {"decoding", "saving", "waiting"} => offset[t] <= Len(topic[t])

(* A create event carries a whole row and a location; an update event is   *)
(* of a campaign that is in the table, where it stays.                     *)
WellFormed(t, m) ==
    /\ t = Create => m.columns \in Row /\ m.location \in Values
    /\ t = Update => Exists(m.id)

MessagesAreWellFormed ==
    /\ \A e \in outbox : WellFormed(e.topic, e.message)
    /\ \A t \in Topics : \A o \in DOMAIN topic[t] : WellFormed(t, topic[t][o])

(* A write goroutine works for a message whose campaign was saved, and on  *)
(* a location only if the message has one.                                 *)
MessageOf(task) == topic[task.topic][task.offset]

TasksHaveRows ==
    \A task \in tasks :
        /\ task.offset \in DOMAIN topic[task.topic]
        /\ Exists(MessageOf(task).id)
        /\ task.kind = "location" => MessageOf(task).location # NoLocation

(* While a consumer waits, what its goroutines have not yet written is     *)
(* still theirs to write, unless an error tells of it.                     *)
TaskOf(t, k) == [topic |-> t, offset |-> offset[t], attempt |-> attempt[t], kind |-> k]

WaitingIsAccountedFor ==
    \A t \in Topics :
        pc[t] = "waiting" =>
            /\ Exists(Current(t).id)
            /\ \/ failed[t]
               \/ TaskOf(t, "log") \in tasks
               \/ statusLogs[t][Current(t).id] > 0
            /\ t = Create => \/ failed[t]
                             \/ TaskOf(t, "location") \in tasks
                             \/ locations[Current(t).id] # << >>

(* An error is pending only while the consumer waits, after its rollback.  *)
FailureIsRolledBack ==
    \A t \in Topics : failed[t] => pc[t] = "waiting" /\ tx[t] = "none"

(* The status logs are a complete record: there are at least as many of a  *)
(* campaign as there are messages of it that were stored.                  *)
EveryStoredMessageIsLogged ==
    \A t \in Topics, id \in Ids :
        Cardinality({o \in DOMAIN outcome[t] : Stored(t, o) /\ topic[t][o].id = id})
            <= statusLogs[t][id]

(* No location and no status log refers to a campaign that is not there,   *)
(* although each is written by a goroutine of its own and nothing is       *)
(* rolled back.                                                            *)
NoOrphans ==
    \A id \in Ids :
        locations[id] # << >> \/ (\E t \in Topics : statusLogs[t][id] > 0) => Exists(id)

(* Only a failure makes a campaign have a second location: each attempt    *)
(* and each copy of the event adds one.                                    *)
SecondLocationNeedsFault == \A id \in Ids : Len(locations[id]) <= 1 + faults

(* A message is tried at most MaxRetries times, and a campaign gets at     *)
(* most one location from each try.                                        *)
AttemptsAreBounded ==
    \A id \in Ids :
        Len(locations[id])
            <= MaxRetries * Cardinality({o \in DOMAIN topic[Create] :
                                            topic[Create][o].id = id})

(* A readable message is given up only after MaxRetries failures of its    *)
(* own.                                                                    *)
DropNeedsFaults ==
    MaxRetries * Cardinality({e \in Topics \X (1 .. MaxRequests + MaxFaults) :
                                 /\ e[2] \in DOMAIN outcome[e[1]]
                                 /\ outcome[e[1]][e[2]] = "dropped"
                                 /\ topic[e[1]][e[2]].readable}) <= faults

(* A consumer between two messages, or before an attempt, holds no open    *)
(* transaction: whichever way an attempt ends gives its connection back.   *)
IdleHoldsNoTransaction ==
    \A t \in Topics : tx[t] = "open" => pc[t] \in {"saving", "waiting"}

WritePathInvariant ==
    /\ TypeOK
    /\ OffsetsAreValid
    /\ MessagesAreWellFormed
    /\ TasksHaveRows
    /\ WaitingIsAccountedFor
    /\ FailureIsRolledBack
    /\ StoredIsComplete
    /\ NoOrphans
    /\ IdleHoldsNoTransaction

(* Until another update of the same campaign is read, a stored update      *)
(* shows: every column it carries has the value it gave.  Interleavings    *)
(* with the create consumer and the keys left over from earlier messages   *)
(* could both undo it.                                                     *)
IsLatest(o) ==
    /\ Stored(Update, o)
    /\ \A p \in DOMAIN topic[Update] :
          o < p /\ p <= offset[Update] => topic[Update][p].id # topic[Update][o].id

StoredUpdateHolds ==
    \A o \in DOMAIN outcome[Update] :
        LET m == topic[Update][o] IN
        IsLatest(o) => \A c \in DOMAIN m.columns : campaigns[m.id][c] = m.columns[c]

(* Where no call fails, a restart takes no stored update back: consumers   *)
(* start at the newest offset, so that the create that is already stored   *)
(* is not read, and saved, a second time.                                  *)
RestartKeepsUpdates == faults = 0 => StoredUpdateHolds

(* Each topic and its consumer deliver in order and at most once, across   *)
(* the producer's resends, failed attempts and restarts.                   *)
Requests(t) == [o \in DOMAIN topic[t] |-> topic[t][o].request]

CreateDelivery == INSTANCE OrderedDelivery
    WITH Messages <- Ids, sent <- Requests(Create), outcome <- outcome[Create]
UpdateDelivery == INSTANCE OrderedDelivery
    WITH Messages <- Ids, sent <- Requests(Update), outcome <- outcome[Update]

MessagesAreDeliveredInOrder == CreateDelivery!Spec /\ UpdateDelivery!Spec

(* No message blocks its topic for good: once requests stop coming, every  *)
(* message is stored, dropped or skipped, unless the consumer of the topic *)
(* could not be started.                                                   *)
IsResolved(t) == \A o \in DOMAIN outcome[t] : outcome[t][o] # "pending"

EventuallyResolved == \A t \in Topics : []<>(pc[t] = "stopped" \/ IsResolved(t))

(* Where nothing fails, a request accepted when its consumer has           *)
(* subscribed is stored in the end.                                        *)
IsStored(request) ==
    \E t \in Topics : \E o \in DOMAIN topic[t] :
        topic[t][o].request = request /\ Stored(t, o)

EventuallyStored ==
    \A request \in Ids :
        (\E e \in outbox : e.message.request = request /\ pc[e.topic] # "opening")
            ~> IsStored(request)

(* What the code's messages and comments promise and it does not do.       *)

(* "Update the campaign with only the changed fields" (campaigns.go:162):  *)
(* saving an update leaves the columns its request did not name, the tags  *)
(* apart, which it always writes.                                          *)
SavesUpdate == pc[Update] = "saving" /\ pc'[Update] = "waiting"

Keeps(m) ==
    \A c \in Columns \ (DOMAIN m.columns \union {"tags"}) :
        campaigns'[m.id][c] = campaigns[m.id][c]

OnlyChangedFields == [][SavesUpdate => Keeps(Current(Update))]_vars

(* "start a transaction" (campaigns.go:22): a create whose message was     *)
(* given up, and of which no copy is left, has written nothing.            *)
DroppedLeavesNothing ==
    \A o \in DOMAIN topic[Create] :
        (\A p \in DOMAIN topic[Create] :
            topic[Create][p].id = topic[Create][o].id => outcome[Create][p] = "dropped")
        => ~Exists(topic[Create][o].id)
=============================================================================

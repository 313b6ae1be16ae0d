--------------------------- MODULE CampaignCache ---------------------------
(***************************************************************************)
(* What Redis holds for one user: a copy of each campaign, the index set   *)
(* of the campaigns copied, and the answers to earlier queries.            *)
(*                                                                         *)
(* A GET reads them in this order and falls back on Postgres; a goroutine  *)
(* then caches what it found, one command at a time.  An accepted create   *)
(* or update starts three independent goroutines: one publishes the event  *)
(* that will change the row, one invalidates the user's keys, and, for an  *)
(* update, one stores the new copy.  Nothing orders any of them.           *)
(***************************************************************************)
EXTENDS Naturals, FiniteSets

CONSTANTS
    Ids,        \* campaigns
    Existing,   \* those in the table at the start
    Fields,     \* columns an update may name, as the event's UpdateFields do
    Changes,    \* the sets of columns that updates name
    Filters,    \* filters of a query (city, price, status...)
    Hides,      \* for each filter, the campaigns that do not match
    KeyTexts,   \* what follows the bare prefix in the key of an answer
    KeyText,    \* for each filter, its text: several may have the same
    Skipped,    \* the texts that pass for those of an index or a copy
    Queries,    \* the queries of GET requests: an id, a filter, both or none
    None,       \* no id, no filter, no answer, no value, no campaign
    MaxGets,    \* bound: GET requests
    MaxWrites,  \* bound: accepted creates and updates
    MaxFaults   \* bound: Redis commands, queries and events that fail

(* A campaign shows in each of its columns the write it has it from, or    *)
(* None if that was not loaded; 0 is the write that made the existing      *)
(* campaigns.  Tags and location are those of the event's campaign, the    *)
(* stamped columns are set by the service that stores the event.           *)
Gets == 1 .. MaxGets
Writes == 1 .. MaxWrites
Merged == {"tags", "location"}
Stamped == {"updated_at", "status_logs"}
Columns == Fields \union Merged \union Stamped
Shown == 0 .. MaxWrites \union {None}
Row == [Columns -> Shown]
Absent == None
Campaign == Row \union {Absent}
Set(w) == [c \in Columns |-> w]

Query == [id: Ids \union {None}, filter: Filters \union {None}]

ASSUME CacheAssumption ==
    /\ IsFiniteSet(Ids)
    /\ Existing \subseteq Ids
    /\ Fields \intersect (Merged \union Stamped) = {}
    /\ Changes \subseteq SUBSET (Fields \union Merged)
    /\ Hides \in [Filters -> SUBSET Row]
    /\ KeyText \in [Filters -> KeyTexts]
    /\ Skipped \subseteq KeyTexts
    /\ Queries \subseteq Query
    /\ None \notin Ids \union Filters \union KeyTexts
    /\ None \notin Nat /\ None \notin Row
    /\ MaxGets \in Nat /\ MaxWrites \in Nat /\ MaxFaults \in Nat

Keys == KeyTexts \union {None}

(* A list of campaigns: the ones not on it are Absent.                     *)
List == [Ids -> Campaign]
EmptyList == [i \in Ids |-> Absent]
Listed(list) == {i \in Ids : list[i] # Absent}

Answer == [query: Query, list: List, total: 0 .. Cardinality(Ids)]

GetStages == {"idle", "copy", "answer", "index", "copies", "count", "find",
              "setAnswer", "setCopy", "addIndex", "done", "refused"}
WriteStages == {"idle", "lookup", "query", "published", "applied", "lost"}
InvalidationStages == {"members", "delCopies", "delIndex", "keys", "delAnswers", "done"}

VARIABLES
    rows,          \* the campaigns table
    copies,        \* campaign:user:<user>:<id>
    index,         \* campaign:user:<user>:index
    answers,       \* campaign:user:<user>:<filters>, without filters the bare prefix
    get,           \* the GET requests and their fill goroutines
    write,         \* the accepted writes and their events
    invalidation,  \* their invalidation goroutines
    recache,       \* their re-cache goroutines
    carried,       \* the update consumer's UpdateFields, decoded over by each event
    faults,        \* how many failures there were
    calm           \* history: no fault, and nothing overlapped that could leave stale keys

redis == <<copies, index, answers>>
vars == <<rows, redis, get, write, invalidation, recache, carried, faults, calm>>

TypeOK ==
    /\ rows \in [Ids -> Campaign]
    /\ copies \in [Ids -> Campaign]
    /\ index \subseteq Ids
    /\ answers \in [Keys -> Answer \union {None}]
    /\ get \in [Gets -> [stage: GetStages, query: Query, ids: SUBSET Ids, at: Ids \union {None},
                         list: List, total: 0 .. Cardinality(Ids)]]
    /\ write \in [Writes -> [stage: WriteStages, id: Ids \union {None},
                             fields: SUBSET Columns, base: Campaign]]
    /\ invalidation \in [Writes -> [stage: InvalidationStages, ids: SUBSET Ids,
                                    keys: SUBSET Keys]]
    /\ recache \in [Writes -> {"setCopy", "addIndex", "done"}]
    /\ carried \in [Fields -> Writes \union {None}]
    /\ faults \in 0 .. MaxFaults
    /\ calm \in BOOLEAN

Init ==
    /\ rows = [i \in Ids |-> IF i \in Existing THEN Set(0) ELSE Absent]
    /\ copies = EmptyList
    /\ index = {}
    /\ answers = [k \in Keys |-> None]
    /\ get = [g \in Gets |->
                [stage |-> "idle", query |-> [id |-> None, filter |-> None], ids |-> {},
                 at |-> None, list |-> EmptyList, total |-> 0]]
    /\ write = [w \in Writes |-> [stage |-> "idle", id |-> None, fields |-> {},
                                  base |-> Absent]]
    /\ invalidation = [w \in Writes |-> [stage |-> "done", ids |-> {}, keys |-> {}]]
    /\ recache = [w \in Writes |-> "done"]
    /\ carried = [c \in Fields |-> None]
    /\ faults = 0
    /\ calm = TRUE

(* A command or query succeeds, or it is one of the failures.              *)
Succeeds(ok) ==
    /\ ok \in BOOLEAN
    /\ ok \/ faults < MaxFaults
    /\ faults' = IF ok THEN faults ELSE faults + 1
-----------------------------------------------------------------------------
(* Writes that are not over, and fills that are not.                       *)
Busy(w) ==
    \/ write[w].stage = "published"
    \/ invalidation[w].stage # "done"
    \/ recache[w] # "done"

Filling(g) == get[g].stage \in {"find", "setAnswer", "setCopy", "addIndex"}

(* Mutant: the filters are left out of the key.                            *)
BareKey(q) == None

(* The key of a query is the text of its filters; its id is not part of it.*)
KeyOf(q) == IF q.filter = None THEN None ELSE KeyText[q.filter]

Matches(i, q) ==
    /\ rows[i] # Absent
    /\ q.id \in {None, i}
    /\ q.filter = None \/ rows[i] \notin Hides[q.filter]

Result(q) == [i \in Ids |-> IF Matches(i, q) THEN rows[i] ELSE Absent]

(* Mutant: the campaigns are counted once for each joined row.             *)
TotalOfJoin(q) == 2 * Cardinality(Listed(Result(q)))
Total(q) == Cardinality(Listed(Result(q)))

(* A GET request whose goroutine moves to another stage.                   *)
Goes(g, stage) == get' = [get EXCEPT ![g].stage = stage]

Replies(g, list, total) ==
    get' = [get EXCEPT ![g].stage = "done", ![g].list = list, ![g].total = total]

BeginGet(g) ==
    /\ get[g].stage = "idle"
    /\ \A h \in 1 .. g - 1 : get[h].stage # "idle"
    /\ \E q \in Queries :
          get' = [get EXCEPT ![g].query = q,
                             ![g].stage = IF q.id = None THEN "answer" ELSE "copy"]
    /\ UNCHANGED <<rows, redis, write, invalidation, recache, carried, faults, calm>>

ReadCopy(g) ==
    /\ get[g].stage = "copy"
    /\ \E ok \in BOOLEAN :
          /\ Succeeds(ok)
          /\ LET id == get[g].query.id IN
             IF ok /\ copies[id] # Absent
             THEN Replies(g, [EmptyList EXCEPT ![id] = copies[id]], 1)
             ELSE Goes(g, "answer")
          /\ calm' = (calm /\ ok)
    /\ UNCHANGED <<rows, redis, write, invalidation, recache, carried>>

ReadAnswer(g) ==
    /\ get[g].stage = "answer"
    /\ \E ok \in BOOLEAN :
          /\ Succeeds(ok)
          /\ LET q == get[g].query
                 answer == answers[KeyOf(q)]
             IN  IF ok /\ answer # None THEN Replies(g, answer.list, answer.total)
                 ELSE Goes(g, IF q.id = None /\ q.filter = None THEN "index" ELSE "count")
          /\ calm' = (calm /\ ok)
    /\ UNCHANGED <<rows, redis, write, invalidation, recache, carried>>

(* Without filters, the copies the index names are an answer.              *)
ReadIndex(g) ==
    /\ get[g].stage = "index"
    /\ \E ok \in BOOLEAN :
          /\ Succeeds(ok)
          /\ IF ok /\ index # {}
             THEN get' = [get EXCEPT ![g].stage = "copies", ![g].ids = index]
             ELSE Goes(g, "count")
          /\ calm' = (calm /\ ok)
    /\ UNCHANGED <<rows, redis, write, invalidation, recache, carried>>

ReadCopies(g) ==
    /\ get[g].stage = "copies"
    /\ \E ok \in BOOLEAN :
          /\ Succeeds(ok)
          /\ LET list == [i \in Ids |-> IF i \in get[g].ids THEN copies[i] ELSE Absent] IN
             IF ok /\ Listed(list) # {} THEN Replies(g, list, Cardinality(Listed(list)))
             ELSE Goes(g, "count")
          /\ calm' = (calm /\ ok)
    /\ UNCHANGED <<rows, redis, write, invalidation, recache, carried>>

(* Two queries: the total, then the campaigns.  An error ends the request. *)
CountRows(g) ==
    /\ get[g].stage = "count"
    /\ \E ok \in BOOLEAN :
          /\ Succeeds(ok)
          /\ IF ok THEN get' = [get EXCEPT ![g].stage = "find", ![g].total = Total(get[g].query)]
             ELSE Goes(g, "refused")
          /\ calm' = (calm /\ ok /\ \A w \in Writes : ~Busy(w))
    /\ UNCHANGED <<rows, redis, write, invalidation, recache, carried>>

FindRows(g) ==
    /\ get[g].stage = "find"
    /\ \E ok \in BOOLEAN :
          /\ Succeeds(ok)
          /\ LET list == Result(get[g].query) IN
             IF ok THEN get' = [get EXCEPT ![g].stage = "setAnswer", ![g].list = list,
                                           ![g].ids = Listed(list)]
             ELSE Goes(g, "refused")
          /\ calm' = (calm /\ ok)
    /\ UNCHANGED <<rows, redis, write, invalidation, recache, carried>>

(* The reply is sent; the fill goroutine caches the answer, then each of   *)
(* its campaigns.  Errors are logged.                                      *)
SetAnswer(g) ==
    /\ get[g].stage = "setAnswer"
    /\ \E ok \in BOOLEAN :
          /\ Succeeds(ok)
          /\ LET q == get[g].query IN
             answers' = IF ok THEN [answers EXCEPT ![KeyOf(q)] =
                                      [query |-> q, list |-> get[g].list,
                                       total |-> get[g].total]]
                        ELSE answers
          /\ calm' = (calm /\ ok)
    /\ Goes(g, IF get[g].ids = {} THEN "done" ELSE "setCopy")
    /\ UNCHANGED <<rows, copies, index, write, invalidation, recache, carried>>

SetCopy(g) ==
    /\ get[g].stage = "setCopy"
    /\ \E i \in get[g].ids, ok \in BOOLEAN :
          /\ Succeeds(ok)
          /\ copies' = IF ok THEN [copies EXCEPT ![i] = get[g].list[i]] ELSE copies
          /\ get' = [get EXCEPT ![g].stage = "addIndex", ![g].at = i, ![g].ids = @ \ {i}]
          /\ calm' = (calm /\ ok)
    /\ UNCHANGED <<rows, index, answers, write, invalidation, recache, carried>>

AddIndex(g) ==
    /\ get[g].stage = "addIndex"
    /\ \E ok \in BOOLEAN :
          /\ Succeeds(ok)
          /\ index' = IF ok THEN index \union {get[g].at} ELSE index
          /\ calm' = (calm /\ ok)
    /\ Goes(g, IF get[g].ids = {} THEN "done" ELSE "setCopy")
    /\ UNCHANGED <<rows, copies, answers, write, invalidation, recache, carried>>
-----------------------------------------------------------------------------
(* A create or update is accepted: its event is on its way and its         *)
(* goroutines start.                                                       *)
Accepted(w, id, fields, base, recaching) ==
    /\ write' = [write EXCEPT ![w] = [stage |-> "published", id |-> id, fields |-> fields,
                                      base |-> base]]
    /\ invalidation' = [invalidation EXCEPT ![w].stage = "members"]
    /\ recache' = [recache EXCEPT ![w] = recaching]

(* Nothing else is at work that this write could overlap with.             *)
Alone(w, id) ==
    /\ \A g \in Gets : ~Filling(g)
    /\ \A v \in Writes \ {w} : write[v].id = id => ~Busy(v)

IsNext(w) ==
    /\ write[w].stage = "idle"
    /\ \A v \in 1 .. w - 1 : write[v].stage # "idle"

IsNew(id) == rows[id] = Absent /\ \A w \in Writes : write[w].id # id

(* Mutant: a create is copied as well.                                     *)
CreateAndCopy(w) ==
    /\ IsNext(w)
    /\ \E id \in Ids :
          /\ IsNew(id)
          /\ Accepted(w, id, Columns, Set(w), "setCopy")
          /\ calm' = (calm /\ Alone(w, id))
    /\ UNCHANGED <<rows, redis, get, carried, faults>>

AcceptCreate(w) ==
    /\ IsNext(w)
    /\ \E id \in Ids :
          /\ IsNew(id)
          /\ Accepted(w, id, Columns, Set(w), "done")
          /\ calm' = (calm /\ Alone(w, id))
    /\ UNCHANGED <<rows, redis, get, carried, faults>>

BeginUpdate(w) ==
    /\ IsNext(w)
    /\ \E id \in Ids, fields \in Changes :
          /\ rows[id] # Absent
          /\ write' = [write EXCEPT ![w].stage = "lookup", ![w].id = id, ![w].fields = fields]
    /\ UNCHANGED <<rows, redis, get, invalidation, recache, carried, faults, calm>>

(* The update starts from the copy, and from the row if there is none.     *)
LookUpCopy(w) ==
    /\ write[w].stage = "lookup"
    /\ LET id == write[w].id IN
       \E ok \in BOOLEAN :
          /\ Succeeds(ok)
          /\ IF ok /\ copies[id] # Absent
             THEN /\ Accepted(w, id, write[w].fields, copies[id], "setCopy")
                  /\ calm' = (calm /\ Alone(w, id))
             ELSE /\ write' = [write EXCEPT ![w].stage = "query"]
                  /\ calm' = (calm /\ ok)
                  /\ UNCHANGED <<invalidation, recache>>
    /\ UNCHANGED <<rows, redis, get, carried>>

(* The row alone: nothing is preloaded.                                    *)
Loaded(id) == [rows[id] EXCEPT !["location"] = None, !["status_logs"] = None]

QueryRow(w) ==
    /\ write[w].stage = "query"
    /\ LET id == write[w].id IN
       \E ok \in BOOLEAN :
          /\ Succeeds(ok)
          /\ IF ok
             THEN /\ Accepted(w, id, write[w].fields, Loaded(id), "setCopy")
                  /\ calm' = (calm /\ Alone(w, id))
             ELSE /\ write' = [write EXCEPT ![w].stage = "lost"]
                  /\ calm' = FALSE
                  /\ UNCHANGED <<invalidation, recache>>
    /\ UNCHANGED <<rows, redis, get, carried>>

(* Nobody checks who owns a campaign: an update another user sends changes *)
(* the row, and touches that user's keys only.                             *)
AcceptForeignUpdate(w) ==
    /\ IsNext(w)
    /\ \E id \in Ids, fields \in Changes :
          /\ rows[id] # Absent
          /\ write' = [write EXCEPT ![w] = [stage |-> "published", id |-> id,
                                            fields |-> fields, base |-> Loaded(id)]]
    /\ calm' = FALSE
    /\ UNCHANGED <<rows, redis, get, invalidation, recache, carried, faults>>

(* Mutant: the model is copied before the fields are overlaid.             *)
NotOverlaid(w) == write[w].base

(* The campaign of the event and of the copy.                              *)
Overlaid(w) ==
    [c \in Columns |-> IF c \in write[w].fields THEN w ELSE write[w].base[c]]

(* The fields of an update's event are decoded over those of the events    *)
(* before it, of whatever campaign; a create has a consumer of its own.    *)
IsCreate(w) == rows[write[w].id] = Absent
Decoded(w) ==
    IF IsCreate(w) THEN carried
    ELSE [c \in Fields |-> IF c \in write[w].fields THEN w ELSE carried[c]]

(* An update stores all the fields decoded, the event's tags and, if it    *)
(* has one, its location.                                                  *)
Stored(w) ==
    IF IsCreate(w) THEN Overlaid(w)
    ELSE LET value(c) == IF c \in Fields THEN Decoded(w)[c] ELSE Overlaid(w)[c]
         IN  [c \in Columns |->
                IF c \in Stamped THEN w
                ELSE IF value(c) = None THEN rows[write[w].id][c] ELSE value(c)]

(* The event comes through (see CampaignWritePath), or it does not: it     *)
(* never gets to the consumer, is given up with some of it stored, or      *)
(* missed by a service that starts again.                                  *)
Apply(w) ==
    /\ write[w].stage = "published"
    /\ rows' = [rows EXCEPT ![write[w].id] = Stored(w)]
    /\ carried' = Decoded(w)
    /\ write' = [write EXCEPT ![w].stage = "applied"]
    /\ UNCHANGED <<redis, get, invalidation, recache, faults, calm>>

Lose(w) ==
    /\ write[w].stage = "published"
    /\ Succeeds(FALSE)
    /\ write' = [write EXCEPT ![w].stage = "lost"]
    /\ \/ rows' = rows /\ carried' \in {carried, Decoded(w), [c \in Fields |-> None]}
       \/ rows' = [rows EXCEPT ![write[w].id] = Stored(w)] /\ carried' = Decoded(w)
    /\ calm' = FALSE
    /\ UNCHANGED <<redis, get, invalidation, recache>>
-----------------------------------------------------------------------------
(* InvalidateAllCampaignUserCache; an error ends it.                       *)
Ends(w) == invalidation' = [invalidation EXCEPT ![w].stage = "done"]
InvalidationGoes(w, stage) == invalidation' = [invalidation EXCEPT ![w].stage = stage]

ReadMembers(w) ==
    /\ invalidation[w].stage = "members"
    /\ \E ok \in BOOLEAN :
          /\ Succeeds(ok)
          /\ IF ok THEN invalidation' = [invalidation EXCEPT
                             ![w].ids = index,
                             ![w].stage = IF index = {} THEN "delIndex" ELSE "delCopies"]
             ELSE Ends(w)
          /\ calm' = (calm /\ ok)
    /\ UNCHANGED <<rows, redis, get, write, recache, carried>>

DeleteCopies(w) ==
    /\ invalidation[w].stage = "delCopies"
    /\ \E ok \in BOOLEAN :
          /\ Succeeds(ok)
          /\ copies' = IF ok THEN [i \in Ids |-> IF i \in invalidation[w].ids THEN Absent
                                                 ELSE copies[i]]
                       ELSE copies
          /\ IF ok THEN InvalidationGoes(w, "delIndex") ELSE Ends(w)
          /\ calm' = (calm /\ ok)
    /\ UNCHANGED <<rows, index, answers, get, write, recache, carried>>

DeleteIndex(w) ==
    /\ invalidation[w].stage = "delIndex"
    /\ \E ok \in BOOLEAN :
          /\ Succeeds(ok)
          /\ index' = IF ok THEN {} ELSE index
          /\ IF ok THEN InvalidationGoes(w, "keys") ELSE Ends(w)
          /\ calm' = (calm /\ ok)
    /\ UNCHANGED <<rows, copies, answers, get, write, recache, carried>>

(* Mutant: the keys of queries are taken for those of campaigns.           *)
NoKeys == {}

(* KEYS campaign:user:<user>:* finds the keys that have a filter, except   *)
(* the ones that pass for an index or a copy.                              *)
QueryKeys == {k \in KeyTexts \ Skipped : answers[k] # None}

FindKeys(w) ==
    /\ invalidation[w].stage = "keys"
    /\ \E ok \in BOOLEAN :
          /\ Succeeds(ok)
          /\ IF ok THEN invalidation' = [invalidation EXCEPT
                             ![w].keys = QueryKeys,
                             ![w].stage = IF QueryKeys = {} THEN "done" ELSE "delAnswers"]
             ELSE Ends(w)
          /\ calm' = (calm /\ ok)
    /\ UNCHANGED <<rows, redis, get, write, recache, carried>>

DeleteAnswers(w) ==
    /\ invalidation[w].stage = "delAnswers"
    /\ \E ok \in BOOLEAN :
          /\ Succeeds(ok)
          /\ answers' = IF ok THEN [k \in Keys |-> IF k \in invalidation[w].keys THEN None
                                                   ELSE answers[k]]
                        ELSE answers
          /\ calm' = (calm /\ ok)
    /\ Ends(w)
    /\ UNCHANGED <<rows, copies, index, get, write, recache, carried>>

SetNewCopy(w) ==
    /\ recache[w] = "setCopy"
    /\ \E ok \in BOOLEAN :
          /\ Succeeds(ok)
          /\ copies' = IF ok THEN [copies EXCEPT ![write[w].id] = Overlaid(w)] ELSE copies
          /\ calm' = (calm /\ ok)
    /\ recache' = [recache EXCEPT ![w] = "addIndex"]
    /\ UNCHANGED <<rows, index, answers, get, write, invalidation, carried>>

AddNewIndex(w) ==
    /\ recache[w] = "addIndex"
    /\ \E ok \in BOOLEAN :
          /\ Succeeds(ok)
          /\ index' = IF ok THEN index \union {write[w].id} ELSE index
          /\ calm' = (calm /\ ok)
    /\ recache' = [recache EXCEPT ![w] = "done"]
    /\ UNCHANGED <<rows, copies, answers, get, write, invalidation, carried>>
-----------------------------------------------------------------------------
(* Mutant: SET without an expiration.                                      *)
KeepCopy(i) == FALSE /\ UNCHANGED vars

(* Redis drops a key whose time has come.                                  *)
ExpireCopy(i) ==
    /\ copies[i] # Absent
    /\ copies' = [copies EXCEPT ![i] = Absent]
    /\ UNCHANGED <<rows, index, answers, get, write, invalidation, recache, carried, faults, calm>>

ExpireAnswer(k) ==
    /\ answers[k] # None
    /\ answers' = [answers EXCEPT ![k] = None]
    /\ UNCHANGED <<rows, copies, index, get, write, invalidation, recache, carried, faults, calm>>

ExpireIndex ==
    /\ index # {}
    /\ index' = {}
    /\ UNCHANGED <<rows, copies, answers, get, write, invalidation, recache, carried, faults, calm>>
-----------------------------------------------------------------------------
Read(g) == \/ ReadCopy(g) \/ ReadAnswer(g) \/ ReadIndex(g) \/ ReadCopies(g)
           \/ CountRows(g) \/ FindRows(g)

Fill(g) == SetAnswer(g) \/ SetCopy(g) \/ AddIndex(g)

AcceptWrite(w) == \/ AcceptCreate(w) \/ BeginUpdate(w) \/ AcceptForeignUpdate(w)
                  \/ LookUpCopy(w) \/ QueryRow(w)

Invalidate(w) == \/ ReadMembers(w) \/ DeleteCopies(w) \/ DeleteIndex(w)
                 \/ FindKeys(w) \/ DeleteAnswers(w)

Recache(w) == SetNewCopy(w) \/ AddNewIndex(w)

Expire == \/ \E i \in Ids : ExpireCopy(i)
          \/ \E k \in Keys : ExpireAnswer(k)
          \/ ExpireIndex

Next ==
    \/ \E g \in Gets : BeginGet(g) \/ Read(g) \/ Fill(g)
    \/ \E w \in Writes : \/ AcceptWrite(w) \/ Apply(w) \/ Lose(w)
                         \/ Invalidate(w) \/ Recache(w)
    \/ Expire

(* Goroutines run on, events come through or are lost, and Redis expires   *)
(* its keys; nobody has to send a request.                                 *)
Fairness ==
    /\ \A g \in Gets : WF_vars(Read(g)) /\ WF_vars(Fill(g))
    /\ \A w \in Writes : /\ WF_vars(Apply(w))
                         /\ WF_vars(Invalidate(w))
                         /\ WF_vars(Recache(w))
    /\ \A i \in Ids : WF_vars(ExpireCopy(i))
    /\ \A k \in Keys : WF_vars(ExpireAnswer(k))

Spec == Init /\ [][Next]_vars /\ Fairness
-----------------------------------------------------------------------------
Quiet == \A w \in Writes : ~Busy(w)

(* What a copy shows may differ from the row in the columns that only the  *)
(* service sets, in a location that was not loaded, and in fields that the *)
(* row has from an event of another campaign.                              *)
OfAnother(i, w) == w \in Writes /\ write[w].id # i

Agrees(i, campaign, row) ==
    \A c \in Columns \ Stamped :
        \/ campaign[c] = row[c]
        \/ c \in Fields /\ OfAnother(i, row[c])
        \/ c = "location" /\ campaign[c] = None

FreshCopy(i) == copies[i] # Absent => rows[i] # Absent /\ Agrees(i, copies[i], rows[i])

FreshAnswer(k) == answers[k] # None => answers[k].list = Result(answers[k].query)

(* When all of an update's goroutines are done, the copy of its campaign   *)
(* is gone or shows the row, in whatever order the three of them ran: as   *)
(* long as nothing failed and no fill or other update of the campaign      *)
(* overlapped.  Where the row shows a write of its own campaign, or none,  *)
(* so does the copy: what the consumer carries over to the row is missing  *)
(* in it only if it is of another campaign.                                *)
CopiesAreFresh == calm /\ Quiet => \A i \in Ids : FreshCopy(i)

(* Under the same conditions no filtered answer is out of date, and its    *)
(* total is the number of campaigns on its list, unless its key passes for *)
(* that of an index or a copy.                                             *)
FilteredAnswersAreFresh ==
    calm /\ Quiet =>
        \A k \in KeyTexts \ Skipped :
            /\ FreshAnswer(k)
            /\ answers[k] # None => answers[k].total = Cardinality(Listed(answers[k].list))

(* No list that is read or kept for a filter has a campaign it excludes.   *)
Respects(list, filter) ==
    filter # None => \A i \in Listed(list) : list[i] \notin Hides[filter]

(* A reply is one to the request's filter, or to another filter with the   *)
(* same key, wherever it comes from: it lists no campaign that this one    *)
(* excludes.  A filter that shares its key with no other is respected.     *)
FilterIsRespected ==
    \A g \in Gets :
        get[g].stage = "done" /\ get[g].query.filter # None /\ get[g].query.id = None =>
            \E f \in Filters : /\ KeyText[f] = KeyText[get[g].query.filter]
                              /\ Respects(get[g].list, f)

(* Only campaigns of the table are cached: a copy made before its event    *)
(* comes through is of an update, never of a create.                       *)
CachedCampaignsExist ==
    /\ \A i \in Ids : copies[i] # Absent => rows[i] # Absent
    /\ \A k \in Keys : answers[k] # None => Listed(answers[k].list) \subseteq Listed(rows)

(* Why the four invariants above hold: their inductive strengthening.      *)

(* A write that is not accepted has started no goroutine, and an update is *)
(* of a campaign that is in the table, where it stays.  An event has what  *)
(* its write started from, and that of a create has all the columns.       *)
WritesAreWellFormed ==
    \A w \in Writes :
        /\ write[w].stage \in {"idle", "lookup", "query"} =>
              invalidation[w].stage = "done" /\ recache[w] = "done"
        /\ write[w].stage # "idle" => write[w].id \in Ids
        /\ write[w].stage \in {"lookup", "query"} \/ recache[w] # "done" =>
              rows[write[w].id] # Absent
        /\ write[w].stage \in {"published", "applied"} \/ recache[w] # "done" =>
              write[w].base # Absent
        /\ write[w].stage = "published" /\ rows[write[w].id] = Absent =>
              write[w].fields = Columns

(* Only a request for one campaign looks for its copy, and only one        *)
(* without a filter reads the index.  What is left to copy is on the list. *)
GetsAreWellFormed ==
    \A g \in Gets :
        /\ get[g].stage = "copy" => get[g].query.id # None
        /\ get[g].stage \in {"index", "copies"} => get[g].query.filter = None
        /\ get[g].stage = "addIndex" => get[g].at # None
        /\ get[g].stage \in {"setAnswer", "setCopy", "addIndex"} =>
              get[g].ids \subseteq Listed(get[g].list)
        /\ Listed(get[g].list) \subseteq Listed(rows)

(* An answer respects the filter of its query, whose key it is under; so   *)
(* does what a request is to cache, and what it replied, if the answer was *)
(* not to another filter with the same key.                                *)
ListsRespectFilters ==
    /\ \A k \in Keys : answers[k] # None => /\ KeyOf(answers[k].query) = k
                                            /\ Respects(answers[k].list, answers[k].query.filter)
    /\ \A g \in Gets : get[g].stage \in {"setAnswer", "setCopy", "addIndex"} =>
                        Respects(get[g].list, get[g].query.filter)
    /\ FilterIsRespected

(* In calm, no write is at work while a fill is: what it read is still so. *)
FillsAreFresh ==
    calm =>
        \A g \in Gets :
            /\ Filling(g) => Quiet
            /\ get[g].stage = "find" => get[g].total = Total(get[g].query)
            /\ get[g].stage \in {"setAnswer", "setCopy", "addIndex"} =>
                  /\ get[g].list = Result(get[g].query)
                  /\ get[g].total = Cardinality(Listed(get[g].list))

(* In calm, the filtered answers that are there while a write is at work   *)
(* will be deleted by its invalidation: none is left when it is done.      *)
WillDelete(w, k) ==
    \/ invalidation[w].stage \in {"members", "delCopies", "delIndex", "keys"}
    \/ invalidation[w].stage = "delAnswers" /\ k \in invalidation[w].keys

AnswersAreDeleted ==
    calm =>
        \A w \in Writes : Busy(w) =>
            \A k \in KeyTexts \ Skipped : answers[k] # None => WillDelete(w, k)

(* In calm, one write is at work on a campaign: what it started from       *)
(* agrees with the row until its event comes through, what it made of it   *)
(* agrees from then on, and the copy is gone, or the write's own, unless   *)
(* the write has yet to set it.                                            *)
WriteIsFollowed(w) ==
    LET id == write[w].id IN
    /\ id \in Ids
    /\ write[w].base # Absent
    /\ IF write[w].stage = "published"
       THEN rows[id] # Absent => Agrees(id, write[w].base, rows[id])
       ELSE rows[id] # Absent /\ Agrees(id, Overlaid(w), rows[id])
    /\ recache[w] = "setCopy" \/ copies[id] \in {Absent, Overlaid(w)}

CopiesFollowWrites ==
    calm =>
        /\ \A v, w \in Writes :
              v # w /\ Busy(v) /\ Busy(w) => write[v].id # write[w].id
        /\ \A w \in Writes : Busy(w) => WriteIsFollowed(w)
        /\ \A i \in Ids : (\A w \in Writes : Busy(w) => write[w].id # i) => FreshCopy(i)

(* Rows show writes that were sent.  In calm, the row of the campaign that *)
(* a carried field is from still shows it.                                 *)
CarriedFieldsAreStored ==
    /\ \A i \in Ids, c \in Fields :
          rows[i] # Absent /\ rows[i][c] \in Writes => write[rows[i][c]].stage # "idle"
    /\ \A c \in Fields : carried[c] # None => write[carried[c]].stage # "idle"
    /\ calm => \A i \in Ids, c \in Fields :
          carried[c] # None /\ write[carried[c]].id = i =>
              rows[i] # Absent /\ rows[i][c] = carried[c]

CacheInvariant ==
    /\ TypeOK
    /\ WritesAreWellFormed
    /\ GetsAreWellFormed
    /\ CachedCampaignsExist
    /\ ListsRespectFilters
    /\ FillsAreFresh
    /\ AnswersAreDeleted
    /\ CopiesFollowWrites
    /\ CarriedFieldsAreStored
    /\ FilteredAnswersAreFresh

(* Whatever overlapped or failed, no key is stale for good: every copy and *)
(* every answer expires.                                                   *)
StaleKeysExpire ==
    <>[](/\ \A i \in Ids : copies[i] \in {Absent, rows[i]}
         /\ \A k \in Keys : FreshAnswer(k))

(* What the code's comments promise and it does not do.                    *)

(* "Delete all query cache keys for this user" (helperfunctions.go:217):   *)
(* the list of all campaigns is no more out of date than the other answers.*)
ListIsFresh == calm /\ Quiet => FreshAnswer(None)

(* "Try to get cached results for this specific query" (get.go:91): a      *)
(* request for one campaign is answered with that campaign or none.        *)
AnswersAreSpecific ==
    \A g \in Gets :
        get[g].stage = "done" /\ get[g].query.id # None
            => Listed(get[g].list) \subseteq {get[g].query.id}
=============================================================================

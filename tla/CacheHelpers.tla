---------------------------- MODULE CacheHelpers ----------------------------
(***************************************************************************)
(* The keys of all users in Redis, by their text: how a key is built from  *)
(* a query, which keys a pattern finds, which of them pass for copies of   *)
(* campaigns, and the functions that work on them, command by command.     *)
(* CampaignCache looks at what one user's keys hold; here two queries may  *)
(* share a key, and a key may look like one of another kind.               *)
(*                                                                         *)
(* Every key begins with campaign:user:, which is left out.  The rest is   *)
(* the sequence of its parts between colons.                               *)
(***************************************************************************)
EXTENDS Naturals, FiniteSets, SequencesExt

CONSTANTS
    Users,      \* user ids
    Uuids,      \* ids of campaigns, as text
    UuidLike,   \* parts with the length and the dashes of a uuid
    IndexLike,  \* parts that begin with "index"
    Queries,    \* queries, each a function on the parameters it has
    WithComma,  \* tags that have a comma
    Callable,   \* the functions that are called, and with what
    Nothing,    \* no query: there is no such key
    BatchSize,  \* 100
    MaxCalls,   \* bound: calls
    MaxFaults   \* bound: commands that fail, and crashes

(* The parameters that are put in the key, in their order.  A query may    *)
(* have an id as well.                                                     *)
KeyFields == <<"city", "state", "country", "min_price", "max_price", "start_date",
               "end_date", "status", "tags", "sort_by", "sort_order", "skip", "limit">>
Filtering == {"id", "city", "state", "country", "min_price", "max_price",
              "start_date", "end_date", "status"}

(* The functions: SetCampaignInRedis, RemoveCampaignFromRedis,             *)
(* InvalidateAllCampaignUserCache, InvalidateQueryCache, the fill of a GET *)
(* and its look at the answers, GetActiveCampaignsFromRedis.               *)
Ops == {"set", "remove", "invalidateAll", "invalidateAnswers", "fill", "lookUp",
        "listActive"}
CallType == [op: Ops, user: Users, query: Queries \union {Nothing}, ids: SUBSET Uuids]

ASSUME KeysAssumption ==
    /\ Uuids \subseteq UuidLike
    /\ "index" \in IndexLike
    /\ \A q \in Queries : DOMAIN q \subseteq {"id"} \union ToSet(KeyFields)
    /\ Callable \subseteq CallType
    /\ \A a \in Callable : /\ a.op = "set" => a.ids # {}
                           /\ a.op \in {"fill", "lookUp"} => a.query \in Queries
    /\ BatchSize \in Nat \ {0}
    /\ MaxCalls \in Nat /\ MaxFaults \in Nat

(* strings.Join(request.Tags, ",").  Other values are the sequence of      *)
(* their parts: a value with colons has several.                           *)
Joined(tags) == FoldLeft(LAMBDA joined, tag : joined \o "," \o tag, Head(tags), Tail(tags))

(* Mutant: the values without the names.                                   *)
PartWithoutName(q, f) == IF f = "tags" THEN <<Joined(q[f])>> ELSE q[f]

Part(q, f) == IF f = "tags" THEN <<f, Joined(q[f])>> ELSE <<f>> \o q[f]

AnswerKey(u, q) ==
    FoldLeft(LAMBDA key, f : IF f \in DOMAIN q THEN key \o Part(q, f) ELSE key,
             <<u>>, KeyFields)

CopyKey(u, i) == <<u, i>>
AnswerKeys == {AnswerKey(u, q) : u \in Users, q \in Queries}
CopyKeys == {CopyKey(u, i) : u \in Users, i \in Uuids}

(* What is asked of the table.  The order counts only with a column, the   *)
(* page only with both a skip and a limit.                                 *)
Meaning(q) ==
    [where |-> [f \in DOMAIN q \intersect Filtering |-> q[f]],
     tags |-> IF "tags" \in DOMAIN q THEN ToSet(q["tags"]) ELSE {},
     order |-> IF "sort_by" \notin DOMAIN q THEN << >>
               ELSE IF "sort_order" \in DOMAIN q THEN <<q["sort_by"], q["sort_order"]>>
               ELSE <<q["sort_by"], <<"ASC">> >>,
     page |-> IF {"skip", "limit"} \subseteq DOMAIN q THEN <<q["skip"], q["limit"]>>
              ELSE << >>]

(* Mutant: the key needs more parts than campaign:user:u:i has.            *)
PassesForLongCopy(key) == Len(key) > 2 /\ key[Len(key)] \in UuidLike

(* isIndividualCampaignKey and strings.Contains(key, ":index").            *)
PassesForCopy(key) == Len(key) >= 2 /\ key[Len(key)] \in UuidLike
PassesForIndex(key) == \E n \in DOMAIN key : key[n] \in IndexLike

(* campaign:user:<u>:*                                                     *)
MatchesUser(key, u) == Len(key) >= 2 /\ key[1] = u
-----------------------------------------------------------------------------
FirstStep(op) ==
    CASE op = "set" -> "setCopy"
      [] op = "remove" -> "delCopy"
      [] op = "invalidateAll" -> "members"
      [] op \in {"invalidateAnswers", "listActive"} -> "keys"
      [] op = "fill" -> "setAnswer"
      [] op = "lookUp" -> "get"

VARIABLES
    copies,   \* the keys of copies that are there
    answers,  \* for each key of an answer, the query it answers
    members,  \* for each user, the index set
    timed,    \* the users whose index has a time to live
    run,      \* the calls: arguments, step, what is left to do, what was got;
              \* and history: the keys there at its start, the copies there all along
    solo,     \* history: the calls that nothing overlapped, and nothing followed
    keyFaults \* how many commands failed, and crashes

keyspace == <<copies, answers, members, timed>>
keyVars == <<keyspace, run, solo, keyFaults>>

Cs == 1 .. MaxCalls
Running(c) == run[c].step \notin {"idle", "done", "failed"}

StoredKeys == copies \union {key \in AnswerKeys : answers[key] # Nothing}

KeysInit ==
    /\ copies = {}
    /\ answers = [key \in AnswerKeys |-> Nothing]
    /\ members = [u \in Users |-> {}]
    /\ timed = {}
    /\ run = [c \in Cs |-> [step |-> "idle"]]
    /\ solo = {}
    /\ keyFaults = 0

(* A command succeeds or fails.                                            *)
Does(ok) ==
    /\ ok \/ keyFaults < MaxFaults
    /\ keyFaults' = IF ok THEN keyFaults ELSE keyFaults + 1

(* Of a call that is over, only what a caller or a property looks at.      *)
Kept(r) ==
    IF r.step = "failed" THEN [step |-> "failed"]
    ELSE IF r.step = "done" /\ r.args.op \in {"set", "remove", "fill"}
         THEN [step |-> "done", args |-> [op |-> r.args.op]]
         ELSE r

(* A call is now at r; copies that are gone were not there all along.      *)
Becomes(c, r) ==
    /\ run' = [d \in Cs |->
                 IF d = c THEN Kept(r)
                 ELSE IF Running(d) THEN [run[d] EXCEPT !.present = @ \intersect copies']
                 ELSE run[d]]
    /\ UNCHANGED solo

To(c, step) == [run[c] EXCEPT !.step = step]
At(c, step) == run[c].step = step
User(c) == run[c].args.user
Op(c) == run[c].args.op

(* The campaign a call is at: it goes through its list in some order.      *)
Id(c) == CHOOSE i \in run[c].ids : TRUE

(* An error ends a call, but not a fill; SetCampaignInRedis does not tell  *)
(* its caller of one at the index.                                         *)
Otherwise(c, ok, step) == IF ok \/ Op(c) = "fill" THEN step ELSE "failed"
-----------------------------------------------------------------------------
Call(c) ==
    /\ At(c, "idle")
    /\ \A d \in 1 .. c - 1 : ~At(d, "idle")
    /\ \E a \in Callable :
          run' = [run EXCEPT ![c] =
                    [step |-> FirstStep(a.op), args |-> a, ids |-> a.ids, keys |-> {},
                     got |-> {}, present |-> copies, former |-> StoredKeys]]
    /\ solo' = IF \E d \in Cs : Running(d) THEN {} ELSE {c}
    /\ UNCHANGED <<keyspace, keyFaults>>

SetAnswerKey(c) ==
    /\ At(c, "setAnswer")
    /\ \E ok \in BOOLEAN :
          /\ Does(ok)
          /\ LET q == run[c].args.query IN
             answers' = IF ok THEN [answers EXCEPT ![AnswerKey(User(c), q)] = q] ELSE answers
    /\ UNCHANGED <<copies, members, timed>>
    /\ Becomes(c, To(c, IF run[c].ids = {} THEN "expire" ELSE "setCopy"))

SetCopyKey(c) ==
    /\ At(c, "setCopy")
    /\ \E ok \in BOOLEAN :
          /\ Does(ok)
          /\ copies' = IF ok THEN copies \union {CopyKey(User(c), Id(c))} ELSE copies
          /\ Becomes(c, To(c, Otherwise(c, ok, "addIndex")))
    /\ UNCHANGED <<answers, members, timed>>

(* Mutant: SAdd in place of AddCampaignToUserIndex, which also expires.    *)
AddMemberOnly(c) ==
    /\ At(c, "addIndex")
    /\ \E ok \in BOOLEAN :
          /\ Does(ok)
          /\ members' = IF ok THEN [members EXCEPT ![User(c)] = @ \union {Id(c)}] ELSE members
          /\ UNCHANGED <<copies, answers, timed>>
          /\ LET left == run[c].ids \ {Id(c)}
                 next == IF left # {} THEN "setCopy"
                         ELSE IF Op(c) = "fill" THEN "expire" ELSE "done"
             IN  Becomes(c, [To(c, Otherwise(c, ok, next)) EXCEPT !.ids = left])

(* SAdd makes an index that is not there, without a time to live.          *)
AddMember(c) ==
    /\ At(c, "addIndex")
    /\ \E ok \in BOOLEAN :
          /\ Does(ok)
          /\ members' = IF ok THEN [members EXCEPT ![User(c)] = @ \union {Id(c)}] ELSE members
          /\ UNCHANGED <<copies, answers, timed>>
          /\ LET left == run[c].ids \ {Id(c)} IN
             Becomes(c, [To(c, Otherwise(c, ok, IF left = {} THEN "expire" ELSE "setCopy"))
                            EXCEPT !.ids = left])

(* Expire does nothing to an index that is not there.                      *)
ExpireIndexKey(c) ==
    /\ At(c, "expire")
    /\ \E ok \in BOOLEAN :
          /\ Does(ok)
          /\ timed' = IF ok /\ members[User(c)] # {} THEN timed \union {User(c)} ELSE timed
          /\ UNCHANGED <<copies, answers, members>>
          /\ Becomes(c, To(c, Otherwise(c, ok, "done")))

(* An index that has no members, or is deleted, is not there any more.     *)
Indexes(u, ids) ==
    /\ members' = [members EXCEPT ![u] = ids]
    /\ timed' = IF ids = {} THEN timed \ {u} ELSE timed

DeleteCopy(c) ==
    /\ At(c, "delCopy")
    /\ \E ok \in BOOLEAN :
          /\ Does(ok)
          /\ copies' = IF ok THEN copies \ {CopyKey(User(c), i) : i \in run[c].ids} ELSE copies
          /\ UNCHANGED <<answers, members, timed>>
          /\ Becomes(c, To(c, Otherwise(c, ok, "remIndex")))

RemoveMember(c) ==
    /\ At(c, "remIndex")
    /\ \E ok \in BOOLEAN :
          /\ Does(ok)
          /\ IF ok THEN Indexes(User(c), members[User(c)] \ run[c].ids)
             ELSE UNCHANGED <<members, timed>>
          /\ UNCHANGED <<copies, answers>>
          /\ Becomes(c, To(c, Otherwise(c, ok, "done")))

GetMembers(c) ==
    /\ At(c, "members")
    /\ \E ok \in BOOLEAN :
          /\ Does(ok)
          /\ UNCHANGED keyspace
          /\ LET ids == members[User(c)]
                 next == IF ids = {} THEN "delIndex" ELSE "delCopies"
             IN  Becomes(c, [To(c, Otherwise(c, ok, next)) EXCEPT !.ids = ids])

DeleteMembers(c) ==
    /\ At(c, "delCopies")
    /\ \E ok \in BOOLEAN :
          /\ Does(ok)
          /\ copies' = IF ok THEN copies \ {CopyKey(User(c), i) : i \in run[c].ids} ELSE copies
          /\ UNCHANGED <<answers, members, timed>>
          /\ Becomes(c, To(c, Otherwise(c, ok, "delIndex")))

DeleteIndexKey(c) ==
    /\ At(c, "delIndex")
    /\ \E ok \in BOOLEAN :
          /\ Does(ok)
          /\ IF ok THEN Indexes(User(c), {}) ELSE UNCHANGED <<members, timed>>
          /\ UNCHANGED <<copies, answers>>
          /\ Becomes(c, To(c, Otherwise(c, ok, "keys")))

(* Mutant: the pattern campaign:user:*:* for both.                         *)
SelectedOfAll(c) ==
    IF Op(c) = "listActive"
    THEN {key \in StoredKeys : PassesForCopy(key) /\ ~PassesForIndex(key)}
    ELSE {key \in StoredKeys : Len(key) >= 2 /\ ~PassesForIndex(key) /\ ~PassesForCopy(key)}

(* The pattern is that of one user, or of all; index keys never pass.      *)
Selected(c) ==
    IF Op(c) = "listActive"
    THEN {key \in StoredKeys : PassesForCopy(key) /\ ~PassesForIndex(key)}
    ELSE {key \in StoredKeys : /\ MatchesUser(key, User(c))
                               /\ ~PassesForIndex(key)
                               /\ ~PassesForCopy(key)}

FindKeysOf(c) ==
    /\ At(c, "keys")
    /\ \E ok \in BOOLEAN :
          /\ Does(ok)
          /\ UNCHANGED keyspace
          /\ LET next == IF Selected(c) = {} THEN "done"
                         ELSE IF Op(c) = "listActive" THEN "batches" ELSE "delAnswers"
             IN  Becomes(c, [To(c, Otherwise(c, ok, next)) EXCEPT !.keys = Selected(c)])

DeleteAnswerKeys(c) ==
    /\ At(c, "delAnswers")
    /\ \E ok \in BOOLEAN :
          /\ Does(ok)
          /\ answers' = IF ok THEN [key \in AnswerKeys |-> IF key \in run[c].keys THEN Nothing
                                                           ELSE answers[key]]
                        ELSE answers
          /\ copies' = IF ok THEN copies \ run[c].keys ELSE copies
          /\ UNCHANGED <<members, timed>>
          /\ Becomes(c, To(c, Otherwise(c, ok, "done")))

(* Batches of BatchSize keys, the last one of what is left.                *)
IsBatch(batch, of) ==
    IF Cardinality(of) < BatchSize THEN batch = of ELSE Cardinality(batch) = BatchSize

(* A batch that fails is skipped.  An answer under a key that passes for   *)
(* one of a copy decodes, into a campaign without any fields.              *)
GetBatch(c) ==
    /\ At(c, "batches")
    /\ \E ok \in BOOLEAN, batch \in SUBSET run[c].keys :
          /\ IsBatch(batch, run[c].keys)
          /\ Does(ok)
          /\ UNCHANGED keyspace
          /\ LET left == run[c].keys \ batch IN
             Becomes(c, [To(c, IF left = {} THEN "done" ELSE "batches") EXCEPT
                            !.keys = left,
                            !.got = IF ok THEN @ \union (batch \intersect StoredKeys) ELSE @])

(* The GET's look at the answer under its key.                             *)
GetAnswer(c) ==
    /\ At(c, "get")
    /\ UNCHANGED keyspace
    /\ \E ok \in BOOLEAN :
          /\ Does(ok)
          /\ LET answer == answers[AnswerKey(User(c), run[c].args.query)] IN
             Becomes(c, [To(c, "done") EXCEPT !.got =
                            IF ok /\ answer # Nothing THEN {answer} ELSE {}])

(* The process stops; Redis does not.                                      *)
StopCalls ==
    /\ \E c \in Cs : Running(c)
    /\ keyFaults < MaxFaults
    /\ keyFaults' = keyFaults + 1
    /\ run' = [c \in Cs |-> IF Running(c) THEN Kept(To(c, "failed")) ELSE run[c]]
    /\ UNCHANGED <<keyspace, solo>>

KeysStep(c) ==
    \/ Call(c)
    \/ SetAnswerKey(c) \/ SetCopyKey(c) \/ AddMember(c) \/ ExpireIndexKey(c)
    \/ DeleteCopy(c) \/ RemoveMember(c)
    \/ GetMembers(c) \/ DeleteMembers(c) \/ DeleteIndexKey(c)
    \/ FindKeysOf(c) \/ DeleteAnswerKeys(c) \/ GetBatch(c) \/ GetAnswer(c)

KeysNext == StopCalls \/ \E c \in Cs : KeysStep(c)

KeysSpec == KeysInit /\ [][KeysNext]_keyVars
-----------------------------------------------------------------------------
Over(c, op) == At(c, "done") /\ Op(c) = op

(* An answer is found only by a query that asks for the same, whether for  *)
(* one campaign or for all: the id is not in the key.  Other queries that  *)
(* mean different things share a key only if a value in one of them has a  *)
(* colon, or one of its tags a comma.                                      *)
OfAnyId(q) == [f \in DOMAIN q \ {"id"} |-> q[f]]

HasSeparators(q) ==
    \E f \in DOMAIN q \ {"id"} :
        IF f = "tags" THEN \E tag \in ToSet(q[f]) : tag \in WithComma ELSE Len(q[f]) > 1

AnswersFitTheQuery ==
    \A c \in Cs :
        Over(c, "lookUp") =>
            \A q \in run[c].got :
                \/ Meaning(OfAnyId(q)) = Meaning(OfAnyId(run[c].args.query))
                \/ HasSeparators(q)
                \/ HasSeparators(run[c].args.query)

(* However fills, re-caches and invalidations overlap: when no call is at  *)
(* work, every index has a time to live, unless a command failed or the    *)
(* process stopped between an SAdd and its Expire.                         *)
IndexExpires ==
    (\A c \in Cs : ~Running(c)) /\ keyFaults = 0 =>
        \A u \in Users : members[u] # {} => u \in timed

(* What an invalidation that has the keys to itself, and that returns no   *)
(* error, leaves of its user, whatever failed or overlapped before it:     *)
(* the answer under the bare key, and what passes for an index or a copy   *)
(* by its text, be it an answer or a copy that the index does not name.    *)
(* The keys of other users all stay.                                       *)
InvalidationIsExact ==
    \A c \in solo :
        Over(c, "invalidateAll") =>
            /\ members[User(c)] = {}
            /\ \A i \in run[c].ids : CopyKey(User(c), i) \notin copies
            /\ \A key \in StoredKeys :
                  key[1] = User(c) /\ Len(key) >= 2 => PassesForIndex(key) \/ PassesForCopy(key)
            /\ \A key \in run[c].former : key[1] # User(c) => key \in StoredKeys

(* Every copy that is there all through the call is in the list of active  *)
(* campaigns, unless its user's id begins with "index"; the batches miss   *)
(* none.                                                                   *)
ActiveListIsComplete ==
    \A c \in Cs :
        Over(c, "listActive") /\ keyFaults = 0 =>
            \A key \in run[c].present : key \in run[c].got \/ PassesForIndex(key)
=============================================================================

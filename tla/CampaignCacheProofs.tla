------------------------- MODULE CampaignCacheProofs -------------------------
(***************************************************************************)
(* What CampaignCache checks of its small instances, for any number of     *)
(* campaigns, filters, requests and failures: the cache holds campaigns of *)
(* the table only, filters are respected, and what survives a write that   *)
(* nothing overlapped is fresh.                                            *)
(***************************************************************************)
EXTENDS CampaignCache, FiniteSetTheorems, TLAPS

GetRecord == [stage: GetStages, query: Query, ids: SUBSET Ids, at: Ids \union {None},
              list: List, total: 0 .. Cardinality(Ids)]
WriteRecord == [stage: WriteStages, id: Ids \union {None},
                fields: SUBSET Columns, base: Campaign]
InvalidationRecord == [stage: InvalidationStages, ids: SUBSET Ids, keys: SUBSET Keys]
-----------------------------------------------------------------------------
(* Lists have no more campaigns than there are.                            *)
LEMMA ListsAreBounded ==
    ASSUME NEW list \in List
    PROVE  /\ Listed(list) \subseteq Ids
           /\ Cardinality(Listed(list)) \in 0 .. Cardinality(Ids)
<1>1. Listed(list) \subseteq Ids
  BY DEF Listed
<1>2. /\ Cardinality(Listed(list)) \in Nat
      /\ Cardinality(Listed(list)) <= Cardinality(Ids)
      /\ Cardinality(Ids) \in Nat
  BY <1>1, CacheAssumption, FS_Subset, FS_CardinalityType
<1> QED
  BY <1>1, <1>2

LEMMA EmptyListIsList == EmptyList \in List /\ Listed(EmptyList) = {}
BY DEF EmptyList, List, Campaign, Listed

(* A campaign that is there has all its columns.                           *)
LEMMA CampaignsAreRows ==
    /\ Absent \in Campaign /\ Absent \notin Row
    /\ \A m \in Campaign : m # Absent => m \in Row
BY CacheAssumption DEF Absent, Campaign

(* Copies and rows are made of columns: all of one write, or those loaded. *)
LEMMA SetIsRow ==
    ASSUME NEW w \in 0 .. MaxWrites
    PROVE  Set(w) \in Row
BY DEF Set, Row, Shown

LEMMA LoadedIsRow ==
    ASSUME TypeOK, NEW id \in Ids, rows[id] # Absent
    PROVE  Loaded(id) \in Row
<1>1. rows[id] \in Row
  BY CampaignsAreRows DEF TypeOK
<1> QED
  BY <1>1 DEF Loaded, Row, Shown

(* Every query has a key, of which its id is no part.                      *)
LEMMA KeysAreKeys ==
    ASSUME NEW q \in Query
    PROVE  /\ KeyOf(q) \in Keys
           /\ q.filter # None => KeyOf(q) = KeyText[q.filter] /\ KeyOf(q) # None
           /\ q.filter = None => KeyOf(q) = None
BY CacheAssumption DEF Query, Keys, KeyOf

(* What a query finds are campaigns of the table that match it.            *)
LEMMA ResultIsList ==
    ASSUME rows \in List, NEW q \in Query
    PROVE  /\ Result(q) \in List
           /\ Total(q) \in 0 .. Cardinality(Ids)
           /\ Listed(Result(q)) \subseteq Listed(rows)
           /\ Respects(Result(q), q.filter)
<1>1. Result(q) \in List
  BY CampaignsAreRows DEF Result, List
<1>2. \A i \in Listed(Result(q)) : Matches(i, q) /\ Result(q)[i] = rows[i] /\ i \in Ids
  BY DEF Result, Listed
<1>3. Listed(Result(q)) \subseteq Listed(rows)
  BY <1>2 DEF Listed, Matches
<1>4. Respects(Result(q), q.filter)
  BY <1>2 DEF Respects, Matches
<1> QED
  BY <1>1, <1>3, <1>4, ListsAreBounded DEF Total

LEMMA InitType == Init => TypeOK
<1> SUFFICES ASSUME Init
             PROVE  TypeOK
  OBVIOUS
<1> USE CacheAssumption
<1>1. rows \in [Ids -> Campaign]
  BY SetIsRow, CampaignsAreRows DEF Init, Campaign
<1>2. copies \in [Ids -> Campaign]
  BY EmptyListIsList DEF Init, List
<1>3. answers \in [Keys -> Answer \union {None}]
  BY DEF Init
<1>4. 0 \in 0 .. Cardinality(Ids)
  BY FS_CardinalityType
<1>5. [stage |-> "idle", query |-> [id |-> None, filter |-> None], ids |-> {},
       at |-> None, list |-> EmptyList, total |-> 0] \in GetRecord
  BY <1>4, EmptyListIsList DEF GetRecord, GetStages, Query
<1>6. get \in [Gets -> GetRecord]
  BY <1>5 DEF Init
<1>7. write \in [Writes -> WriteRecord]
  BY CampaignsAreRows DEF Init, WriteRecord, WriteStages
<1>8. invalidation \in [Writes -> InvalidationRecord]
  BY DEF Init, InvalidationRecord, InvalidationStages
<1> QED
  BY <1>1, <1>2, <1>3, <1>6, <1>7, <1>8
     DEF Init, TypeOK, GetRecord, WriteRecord, InvalidationRecord
-----------------------------------------------------------------------------
(* What a step of a GET changes: its own record.                           *)
OnlyGet(g) ==
    /\ get' \in [Gets -> GetRecord]
    /\ \A h \in Gets \ {g} : get'[h] = get[h]

LEMMA GetBecomes ==
    ASSUME TypeOK, NEW g \in Gets, NEW r \in GetRecord, get' = [get EXCEPT ![g] = r]
    PROVE  OnlyGet(g) /\ get'[g] = r
<1>1. get \in [Gets -> GetRecord]
  BY DEF TypeOK, GetRecord
<1> QED
  BY <1>1 DEF OnlyGet

LEMMA GoesType ==
    ASSUME TypeOK, NEW g \in Gets, NEW stage \in GetStages, Goes(g, stage)
    PROVE  OnlyGet(g) /\ get'[g] = [get[g] EXCEPT !.stage = stage]
<1> DEFINE r == [get[g] EXCEPT !.stage = stage]
<1>1. get[g] \in GetRecord
  BY DEF TypeOK, GetRecord
<1>2. r \in GetRecord
  BY <1>1 DEF GetRecord
<1>3. get' = [get EXCEPT ![g] = r]
  BY DEF Goes
<1> QED
  BY <1>2, <1>3, GetBecomes

LEMMA RepliesType ==
    ASSUME TypeOK, NEW g \in Gets, NEW list \in List, NEW total \in 0 .. Cardinality(Ids),
           Replies(g, list, total)
    PROVE  /\ OnlyGet(g)
           /\ get'[g] = [get[g] EXCEPT !.stage = "done", !.list = list, !.total = total]
<1> DEFINE r == [get[g] EXCEPT !.stage = "done", !.list = list, !.total = total]
<1>1. get[g] \in GetRecord /\ get \in [Gets -> GetRecord]
  BY DEF TypeOK, GetRecord
<1>2. r \in GetRecord
  BY <1>1 DEF GetRecord, GetStages
<1>3. get' = [get EXCEPT ![g] = r]
  BY <1>1 DEF Replies
<1> QED
  BY <1>2, <1>3, GetBecomes

LEMMA SucceedsType ==
    ASSUME TypeOK, NEW ok, Succeeds(ok)
    PROVE  faults' \in 0 .. MaxFaults
BY CacheAssumption DEF TypeOK, Succeeds

LEMMA ReadType ==
    ASSUME TypeOK, GetsAreWellFormed, NEW g \in Gets, BeginGet(g) \/ Read(g)
    PROVE  /\ OnlyGet(g)
           /\ faults' \in 0 .. MaxFaults
           /\ calm' \in BOOLEAN
           /\ calm' => calm
           /\ UNCHANGED <<rows, redis, write, invalidation, recache, carried>>
<1> USE DEF GetStages
<1>0. get[g] \in GetRecord /\ get \in [Gets -> GetRecord]
  BY DEF TypeOK, GetRecord
<1>1. CASE BeginGet(g)
  <2>1. PICK q \in Queries :
           get' = [get EXCEPT ![g].query = q,
                              ![g].stage = IF q.id = None THEN "answer" ELSE "copy"]
    BY <1>1 DEF BeginGet
  <2>2. q \in Query
    BY CacheAssumption
  <2> DEFINE r == [get[g] EXCEPT !.query = q,
                                 !.stage = IF q.id = None THEN "answer" ELSE "copy"]
  <2>3. r \in GetRecord
    BY <1>0, <2>2 DEF GetRecord
  <2>4. get' = [get EXCEPT ![g] = r]
    BY <1>0, <2>1
  <2>5. OnlyGet(g)
    BY <2>3, <2>4, GetBecomes
  <2> QED
    BY <1>1, <2>5 DEF BeginGet, TypeOK
<1>2. CASE ReadCopy(g)
  <2> DEFINE id == get[g].query.id
  <2>1. PICK ok \in BOOLEAN :
           /\ Succeeds(ok)
           /\ IF ok /\ copies[id] # Absent
              THEN Replies(g, [EmptyList EXCEPT ![id] = copies[id]], 1)
              ELSE Goes(g, "answer")
           /\ calm' = (calm /\ ok)
    BY <1>2 DEF ReadCopy
  <2>2. id \in Ids
    BY <1>0, <1>2 DEF ReadCopy, GetsAreWellFormed, GetRecord, Query
  <2>3. [EmptyList EXCEPT ![id] = copies[id]] \in List
    BY <2>2, EmptyListIsList DEF List, TypeOK
  <2>4. 1 \in 0 .. Cardinality(Ids)
    BY <2>2, CacheAssumption, FS_EmptySet, FS_CardinalityType
  <2>5. OnlyGet(g)
    BY <2>1, <2>3, <2>4, RepliesType, GoesType
  <2> QED
    BY <1>2, <2>1, <2>5, SucceedsType DEF ReadCopy, TypeOK
<1>3. CASE ReadAnswer(g)
  <2> DEFINE q == get[g].query
             answer == answers[KeyOf(q)]
  <2>1. PICK ok \in BOOLEAN :
           /\ Succeeds(ok)
           /\ IF ok /\ answer # None THEN Replies(g, answer.list, answer.total)
              ELSE Goes(g, IF q.id = None /\ q.filter = None THEN "index" ELSE "count")
           /\ calm' = (calm /\ ok)
    BY <1>3 DEF ReadAnswer
  <2>2. KeyOf(q) \in Keys
    BY <1>0, KeysAreKeys DEF GetRecord
  <2>5. answer \in Answer \union {None}
    BY <2>2 DEF TypeOK
  <2>3. ASSUME ok /\ answer # None
        PROVE  OnlyGet(g)
    <3>1. answer.list \in List /\ answer.total \in 0 .. Cardinality(Ids)
      BY <2>3, <2>5 DEF Answer
    <3>2. Replies(g, answer.list, answer.total)
      BY <2>1, <2>3
    <3> HIDE DEF answer
    <3> QED
      BY <3>1, <3>2, RepliesType
  <2>4. ASSUME ~(ok /\ answer # None)
        PROVE  OnlyGet(g)
    <3> DEFINE stage == IF q.id = None /\ q.filter = None THEN "index" ELSE "count"
    <3>1. Goes(g, stage)
      BY <2>1, <2>4
    <3>2. stage \in GetStages
      OBVIOUS
    <3> HIDE DEF stage
    <3> QED
      BY <3>1, <3>2, GoesType
  <2> QED
    BY <1>3, <2>1, <2>3, <2>4, SucceedsType DEF ReadAnswer, TypeOK
<1>4. CASE ReadIndex(g)
  <2>1. PICK ok \in BOOLEAN :
           /\ Succeeds(ok)
           /\ IF ok /\ index # {}
              THEN get' = [get EXCEPT ![g].stage = "copies", ![g].ids = index]
              ELSE Goes(g, "count")
           /\ calm' = (calm /\ ok)
    BY <1>4 DEF ReadIndex
  <2>2. ASSUME ok /\ index # {}
        PROVE  OnlyGet(g)
    <3> DEFINE r == [get[g] EXCEPT !.stage = "copies", !.ids = index]
    <3>1. r \in GetRecord
      BY <1>0 DEF GetRecord, TypeOK
    <3>2. get' = [get EXCEPT ![g] = r]
      BY <1>0, <2>1, <2>2
    <3> QED
      BY <3>1, <3>2, GetBecomes
  <2>3. ASSUME ~(ok /\ index # {})
        PROVE  OnlyGet(g)
    BY <2>1, <2>3, GoesType
  <2> QED
    BY <1>4, <2>1, <2>2, <2>3, SucceedsType DEF ReadIndex, TypeOK
<1>5. CASE ReadCopies(g)
  <2> DEFINE list == [i \in Ids |-> IF i \in get[g].ids THEN copies[i] ELSE Absent]
  <2>1. PICK ok \in BOOLEAN :
           /\ Succeeds(ok)
           /\ IF ok /\ Listed(list) # {} THEN Replies(g, list, Cardinality(Listed(list)))
              ELSE Goes(g, "count")
           /\ calm' = (calm /\ ok)
    BY <1>5 DEF ReadCopies
  <2>2. list \in List
    BY CampaignsAreRows DEF List, TypeOK
  <2>3. OnlyGet(g)
    BY <2>1, <2>2, ListsAreBounded, RepliesType, GoesType
  <2> QED
    BY <1>5, <2>1, <2>3, SucceedsType DEF ReadCopies, TypeOK
<1>6. CASE CountRows(g)
  <2>1. PICK ok \in BOOLEAN :
           /\ Succeeds(ok)
           /\ IF ok THEN get' = [get EXCEPT ![g].stage = "find",
                                            ![g].total = Total(get[g].query)]
              ELSE Goes(g, "refused")
           /\ calm' = (calm /\ ok /\ \A w \in Writes : ~Busy(w))
    BY <1>6 DEF CountRows
  <2>2. Total(get[g].query) \in 0 .. Cardinality(Ids)
    BY <1>0, ResultIsList DEF GetRecord, TypeOK, List
  <2>3. CASE ok
    <3> DEFINE r == [get[g] EXCEPT !.stage = "find", !.total = Total(get[g].query)]
    <3>1. r \in GetRecord
      BY <1>0, <2>2 DEF GetRecord
    <3>2. get' = [get EXCEPT ![g] = r]
      BY <1>0, <2>1, <2>3
    <3> QED
      BY <3>1, <3>2, GetBecomes, <1>6, <2>1, SucceedsType DEF CountRows, TypeOK
  <2>4. CASE ~ok
    BY <2>1, <2>4, GoesType, <1>6, SucceedsType DEF CountRows, TypeOK
  <2> QED
    BY <2>3, <2>4
<1>7. CASE FindRows(g)
  <2> DEFINE list == Result(get[g].query)
  <2>1. PICK ok \in BOOLEAN :
           /\ Succeeds(ok)
           /\ IF ok THEN get' = [get EXCEPT ![g].stage = "setAnswer", ![g].list = list,
                                            ![g].ids = Listed(list)]
              ELSE Goes(g, "refused")
           /\ calm' = (calm /\ ok)
    BY <1>7 DEF FindRows
  <2>2. list \in List /\ Listed(list) \subseteq Ids
    BY <1>0, ResultIsList, ListsAreBounded DEF GetRecord, TypeOK, List
  <2> HIDE DEF list
  <2>3. CASE ok
    <3> DEFINE r == [get[g] EXCEPT !.stage = "setAnswer", !.list = list, !.ids = Listed(list)]
    <3>1. r \in GetRecord
      BY <1>0, <2>2 DEF GetRecord
    <3>2. get' = [get EXCEPT ![g] = r]
      BY <1>0, <2>1, <2>3
    <3> QED
      BY <3>1, <3>2, GetBecomes, <1>7, <2>1, SucceedsType DEF FindRows, TypeOK
  <2>4. CASE ~ok
    BY <2>1, <2>4, GoesType, <1>7, SucceedsType DEF FindRows, TypeOK
  <2> QED
    BY <2>3, <2>4
<1> QED
  BY <1>1, <1>2, <1>3, <1>4, <1>5, <1>6, <1>7 DEF Read

(* What a fill changes: its own record, and the keys it sets.              *)
LEMMA FillType ==
    ASSUME TypeOK, GetsAreWellFormed, NEW g \in Gets, Fill(g)
    PROVE  /\ TypeOK'
           /\ OnlyGet(g)
           /\ calm' => calm
           /\ UNCHANGED <<rows, write, invalidation, recache, carried>>
<1> USE DEF GetStages
<1>0. get[g] \in GetRecord /\ get \in [Gets -> GetRecord]
  BY DEF TypeOK, GetRecord
<1> SUFFICES /\ OnlyGet(g)
             /\ copies' \in [Ids -> Campaign] /\ index' \subseteq Ids
             /\ answers' \in [Keys -> Answer \union {None}]
             /\ faults' \in 0 .. MaxFaults
             /\ calm' \in BOOLEAN /\ (calm' => calm)
             /\ UNCHANGED <<rows, write, invalidation, recache, carried>>
  BY DEF TypeOK, OnlyGet, GetRecord
<1>1. CASE SetAnswer(g)
  <2> DEFINE q == get[g].query
             a == [query |-> q, list |-> get[g].list, total |-> get[g].total]
  <2>1. PICK ok \in BOOLEAN :
           /\ Succeeds(ok)
           /\ answers' = IF ok THEN [answers EXCEPT ![KeyOf(q)] = a] ELSE answers
           /\ calm' = (calm /\ ok)
    BY <1>1 DEF SetAnswer
  <2>2. a \in Answer /\ KeyOf(q) \in Keys
    BY <1>0, KeysAreKeys DEF GetRecord, Answer
  <2>3. answers' \in [Keys -> Answer \union {None}]
    <3> HIDE DEF a
    <3> QED
      BY <2>1, <2>2 DEF TypeOK
  <2>4. OnlyGet(g)
    <3> DEFINE stage == IF get[g].ids = {} THEN "done" ELSE "setCopy"
    <3>1. Goes(g, stage) /\ stage \in GetStages
      BY <1>1 DEF SetAnswer
    <3> HIDE DEF stage
    <3> QED
      BY <3>1, GoesType
  <2>5. UNCHANGED <<rows, copies, index, write, invalidation, recache, carried>>
    BY <1>1 DEF SetAnswer
  <2> QED
    BY <2>1, <2>3, <2>4, <2>5, SucceedsType DEF TypeOK
<1>2. CASE SetCopy(g)
  <2>1. PICK i \in get[g].ids, ok \in BOOLEAN :
           /\ Succeeds(ok)
           /\ copies' = IF ok THEN [copies EXCEPT ![i] = get[g].list[i]] ELSE copies
           /\ get' = [get EXCEPT ![g].stage = "addIndex", ![g].at = i, ![g].ids = @ \ {i}]
           /\ calm' = (calm /\ ok)
    BY <1>2 DEF SetCopy
  <2>2. i \in Ids /\ get[g].list[i] \in Campaign
    BY <1>0 DEF GetRecord, List
  <2>3. copies' \in [Ids -> Campaign]
    BY <2>1, <2>2 DEF TypeOK
  <2>4. OnlyGet(g)
    <3> DEFINE r == [get[g] EXCEPT !.stage = "addIndex", !.at = i, !.ids = get[g].ids \ {i}]
    <3>1. r \in GetRecord
      BY <1>0, <2>2 DEF GetRecord
    <3>2. get' = [get EXCEPT ![g] = r]
      BY <1>0, <2>1
    <3> QED
      BY <3>1, <3>2, GetBecomes
  <2>5. UNCHANGED <<rows, index, answers, write, invalidation, recache, carried>>
    BY <1>2 DEF SetCopy
  <2> QED
    BY <2>1, <2>3, <2>4, <2>5, SucceedsType DEF TypeOK
<1>3. CASE AddIndex(g)
  <2>1. PICK ok \in BOOLEAN :
           /\ Succeeds(ok)
           /\ index' = IF ok THEN index \union {get[g].at} ELSE index
           /\ calm' = (calm /\ ok)
    BY <1>3 DEF AddIndex
  <2>2. get[g].at \in Ids
    BY <1>0, <1>3 DEF AddIndex, GetRecord, GetsAreWellFormed
  <2>3. index' \subseteq Ids
    BY <2>1, <2>2 DEF TypeOK
  <2>4. OnlyGet(g)
    <3> DEFINE stage == IF get[g].ids = {} THEN "done" ELSE "setCopy"
    <3>1. Goes(g, stage) /\ stage \in GetStages
      BY <1>3 DEF AddIndex
    <3> HIDE DEF stage
    <3> QED
      BY <3>1, GoesType
  <2>5. UNCHANGED <<rows, copies, answers, write, invalidation, recache, carried>>
    BY <1>3 DEF AddIndex
  <2> QED
    BY <2>1, <2>3, <2>4, <2>5, SucceedsType DEF TypeOK
<1> QED
  BY <1>1, <1>2, <1>3 DEF Fill
-----------------------------------------------------------------------------
(* What a step of a write changes: its own records.                        *)
OnlyWrite(w) ==
    /\ write' \in [Writes -> WriteRecord]
    /\ invalidation' \in [Writes -> InvalidationRecord]
    /\ recache' \in [Writes -> {"setCopy", "addIndex", "done"}]
    /\ \A v \in Writes \ {w} :
          write'[v] = write[v] /\ invalidation'[v] = invalidation[v] /\ recache'[v] = recache[v]

(* A write is accepted: as a create, from a copy, or from the row.         *)
IsAcceptedWith(w, id, fields, base, recaching) ==
    /\ write[w].stage \in {"idle", "lookup", "query"}
    /\ write[w].stage # "idle" => write[w].id = id
    /\ write'[w] = [stage |-> "published", id |-> id, fields |-> fields, base |-> base]
    /\ invalidation'[w] = [invalidation[w] EXCEPT !.stage = "members"]
    /\ recache'[w] = recaching
    /\ calm' => Alone(w, id)
    /\ base \in Row
    /\ \/ rows[id] = Absent /\ fields = Columns
       \/ rows[id] # Absent /\ base \in {copies[id], Loaded(id)}
    /\ recaching = "setCopy" <=> rows[id] # Absent

IsAccepted(w) ==
    \E id \in Ids, fields \in SUBSET Columns, base \in Row, recaching \in {"setCopy", "done"} :
        IsAcceptedWith(w, id, fields, base, recaching)

(* An update that is not accepted yet goes on, or is refused; one of       *)
(* another user is not in calm.                                            *)
IsLookingUp(w) ==
    /\ write[w].stage \in {"idle", "lookup", "query"}
    /\ write[w].stage # "idle" => write'[w].id = write[w].id
    /\ write'[w].id \in Ids
    /\ UNCHANGED <<invalidation, recache>>
    /\ \/ write'[w].stage \in {"lookup", "query"} /\ rows[write'[w].id] # Absent
       \/ write'[w].stage = "lost" /\ ~calm'
       \/ /\ write'[w].stage = "published" /\ ~calm'
          /\ rows[write'[w].id] # Absent /\ write'[w].base # Absent

LEMMA WriteBecomes ==
    ASSUME TypeOK, NEW w \in Writes, NEW r \in WriteRecord, write' = [write EXCEPT ![w] = r],
           UNCHANGED <<invalidation, recache>>
    PROVE  OnlyWrite(w) /\ write'[w] = r
<1>1. write \in [Writes -> WriteRecord]
  BY DEF TypeOK, WriteRecord
<1> QED
  BY <1>1 DEF OnlyWrite, TypeOK, InvalidationRecord

LEMMA AcceptedBecomes ==
    ASSUME TypeOK, NEW w \in Writes, NEW id \in Ids, NEW fields \in SUBSET Columns,
           NEW base \in Row, NEW recaching \in {"setCopy", "done"},
           Accepted(w, id, fields, base, recaching)
    PROVE  /\ OnlyWrite(w)
           /\ write'[w] = [stage |-> "published", id |-> id, fields |-> fields, base |-> base]
           /\ invalidation'[w] = [invalidation[w] EXCEPT !.stage = "members"]
           /\ recache'[w] = recaching
<1> DEFINE r == [stage |-> "published", id |-> id, fields |-> fields, base |-> base]
           v == [invalidation[w] EXCEPT !.stage = "members"]
<1>1. /\ write \in [Writes -> WriteRecord] /\ r \in WriteRecord
      /\ invalidation \in [Writes -> InvalidationRecord]
  BY DEF TypeOK, WriteRecord, WriteStages, InvalidationRecord, Campaign
<1>2. v \in InvalidationRecord
  BY <1>1 DEF InvalidationRecord, InvalidationStages
<1>3. /\ write' = [write EXCEPT ![w] = r]
      /\ invalidation' = [invalidation EXCEPT ![w] = v]
      /\ recache' = [recache EXCEPT ![w] = recaching]
  BY DEF Accepted
<1> HIDE DEF r, v
<1>4. OnlyWrite(w) /\ write'[w] = r /\ invalidation'[w] = v /\ recache'[w] = recaching
  BY <1>1, <1>2, <1>3 DEF OnlyWrite, TypeOK
<1> QED
  BY <1>4 DEF r, v

LEMMA AcceptWriteEffect ==
    ASSUME TypeOK, WritesAreWellFormed, CachedCampaignsExist, NEW w \in Writes, AcceptWrite(w)
    PROVE  /\ OnlyWrite(w)
           /\ IsAccepted(w) \/ IsLookingUp(w)
           /\ faults' \in 0 .. MaxFaults
           /\ calm' \in BOOLEAN /\ (calm' => calm)
           /\ UNCHANGED <<rows, redis, get, carried>>
<1> USE DEF WriteStages
<1>0. write[w] \in WriteRecord /\ write \in [Writes -> WriteRecord]
  BY DEF TypeOK, WriteRecord
<1>1. CASE AcceptCreate(w)
  <2>1. PICK id \in Ids : /\ IsNew(id)
                         /\ Accepted(w, id, Columns, Set(w), "done")
                         /\ calm' = (calm /\ Alone(w, id))
    BY <1>1 DEF AcceptCreate
  <2>2. Set(w) \in Row /\ Columns \in SUBSET Columns
    BY SetIsRow, CacheAssumption DEF Writes
  <2>3. /\ OnlyWrite(w)
        /\ write'[w] = [stage |-> "published", id |-> id, fields |-> Columns, base |-> Set(w)]
        /\ invalidation'[w] = [invalidation[w] EXCEPT !.stage = "members"]
        /\ recache'[w] = "done"
    BY <2>1, <2>2, AcceptedBecomes
  <2>4. IsAcceptedWith(w, id, Columns, Set(w), "done")
    <3>1. calm' => Alone(w, id)
      BY <2>1
    <3>2. write[w].stage = "idle" /\ rows[id] = Absent
      BY <1>1, <2>1 DEF AcceptCreate, IsNext, IsNew
    <3> QED
      BY <2>2, <2>3, <3>1, <3>2 DEF IsAcceptedWith
  <2>5. IsAccepted(w)
    BY <2>2, <2>4 DEF IsAccepted
  <2> QED
    BY <1>1, <2>1, <2>3, <2>5 DEF AcceptCreate, TypeOK
<1>2. CASE BeginUpdate(w)
  <2>1. PICK id \in Ids, fields \in Changes :
           /\ rows[id] # Absent
           /\ write' = [write EXCEPT ![w].stage = "lookup", ![w].id = id,
                                     ![w].fields = fields]
    BY <1>2 DEF BeginUpdate
  <2> DEFINE r == [write[w] EXCEPT !.stage = "lookup", !.id = id, !.fields = fields]
  <2>2. r \in WriteRecord /\ r.stage = "lookup" /\ r.id = id
    <3>1. fields \in SUBSET Columns
      BY CacheAssumption DEF Columns
    <3> QED
      BY <1>0, <3>1 DEF WriteRecord
  <2>3. write' = [write EXCEPT ![w] = r]
    BY <1>0, <2>1
  <2>4. OnlyWrite(w) /\ write'[w] = r
    BY <1>2, <2>2, <2>3, WriteBecomes DEF BeginUpdate
  <2>5. IsLookingUp(w)
    BY <1>2, <2>1, <2>2, <2>4 DEF IsLookingUp, BeginUpdate, IsNext
  <2> QED
    BY <1>2, <2>4, <2>5 DEF BeginUpdate, TypeOK
<1>3. CASE LookUpCopy(w)
  <2> DEFINE id == write[w].id
             fields == write[w].fields
  <2>1. PICK ok \in BOOLEAN :
           /\ Succeeds(ok)
           /\ IF ok /\ copies[id] # Absent
              THEN /\ Accepted(w, id, fields, copies[id], "setCopy")
                   /\ calm' = (calm /\ Alone(w, id))
              ELSE /\ write' = [write EXCEPT ![w].stage = "query"]
                   /\ calm' = (calm /\ ok)
                   /\ UNCHANGED <<invalidation, recache>>
    BY <1>3 DEF LookUpCopy
  <2>2. /\ id \in Ids /\ rows[id] # Absent /\ write[w].stage = "lookup"
        /\ fields \in SUBSET Columns
        /\ copies[id] # Absent => copies[id] \in Row
    BY <1>0, <1>3, CampaignsAreRows DEF LookUpCopy, WritesAreWellFormed, TypeOK, WriteRecord
  <2>3. ASSUME ok /\ copies[id] # Absent
        PROVE  OnlyWrite(w) /\ IsAccepted(w) /\ calm' = (calm /\ Alone(w, id))
    <3>1. /\ OnlyWrite(w)
          /\ write'[w] = [stage |-> "published", id |-> id, fields |-> fields,
                          base |-> copies[id]]
          /\ invalidation'[w] = [invalidation[w] EXCEPT !.stage = "members"]
          /\ recache'[w] = "setCopy"
      BY <2>1, <2>2, <2>3, AcceptedBecomes
    <3>2. IsAcceptedWith(w, id, fields, copies[id], "setCopy")
      BY <2>1, <2>2, <2>3, <3>1 DEF IsAcceptedWith
    <3> QED
      BY <2>1, <2>2, <2>3, <3>1, <3>2 DEF IsAccepted
  <2>4. ASSUME ~(ok /\ copies[id] # Absent)
        PROVE  OnlyWrite(w) /\ IsLookingUp(w) /\ calm' = (calm /\ ok)
    <3> DEFINE r == [write[w] EXCEPT !.stage = "query"]
    <3>1. r \in WriteRecord /\ r.stage = "query" /\ r.id = id
      BY <1>0 DEF WriteRecord
    <3>2. write' = [write EXCEPT ![w] = r]
      BY <2>1, <2>4
    <3>3. OnlyWrite(w) /\ write'[w] = r
      BY <2>1, <2>4, <3>1, <3>2, WriteBecomes
    <3> QED
      BY <2>1, <2>2, <2>4, <3>1, <3>3 DEF IsLookingUp
  <2> QED
    BY <1>3, <2>1, <2>3, <2>4, SucceedsType DEF LookUpCopy, TypeOK
<1>4. CASE QueryRow(w)
  <2> DEFINE id == write[w].id
             fields == write[w].fields
  <2>1. PICK ok \in BOOLEAN :
           /\ Succeeds(ok)
           /\ IF ok
              THEN /\ Accepted(w, id, fields, Loaded(id), "setCopy")
                   /\ calm' = (calm /\ Alone(w, id))
              ELSE /\ write' = [write EXCEPT ![w].stage = "lost"]
                   /\ calm' = FALSE
                   /\ UNCHANGED <<invalidation, recache>>
    BY <1>4 DEF QueryRow
  <2>2. /\ id \in Ids /\ rows[id] # Absent /\ write[w].stage = "query"
        /\ fields \in SUBSET Columns
    BY <1>0, <1>4 DEF QueryRow, WritesAreWellFormed, WriteRecord
  <2>5. Loaded(id) \in Row
    BY <2>2, LoadedIsRow
  <2>3. ASSUME ok
        PROVE  OnlyWrite(w) /\ IsAccepted(w) /\ calm' = (calm /\ Alone(w, id))
    <3>1. /\ OnlyWrite(w)
          /\ write'[w] = [stage |-> "published", id |-> id, fields |-> fields,
                          base |-> Loaded(id)]
          /\ invalidation'[w] = [invalidation[w] EXCEPT !.stage = "members"]
          /\ recache'[w] = "setCopy"
      BY <2>1, <2>2, <2>3, <2>5, AcceptedBecomes
    <3>2. IsAcceptedWith(w, id, fields, Loaded(id), "setCopy")
      <4>1. calm' => Alone(w, id)
        BY <2>1, <2>3
      <4> QED
        BY <2>2, <2>5, <3>1, <4>1 DEF IsAcceptedWith
    <3> QED
      BY <2>1, <2>2, <2>3, <2>5, <3>1, <3>2 DEF IsAccepted
  <2>4. ASSUME ~ok
        PROVE  OnlyWrite(w) /\ IsLookingUp(w) /\ calm' = FALSE
    <3> DEFINE r == [write[w] EXCEPT !.stage = "lost"]
    <3>1. r \in WriteRecord /\ r.stage = "lost" /\ r.id = id
      BY <1>0 DEF WriteRecord
    <3>2. write' = [write EXCEPT ![w] = r]
      BY <2>1, <2>4
    <3>3. OnlyWrite(w) /\ write'[w] = r
      BY <2>1, <2>4, <3>1, <3>2, WriteBecomes
    <3> QED
      BY <2>1, <2>2, <2>4, <3>1, <3>3 DEF IsLookingUp
  <2> QED
    BY <1>4, <2>1, <2>3, <2>4, SucceedsType DEF QueryRow, TypeOK
<1>5. CASE AcceptForeignUpdate(w)
  <2>1. PICK id \in Ids, fields \in Changes :
           /\ rows[id] # Absent
           /\ write' = [write EXCEPT ![w] = [stage |-> "published", id |-> id,
                                             fields |-> fields, base |-> Loaded(id)]]
    BY <1>5 DEF AcceptForeignUpdate
  <2> DEFINE r == [stage |-> "published", id |-> id, fields |-> fields, base |-> Loaded(id)]
  <2>2. Loaded(id) \in Row /\ fields \in SUBSET Columns
    BY <2>1, LoadedIsRow, CacheAssumption DEF Columns
  <2>3. r \in WriteRecord
    BY <2>2 DEF WriteRecord, Campaign
  <2>4. OnlyWrite(w) /\ write'[w] = r
    BY <1>5, <2>1, <2>3, WriteBecomes DEF AcceptForeignUpdate
  <2>5. IsLookingUp(w)
    BY <1>5, <2>1, <2>2, <2>4, CampaignsAreRows DEF IsLookingUp, AcceptForeignUpdate, IsNext
  <2> QED
    BY <1>5, <2>4, <2>5 DEF AcceptForeignUpdate, TypeOK
<1> QED
  BY <1>1, <1>2, <1>3, <1>4, <1>5 DEF AcceptWrite

(* What a write overlays is a campaign, and so is what its event stores.   *)
LEMMA OverlaidIsRow ==
    ASSUME TypeOK, NEW w \in Writes, write[w].base # Absent
    PROVE  Overlaid(w) \in Row
<1>1. write[w].base \in Row /\ w \in Shown
  BY CampaignsAreRows, CacheAssumption DEF TypeOK, Writes, Shown
<1> QED
  BY <1>1 DEF Overlaid, Row

LEMMA StoredIsRow ==
    ASSUME TypeOK, WritesAreWellFormed, NEW w \in Writes, write[w].stage = "published"
    PROVE  /\ Decoded(w) \in [Fields -> Writes \union {None}]
           /\ Stored(w) \in Row
           /\ write[w].id \in Ids
<1> DEFINE id == write[w].id
<1>1. id \in Ids /\ Overlaid(w) \in Row
  BY OverlaidIsRow DEF WritesAreWellFormed
<1>2. Decoded(w) \in [Fields -> Writes \union {None}]
  BY DEF Decoded, TypeOK
<1>3. CASE IsCreate(w)
  BY <1>1, <1>2, <1>3 DEF Stored
<1>4. CASE ~IsCreate(w)
  <2>1. rows[id] \in Row
    BY <1>1, <1>4, CampaignsAreRows DEF IsCreate, TypeOK
  <2>2. w \in Shown /\ Writes \union {None} \subseteq Shown
    BY CacheAssumption DEF Shown, Writes
  <2>3. \A c \in Columns : /\ Overlaid(w)[c] \in Shown /\ rows[id][c] \in Shown
                           /\ c \in Fields => Decoded(w)[c] \in Shown
    BY <1>1, <1>2, <2>1, <2>2 DEF Row
  <2> DEFINE value(c) == IF c \in Fields THEN Decoded(w)[c] ELSE Overlaid(w)[c]
  <2>4. Stored(w) = [c \in Columns |->
                       IF c \in Stamped THEN w
                       ELSE IF value(c) = None THEN rows[id][c] ELSE value(c)]
    BY <1>4 DEF Stored
  <2>5. \A c \in Columns : value(c) \in Shown
    BY <2>3
  <2> HIDE DEF value
  <2>6. Stored(w) \in Row
    BY <2>2, <2>3, <2>4, <2>5 DEF Row
  <2> QED
    BY <1>1, <1>2, <2>6
<1> QED
  BY <1>3, <1>4

(* An event that comes through stores its write in the row.                *)
LEMMA ApplyEffect ==
    ASSUME TypeOK, WritesAreWellFormed, NEW w \in Writes, Apply(w)
    PROVE  /\ TypeOK'
           /\ OnlyWrite(w)
           /\ write[w].stage = "published" /\ write[w].id \in Ids
           /\ write'[w] = [write[w] EXCEPT !.stage = "applied"]
           /\ rows'[write[w].id] = Stored(w) /\ Stored(w) # Absent
           /\ \A i \in Ids \ {write[w].id} : rows'[i] = rows[i]
           /\ carried' = Decoded(w)
           /\ UNCHANGED <<redis, get, invalidation, recache, faults, calm>>
<1> DEFINE r == [write[w] EXCEPT !.stage = "applied"]
           id == write[w].id
<1>1. write \in [Writes -> WriteRecord] /\ write[w].stage = "published"
  BY DEF TypeOK, WriteRecord, Apply
<1>2. /\ id \in Ids /\ Stored(w) \in Row /\ Stored(w) # Absent
      /\ Decoded(w) \in [Fields -> Writes \union {None}]
  BY <1>1, StoredIsRow, CampaignsAreRows
<1>3. r \in WriteRecord
  BY <1>1 DEF WriteRecord, WriteStages
<1>4. write' = [write EXCEPT ![w] = r]
  BY DEF Apply
<1>5. OnlyWrite(w) /\ write'[w] = r
  BY <1>3, <1>4, WriteBecomes DEF Apply
<1>6. rows' = [rows EXCEPT ![id] = Stored(w)]
  BY DEF Apply
<1>7. /\ rows' \in [Ids -> Campaign]
      /\ rows'[id] = Stored(w)
      /\ \A i \in Ids \ {id} : rows'[i] = rows[i]
  BY <1>2, <1>6 DEF TypeOK, Campaign
<1>8. carried' = Decoded(w) /\ carried' \in [Fields -> Writes \union {None}]
  BY <1>2 DEF Apply
<1>9. TypeOK'
  BY <1>5, <1>7, <1>8 DEF TypeOK, Apply, redis, OnlyWrite, WriteRecord
<1> QED
  BY <1>1, <1>2, <1>5, <1>7, <1>8, <1>9 DEF Apply

(* One that does not may have been stored, or decoded.                     *)
LEMMA LoseEffect ==
    ASSUME TypeOK, WritesAreWellFormed, NEW w \in Writes, Lose(w)
    PROVE  /\ TypeOK'
           /\ OnlyWrite(w)
           /\ write[w].stage = "published" /\ write[w].id \in Ids
           /\ write'[w] = [write[w] EXCEPT !.stage = "lost"]
           /\ \/ rows'[write[w].id] = rows[write[w].id]
              \/ rows'[write[w].id] = Stored(w) /\ Stored(w) # Absent
           /\ \A i \in Ids \ {write[w].id} : rows'[i] = rows[i]
           /\ \/ carried' \in {carried, Decoded(w)}
              \/ \A c \in Fields : carried'[c] = None
           /\ ~calm'
           /\ UNCHANGED <<redis, get, invalidation, recache>>
<1> DEFINE r == [write[w] EXCEPT !.stage = "lost"]
           id == write[w].id
<1>1. write \in [Writes -> WriteRecord] /\ write[w].stage = "published"
  BY DEF TypeOK, WriteRecord, Lose
<1>2. /\ id \in Ids /\ Stored(w) \in Row /\ Stored(w) # Absent
      /\ Decoded(w) \in [Fields -> Writes \union {None}]
  BY <1>1, StoredIsRow, CampaignsAreRows
<1>3. r \in WriteRecord
  BY <1>1 DEF WriteRecord, WriteStages
<1>4. write' = [write EXCEPT ![w] = r]
  BY DEF Lose
<1>5. OnlyWrite(w) /\ write'[w] = r
  BY <1>3, <1>4, WriteBecomes DEF Lose
<1>6. rows' = rows \/ rows' = [rows EXCEPT ![id] = Stored(w)]
  BY DEF Lose
<1>7. /\ rows' \in [Ids -> Campaign]
      /\ rows'[id] \in {rows[id], Stored(w)}
      /\ \A i \in Ids \ {id} : rows'[i] = rows[i]
  BY <1>2, <1>6 DEF TypeOK, Campaign
<1>8. /\ carried' \in {carried, Decoded(w)} \/ \A c \in Fields : carried'[c] = None
      /\ carried' \in [Fields -> Writes \union {None}]
  <2>1. carried' \in {carried, Decoded(w), [c \in Fields |-> None]}
    BY DEF Lose
  <2> QED
    BY <1>2, <2>1 DEF TypeOK
<1>9. TypeOK'
  BY <1>5, <1>7, <1>8, SucceedsType DEF TypeOK, Lose, redis, OnlyWrite, WriteRecord
<1> QED
  BY <1>1, <1>2, <1>5, <1>7, <1>8, <1>9 DEF Lose

LEMMA InvalidationBecomes ==
    ASSUME TypeOK, NEW w \in Writes, NEW r \in InvalidationRecord,
           invalidation' = [invalidation EXCEPT ![w] = r], UNCHANGED <<write, recache>>
    PROVE  OnlyWrite(w) /\ invalidation'[w] = r
<1>1. invalidation \in [Writes -> InvalidationRecord]
  BY DEF TypeOK, InvalidationRecord
<1> QED
  BY <1>1 DEF OnlyWrite, TypeOK, WriteRecord

LEMMA InvalidationGoesType ==
    ASSUME TypeOK, NEW w \in Writes, NEW stage \in InvalidationStages,
           InvalidationGoes(w, stage), UNCHANGED <<write, recache>>
    PROVE  /\ OnlyWrite(w)
           /\ invalidation'[w] = [invalidation[w] EXCEPT !.stage = stage]
<1> DEFINE r == [invalidation[w] EXCEPT !.stage = stage]
<1>1. r \in InvalidationRecord
  BY DEF TypeOK, InvalidationRecord
<1>2. invalidation' = [invalidation EXCEPT ![w] = r]
  BY DEF InvalidationGoes
<1> QED
  BY <1>1, <1>2, InvalidationBecomes

(* Keys that are only deleted.                                             *)
OnlyDeletes ==
    /\ copies' \in [Ids -> Campaign]
    /\ \A i \in Ids : copies'[i] \in {Absent, copies[i]}
    /\ answers' \in [Keys -> Answer \union {None}]
    /\ \A k \in Keys : answers'[k] \in {None, answers[k]}
    /\ index' \subseteq index

LEMMA NothingIsDeleted ==
    ASSUME TypeOK, UNCHANGED <<copies, answers>>, index' \subseteq index
    PROVE  OnlyDeletes
BY DEF TypeOK, OnlyDeletes

LEMMA SomeCopiesAreDeleted ==
    ASSUME TypeOK, UNCHANGED <<answers, index>>, NEW S,
           copies' = [i \in Ids |-> IF i \in S THEN Absent ELSE copies[i]]
    PROVE  OnlyDeletes
BY CampaignsAreRows DEF TypeOK, OnlyDeletes

LEMMA SomeAnswersAreDeleted ==
    ASSUME TypeOK, UNCHANGED <<copies, index>>, NEW S,
           answers' = [k \in Keys |-> IF k \in S THEN None ELSE answers[k]]
    PROVE  OnlyDeletes
BY DEF TypeOK, OnlyDeletes

(* An invalidation deletes, and in calm misses no answer under a filter.   *)
LEMMA InvalidateEffect ==
    ASSUME TypeOK, NEW w \in Writes, Invalidate(w)
    PROVE  /\ TypeOK'
           /\ OnlyWrite(w)
           /\ OnlyDeletes
           /\ invalidation[w].stage # "done"
           /\ calm' => calm
           /\ calm' => \A k \in KeyTexts \ Skipped :
                 answers'[k] # None /\ WillDelete(w, k) => WillDelete(w, k)'
           /\ UNCHANGED <<rows, get, write, recache, carried>>
<1> USE DEF InvalidationStages
<1>0. /\ invalidation \in [Writes -> InvalidationRecord]
      /\ invalidation[w] \in InvalidationRecord
  BY DEF TypeOK, InvalidationRecord
<1> SUFFICES /\ OnlyWrite(w)
             /\ OnlyDeletes
             /\ invalidation[w].stage # "done"
             /\ faults' \in 0 .. MaxFaults
             /\ calm' \in BOOLEAN /\ (calm' => calm)
             /\ calm' => \A k \in KeyTexts \ Skipped :
                   answers'[k] # None /\ WillDelete(w, k) => WillDelete(w, k)'
             /\ UNCHANGED <<rows, get, write, recache, carried>>
  BY DEF TypeOK, OnlyWrite, OnlyDeletes, InvalidationRecord
<1>1. CASE ReadMembers(w)
  <2>1. PICK ok \in BOOLEAN :
           /\ Succeeds(ok)
           /\ IF ok THEN invalidation' = [invalidation EXCEPT
                              ![w].ids = index,
                              ![w].stage = IF index = {} THEN "delIndex" ELSE "delCopies"]
              ELSE Ends(w)
           /\ calm' = (calm /\ ok)
    BY <1>1 DEF ReadMembers
  <2>2. UNCHANGED <<rows, redis, get, write, recache, carried>> /\ invalidation[w].stage = "members"
    BY <1>1 DEF ReadMembers
  <2>3. CASE ok
    <3> DEFINE r == [invalidation[w] EXCEPT
                       !.ids = index, !.stage = IF index = {} THEN "delIndex" ELSE "delCopies"]
    <3>1. r \in InvalidationRecord /\ r.stage \in {"delIndex", "delCopies"}
      BY <1>0 DEF InvalidationRecord, TypeOK
    <3>2. invalidation' = [invalidation EXCEPT ![w] = r]
      BY <1>0, <2>1, <2>3
    <3>3. OnlyWrite(w) /\ invalidation'[w] = r
      BY <2>2, <3>1, <3>2, InvalidationBecomes
    <3>4. \A k \in KeyTexts \ Skipped : WillDelete(w, k)'
      BY <3>1, <3>3 DEF WillDelete
    <3> QED
      BY <2>1, <2>2, <3>3, <3>4, SucceedsType, NothingIsDeleted DEF redis, TypeOK
  <2>4. CASE ~ok
    BY <2>1, <2>2, <2>4, InvalidationGoesType, SucceedsType, NothingIsDeleted
       DEF Ends, InvalidationGoes, redis, TypeOK
  <2> QED
    BY <2>3, <2>4
<1>2. CASE DeleteCopies(w)
  <2>1. PICK ok \in BOOLEAN :
           /\ Succeeds(ok)
           /\ copies' = IF ok THEN [i \in Ids |-> IF i \in invalidation[w].ids THEN Absent
                                                  ELSE copies[i]]
                        ELSE copies
           /\ IF ok THEN InvalidationGoes(w, "delIndex") ELSE Ends(w)
           /\ calm' = (calm /\ ok)
    BY <1>2 DEF DeleteCopies
  <2>2. /\ UNCHANGED <<rows, index, answers, get, write, recache, carried>>
        /\ invalidation[w].stage = "delCopies"
    BY <1>2 DEF DeleteCopies
  <2>3. OnlyDeletes
    BY <2>1, <2>2, SomeCopiesAreDeleted, NothingIsDeleted
  <2>4. CASE ok
    <3>1. OnlyWrite(w) /\ invalidation'[w] = [invalidation[w] EXCEPT !.stage = "delIndex"]
      BY <2>1, <2>2, <2>4, InvalidationGoesType
    <3>2. \A k \in KeyTexts \ Skipped : WillDelete(w, k)'
      BY <1>0, <3>1 DEF WillDelete, InvalidationRecord
    <3> QED
      BY <2>1, <2>2, <2>3, <3>1, <3>2, SucceedsType DEF TypeOK
  <2>5. CASE ~ok
    BY <2>1, <2>2, <2>3, <2>5, InvalidationGoesType, SucceedsType
       DEF Ends, InvalidationGoes, TypeOK
  <2> QED
    BY <2>4, <2>5
<1>3. CASE DeleteIndex(w)
  <2>1. PICK ok \in BOOLEAN :
           /\ Succeeds(ok)
           /\ index' = IF ok THEN {} ELSE index
           /\ IF ok THEN InvalidationGoes(w, "keys") ELSE Ends(w)
           /\ calm' = (calm /\ ok)
    BY <1>3 DEF DeleteIndex
  <2>2. /\ UNCHANGED <<rows, copies, answers, get, write, recache, carried>>
        /\ invalidation[w].stage = "delIndex"
    BY <1>3 DEF DeleteIndex
  <2>3. OnlyDeletes
    BY <2>1, <2>2, NothingIsDeleted
  <2>4. CASE ok
    <3>1. OnlyWrite(w) /\ invalidation'[w] = [invalidation[w] EXCEPT !.stage = "keys"]
      BY <2>1, <2>2, <2>4, InvalidationGoesType
    <3>2. \A k \in KeyTexts \ Skipped : WillDelete(w, k)'
      BY <1>0, <3>1 DEF WillDelete, InvalidationRecord
    <3> QED
      BY <2>1, <2>2, <2>3, <3>1, <3>2, SucceedsType DEF TypeOK
  <2>5. CASE ~ok
    BY <2>1, <2>2, <2>3, <2>5, InvalidationGoesType, SucceedsType
       DEF Ends, InvalidationGoes, TypeOK
  <2> QED
    BY <2>4, <2>5
<1>4. CASE FindKeys(w)
  <2>1. PICK ok \in BOOLEAN :
           /\ Succeeds(ok)
           /\ IF ok THEN invalidation' = [invalidation EXCEPT
                              ![w].keys = QueryKeys,
                              ![w].stage = IF QueryKeys = {} THEN "done" ELSE "delAnswers"]
              ELSE Ends(w)
           /\ calm' = (calm /\ ok)
    BY <1>4 DEF FindKeys
  <2>2. UNCHANGED <<rows, redis, get, write, recache, carried>> /\ invalidation[w].stage = "keys"
    BY <1>4 DEF FindKeys
  <2>3. CASE ok
    <3> DEFINE r == [invalidation[w] EXCEPT
                       !.keys = QueryKeys,
                       !.stage = IF QueryKeys = {} THEN "done" ELSE "delAnswers"]
    <3>1. r \in InvalidationRecord
      BY <1>0 DEF InvalidationRecord, QueryKeys, Keys
    <3>2. /\ r.keys = QueryKeys
          /\ QueryKeys # {} => r.stage = "delAnswers"
      BY <1>0 DEF InvalidationRecord
    <3>3. invalidation' = [invalidation EXCEPT ![w] = r]
      BY <1>0, <2>1, <2>3
    <3>4. OnlyWrite(w) /\ invalidation'[w] = r
      BY <2>2, <3>1, <3>3, InvalidationBecomes
    <3> HIDE DEF r
    <3>5. \A k \in KeyTexts \ Skipped : answers'[k] # None => WillDelete(w, k)'
      BY <2>2, <3>2, <3>4 DEF WillDelete, QueryKeys, redis
    <3> QED
      BY <2>1, <2>2, <3>4, <3>5, SucceedsType, NothingIsDeleted DEF redis, TypeOK
  <2>4. CASE ~ok
    BY <2>1, <2>2, <2>4, InvalidationGoesType, SucceedsType, NothingIsDeleted
       DEF Ends, InvalidationGoes, redis, TypeOK
  <2> QED
    BY <2>3, <2>4
<1>5. CASE DeleteAnswers(w)
  <2>1. PICK ok \in BOOLEAN :
           /\ Succeeds(ok)
           /\ answers' = IF ok THEN [k \in Keys |-> IF k \in invalidation[w].keys THEN None
                                                    ELSE answers[k]]
                         ELSE answers
           /\ calm' = (calm /\ ok)
    BY <1>5 DEF DeleteAnswers
  <2>2. /\ UNCHANGED <<rows, copies, index, get, write, recache, carried>>
        /\ invalidation[w].stage = "delAnswers" /\ Ends(w)
    BY <1>5 DEF DeleteAnswers
  <2>3. OnlyDeletes
    BY <2>1, <2>2, SomeAnswersAreDeleted, NothingIsDeleted
  <2>4. OnlyWrite(w)
    BY <2>2, InvalidationGoesType DEF Ends, InvalidationGoes
  <2>5. calm' => \A k \in KeyTexts \ Skipped : answers'[k] # None => ~WillDelete(w, k)
    BY <2>1, <2>2 DEF WillDelete, Keys
  <2> QED
    BY <2>1, <2>2, <2>3, <2>4, <2>5, SucceedsType DEF TypeOK
<1> QED
  BY <1>1, <1>2, <1>3, <1>4, <1>5 DEF Invalidate

(* A re-cache sets the copy of its campaign, and then the index.           *)
LEMMA RecacheEffect ==
    ASSUME TypeOK, WritesAreWellFormed, NEW w \in Writes, Recache(w)
    PROVE  /\ TypeOK'
           /\ OnlyWrite(w)
           /\ recache[w] # "done" /\ write[w].id \in Ids /\ rows[write[w].id] # Absent
           /\ calm' => calm
           /\ \/ /\ recache[w] = "setCopy" /\ recache'[w] = "addIndex"
                 /\ copies'[write[w].id] \in {copies[write[w].id], Overlaid(w)}
                 /\ calm' => copies'[write[w].id] = Overlaid(w)
              \/ recache[w] = "addIndex" /\ recache'[w] = "done" /\ copies' = copies
           /\ \A i \in Ids \ {write[w].id} : copies'[i] = copies[i]
           /\ UNCHANGED <<rows, answers, get, write, invalidation, carried>>
<1> DEFINE id == write[w].id
<1>1. /\ id \in Ids /\ rows[id] # Absent
      /\ recache[w] # "done" /\ recache \in [Writes -> {"setCopy", "addIndex", "done"}]
  <2>1. recache[w] # "done"
    BY DEF Recache, SetNewCopy, AddNewIndex
  <2>2. write[w].stage # "idle"
    BY <2>1 DEF WritesAreWellFormed
  <2> QED
    BY <2>1, <2>2 DEF WritesAreWellFormed, TypeOK
<1>2. CASE SetNewCopy(w)
  <2>1. PICK ok \in BOOLEAN :
           /\ Succeeds(ok)
           /\ copies' = IF ok THEN [copies EXCEPT ![id] = Overlaid(w)] ELSE copies
           /\ calm' = (calm /\ ok)
    BY <1>2 DEF SetNewCopy
  <2>2. /\ recache' = [recache EXCEPT ![w] = "addIndex"] /\ recache[w] = "setCopy"
        /\ UNCHANGED <<rows, index, answers, get, write, invalidation, carried>>
    BY <1>2 DEF SetNewCopy
  <2>3. OnlyWrite(w) /\ recache'[w] = "addIndex"
    BY <1>1, <2>2 DEF OnlyWrite, TypeOK, WriteRecord, InvalidationRecord
  <2>4. /\ copies' \in [Ids -> Campaign]
        /\ copies'[id] = IF ok THEN Overlaid(w) ELSE copies[id]
        /\ \A i \in Ids \ {id} : copies'[i] = copies[i]
    <3>1. Overlaid(w) \in Campaign
      BY <1>1, OverlaidIsRow DEF WritesAreWellFormed, Campaign
    <3> QED
      BY <1>1, <2>1, <3>1 DEF TypeOK
  <2>5. TypeOK'
    BY <2>1, <2>2, <2>3, <2>4, SucceedsType DEF TypeOK, OnlyWrite
  <2> QED
    BY <1>1, <2>1, <2>2, <2>3, <2>4, <2>5 DEF TypeOK
<1>3. CASE AddNewIndex(w)
  <2>1. PICK ok \in BOOLEAN :
           /\ Succeeds(ok)
           /\ index' = IF ok THEN index \union {id} ELSE index
           /\ calm' = (calm /\ ok)
    BY <1>3 DEF AddNewIndex
  <2>2. /\ recache' = [recache EXCEPT ![w] = "done"] /\ recache[w] = "addIndex"
        /\ UNCHANGED <<rows, copies, answers, get, write, invalidation, carried>>
    BY <1>3 DEF AddNewIndex
  <2>3. OnlyWrite(w) /\ recache'[w] = "done"
    BY <1>1, <2>2 DEF OnlyWrite, TypeOK, WriteRecord, InvalidationRecord
  <2>4. TypeOK'
    BY <1>1, <2>1, <2>2, <2>3, SucceedsType DEF TypeOK, OnlyWrite
  <2> QED
    BY <1>1, <2>1, <2>2, <2>3, <2>4 DEF TypeOK
<1> QED
  BY <1>2, <1>3 DEF Recache

LEMMA ExpireEffect ==
    ASSUME TypeOK, Expire
    PROVE  /\ TypeOK'
           /\ OnlyDeletes
           /\ UNCHANGED <<rows, get, write, invalidation, recache, carried, faults, calm>>
<1> SUFFICES /\ OnlyDeletes
             /\ UNCHANGED <<rows, get, write, invalidation, recache, carried, faults, calm>>
  BY DEF TypeOK, OnlyDeletes
<1>1. ASSUME NEW i \in Ids, ExpireCopy(i)
      PROVE  OnlyDeletes
  BY <1>1, CampaignsAreRows DEF ExpireCopy, OnlyDeletes, TypeOK
<1>2. ASSUME NEW k \in Keys, ExpireAnswer(k)
      PROVE  OnlyDeletes
  BY <1>2 DEF ExpireAnswer, OnlyDeletes, TypeOK
<1>3. ASSUME ExpireIndex
      PROVE  OnlyDeletes
  BY <1>3 DEF ExpireIndex, OnlyDeletes, TypeOK
<1>4. OnlyDeletes
  BY <1>1, <1>2, <1>3 DEF Expire
<1> QED
  BY <1>4 DEF Expire, ExpireCopy, ExpireAnswer, ExpireIndex
-----------------------------------------------------------------------------
LEMMA TypeIsKept ==
    ASSUME TypeOK, WritesAreWellFormed, GetsAreWellFormed, CachedCampaignsExist, [Next]_vars
    PROVE  TypeOK'
<1>1. ASSUME NEW g \in Gets, BeginGet(g) \/ Read(g)
      PROVE  TypeOK'
  BY <1>1, ReadType DEF TypeOK, OnlyGet, GetRecord, redis
<1>2. ASSUME NEW g \in Gets, Fill(g)
      PROVE  TypeOK'
  BY <1>2, FillType
<1>3. ASSUME NEW w \in Writes, AcceptWrite(w)
      PROVE  TypeOK'
  BY <1>3, AcceptWriteEffect DEF TypeOK, OnlyWrite, WriteRecord, InvalidationRecord, redis
<1>4. ASSUME NEW w \in Writes, Apply(w) \/ Lose(w) \/ Invalidate(w) \/ Recache(w)
      PROVE  TypeOK'
  BY <1>4, ApplyEffect, LoseEffect, InvalidateEffect, RecacheEffect
<1>5. CASE Expire
  BY <1>5, ExpireEffect
<1>6. CASE UNCHANGED vars
  BY <1>6 DEF TypeOK, vars, redis
<1> QED
  BY <1>1, <1>2, <1>3, <1>4, <1>5, <1>6 DEF Next
-----------------------------------------------------------------------------
(* A list respects a filter, or another with the same key.                 *)
IsAnswerTo(list, filter) ==
    filter # None => \E f \in Filters : KeyText[f] = KeyText[filter] /\ Respects(list, f)

(* What a request has after a step of its reading half.                    *)
HasRead(g) ==
    /\ get'[g].stage \notin {"idle", "setCopy", "addIndex"}
    /\ get'[g].stage = "copy" => get'[g].query.id # None
    /\ get'[g].stage \in {"index", "copies"} => get'[g].query.filter = None
    /\ Listed(get'[g].list) \subseteq Listed(rows)
    /\ get'[g].stage = "setAnswer" => Respects(get'[g].list, get'[g].query.filter)
    /\ get'[g].stage = "done" /\ get'[g].query.id = None =>
          IsAnswerTo(get'[g].list, get'[g].query.filter)
    /\ calm' /\ get'[g].stage = "find" => Quiet /\ get'[g].total = Total(get'[g].query)
    /\ get'[g].stage = "setAnswer" =>
          /\ get[g].stage = "find"
          /\ get'[g].list = Result(get'[g].query)
          /\ get'[g].query = get[g].query
          /\ get'[g].total = get[g].total
          /\ get'[g].ids \subseteq Listed(get'[g].list)

LEMMA GoesHasRead ==
    ASSUME TypeOK, GetsAreWellFormed, NEW g \in Gets,
           NEW stage \in {"answer", "index", "count", "refused"}, Goes(g, stage),
           stage = "index" => get[g].query.filter = None
    PROVE  HasRead(g)
<1>1. get'[g] = [get[g] EXCEPT !.stage = stage]
  BY GoesType DEF GetStages
<1>2. get[g] \in GetRecord
  BY DEF TypeOK, GetRecord
<1>3. get'[g].stage = stage /\ get'[g].query = get[g].query /\ get'[g].list = get[g].list
  BY <1>1, <1>2 DEF GetRecord
<1> QED
  BY <1>3 DEF HasRead, GetsAreWellFormed

LEMMA RepliesHasRead ==
    ASSUME TypeOK, NEW g \in Gets, NEW list \in List, NEW total \in 0 .. Cardinality(Ids),
           Replies(g, list, total), Listed(list) \subseteq Listed(rows),
           get[g].query.id = None => IsAnswerTo(list, get[g].query.filter)
    PROVE  HasRead(g)
<1>2. get[g] \in GetRecord /\ get \in [Gets -> GetRecord]
  BY DEF TypeOK, GetRecord
<1> DEFINE r == [get[g] EXCEPT !.stage = "done", !.list = list, !.total = total]
<1>4. get' = [get EXCEPT ![g] = r]
  BY <1>2 DEF Replies
<1>1. get'[g] = r
  BY <1>2, <1>4
<1>3. get'[g].stage = "done" /\ get'[g].query = get[g].query /\ get'[g].list = list
  BY <1>1, <1>2 DEF GetRecord
<1> QED
  BY <1>3 DEF HasRead

LEMMA ReadEffect ==
    ASSUME TypeOK, GetsAreWellFormed, CachedCampaignsExist, ListsRespectFilters,
           NEW g \in Gets, BeginGet(g) \/ Read(g)
    PROVE  HasRead(g)
<1>0. get[g] \in GetRecord /\ get \in [Gets -> GetRecord]
  BY DEF TypeOK, GetRecord
<1> DEFINE q == get[g].query
<1>1. CASE BeginGet(g)
  <2>1. PICK p \in Queries :
           get' = [get EXCEPT ![g].query = p,
                              ![g].stage = IF p.id = None THEN "answer" ELSE "copy"]
    BY <1>1 DEF BeginGet
  <2> DEFINE r == [get[g] EXCEPT !.query = p,
                                 !.stage = IF p.id = None THEN "answer" ELSE "copy"]
  <2>2. get' = [get EXCEPT ![g] = r]
    BY <1>0, <2>1
  <2>3. get'[g] = r
    BY <1>0, <2>2
  <2>4. /\ get'[g].query = p /\ get'[g].list = get[g].list
        /\ get'[g].stage = IF p.id = None THEN "answer" ELSE "copy"
    BY <1>0, <2>3 DEF GetRecord
  <2> QED
    BY <2>4 DEF HasRead, GetsAreWellFormed
<1>2. CASE ReadCopy(g)
  <2>1. PICK ok \in BOOLEAN :
           IF ok /\ copies[q.id] # Absent
           THEN Replies(g, [EmptyList EXCEPT ![q.id] = copies[q.id]], 1)
           ELSE Goes(g, "answer")
    BY <1>2 DEF ReadCopy
  <2>2. q.id \in Ids
    BY <1>0, <1>2 DEF ReadCopy, GetsAreWellFormed, GetRecord, Query
  <2>3. CASE ok /\ copies[q.id] # Absent
    <3> DEFINE list == [EmptyList EXCEPT ![q.id] = copies[q.id]]
    <3>1. list \in List /\ 1 \in 0 .. Cardinality(Ids)
      BY <2>2, EmptyListIsList, CacheAssumption, FS_EmptySet, FS_CardinalityType
         DEF List, TypeOK
    <3>2. Listed(list) \subseteq Listed(rows)
      BY <2>2, <2>3 DEF Listed, EmptyList, CachedCampaignsExist
    <3>3. q.id # None
      BY <2>2, CacheAssumption
    <3>4. Replies(g, list, 1)
      BY <2>1, <2>3
    <3> HIDE DEF list
    <3> QED
      BY <3>1, <3>2, <3>3, <3>4, RepliesHasRead
  <2>4. CASE ~(ok /\ copies[q.id] # Absent)
    BY <2>1, <2>4, GoesHasRead
  <2> QED
    BY <2>3, <2>4
<1>3. CASE ReadAnswer(g)
  <2> DEFINE answer == answers[KeyOf(q)]
             stage == IF q.id = None /\ q.filter = None THEN "index" ELSE "count"
  <2>1. PICK ok \in BOOLEAN :
           IF ok /\ answer # None THEN Replies(g, answer.list, answer.total)
           ELSE Goes(g, stage)
    BY <1>3 DEF ReadAnswer
  <2>2. q \in Query /\ KeyOf(q) \in Keys
    BY <1>0, KeysAreKeys DEF GetRecord
  <2>3. CASE ok /\ answer # None
    <3>1. /\ answer.list \in List /\ answer.total \in 0 .. Cardinality(Ids)
          /\ answer.query \in Query
      BY <2>2, <2>3 DEF TypeOK, Answer
    <3>2. Listed(answer.list) \subseteq Listed(rows)
      BY <2>2, <2>3 DEF CachedCampaignsExist
    <3>5. KeyOf(answer.query) = KeyOf(q) /\ Respects(answer.list, answer.query.filter)
      BY <2>2, <2>3 DEF ListsRespectFilters
    <3>6. ASSUME q.filter # None
          PROVE  /\ answer.query.filter \in Filters
                 /\ KeyText[answer.query.filter] = KeyText[q.filter]
      BY <2>2, <3>1, <3>5, <3>6, KeysAreKeys DEF Query
    <3>3. IsAnswerTo(answer.list, q.filter)
      BY <3>5, <3>6 DEF IsAnswerTo
    <3>4. Replies(g, answer.list, answer.total)
      BY <2>1, <2>3
    <3> HIDE DEF answer
    <3> QED
      BY <3>1, <3>2, <3>3, <3>4, RepliesHasRead
  <2>4. CASE ~(ok /\ answer # None)
    <3>1. Goes(g, stage) /\ stage \in {"answer", "index", "count", "refused"}
      BY <2>1, <2>4
    <3>2. stage = "index" => q.filter = None
      OBVIOUS
    <3> HIDE DEF stage
    <3> QED
      BY <3>1, <3>2, GoesHasRead
  <2> QED
    BY <2>3, <2>4
<1>4. CASE ReadIndex(g)
  <2>1. PICK ok \in BOOLEAN :
           IF ok /\ index # {}
           THEN get' = [get EXCEPT ![g].stage = "copies", ![g].ids = index]
           ELSE Goes(g, "count")
    BY <1>4 DEF ReadIndex
  <2>2. CASE ok /\ index # {}
    <3> DEFINE r == [get[g] EXCEPT !.stage = "copies", !.ids = index]
    <3>1. get' = [get EXCEPT ![g] = r]
      BY <1>0, <2>1, <2>2
    <3>2. get'[g] = r
      BY <1>0, <3>1
    <3>3. get'[g].stage = "copies" /\ get'[g].query = q /\ get'[g].list = get[g].list
      BY <1>0, <3>2 DEF GetRecord
    <3> QED
      BY <1>4, <3>3 DEF HasRead, GetsAreWellFormed, ReadIndex
  <2>3. CASE ~(ok /\ index # {})
    BY <2>1, <2>3, GoesHasRead
  <2> QED
    BY <2>2, <2>3
<1>5. CASE ReadCopies(g)
  <2> DEFINE list == [i \in Ids |-> IF i \in get[g].ids THEN copies[i] ELSE Absent]
  <2>1. PICK ok \in BOOLEAN :
           IF ok /\ Listed(list) # {} THEN Replies(g, list, Cardinality(Listed(list)))
           ELSE Goes(g, "count")
    BY <1>5 DEF ReadCopies
  <2>2. list \in List
    BY CampaignsAreRows DEF List, TypeOK
  <2>3. Listed(list) \subseteq Listed(rows)
    BY DEF Listed, CachedCampaignsExist
  <2>4. IsAnswerTo(list, q.filter)
    BY <1>5 DEF ReadCopies, GetsAreWellFormed, IsAnswerTo
  <2> HIDE DEF list
  <2> QED
    BY <2>1, <2>2, <2>3, <2>4, ListsAreBounded, RepliesHasRead, GoesHasRead
<1>6. CASE CountRows(g)
  <2>1. PICK ok \in BOOLEAN :
           /\ IF ok THEN get' = [get EXCEPT ![g].stage = "find", ![g].total = Total(q)]
              ELSE Goes(g, "refused")
           /\ calm' = (calm /\ ok /\ \A w \in Writes : ~Busy(w))
    BY <1>6 DEF CountRows
  <2>2. CASE ok
    <3> DEFINE r == [get[g] EXCEPT !.stage = "find", !.total = Total(q)]
    <3>1. get' = [get EXCEPT ![g] = r]
      BY <1>0, <2>1, <2>2
    <3>2. get'[g] = r
      BY <1>0, <3>1
    <3>3. /\ get'[g].stage = "find" /\ get'[g].query = q /\ get'[g].list = get[g].list
          /\ get'[g].total = Total(q)
      BY <1>0, <3>2 DEF GetRecord
    <3>4. calm' => Quiet
      BY <2>1 DEF Quiet
    <3> QED
      BY <3>3, <3>4 DEF HasRead, GetsAreWellFormed
  <2>3. CASE ~ok
    BY <2>1, <2>3, GoesHasRead
  <2> QED
    BY <2>2, <2>3
<1>7. CASE FindRows(g)
  <2> DEFINE list == Result(q)
  <2>1. PICK ok \in BOOLEAN :
           IF ok THEN get' = [get EXCEPT ![g].stage = "setAnswer", ![g].list = list,
                                         ![g].ids = Listed(list)]
           ELSE Goes(g, "refused")
    BY <1>7 DEF FindRows
  <2>2. Listed(list) \subseteq Listed(rows) /\ Respects(list, q.filter)
    BY <1>0, ResultIsList DEF GetRecord, TypeOK, List
  <2>3. CASE ok
    <3> DEFINE r == [get[g] EXCEPT !.stage = "setAnswer", !.list = list, !.ids = Listed(list)]
    <3>1. get' = [get EXCEPT ![g] = r]
      BY <1>0, <2>1, <2>3
    <3>2. get'[g] = r
      BY <1>0, <3>1
    <3>3. /\ get'[g].stage = "setAnswer" /\ get'[g].query = q /\ get'[g].list = list
          /\ get'[g].total = get[g].total /\ get'[g].ids = Listed(list)
      BY <1>0, <3>2 DEF GetRecord
    <3> QED
      BY <1>7, <2>2, <3>3 DEF HasRead, FindRows
  <2>4. CASE ~ok
    BY <2>1, <2>4, GoesHasRead
  <2> QED
    BY <2>3, <2>4
<1> QED
  BY <1>1, <1>2, <1>3, <1>4, <1>5, <1>6, <1>7 DEF Read
(* What a fill sets is what its request read.                              *)
HasFilled(g) ==
    /\ get[g].stage \in {"setAnswer", "setCopy", "addIndex"}
    /\ get'[g].stage \in {"setCopy", "addIndex", "done"}
    /\ get'[g].query = get[g].query
    /\ get'[g].list = get[g].list
    /\ get'[g].total = get[g].total
    /\ get'[g].ids \subseteq get[g].ids
    /\ get'[g].stage = "addIndex" => get'[g].at # None
    /\ \A k \in Keys :
          \/ answers'[k] = answers[k]
          \/ /\ get[g].stage = "setAnswer" /\ k = KeyOf(get[g].query)
             /\ answers'[k] = [query |-> get[g].query, list |-> get[g].list,
                               total |-> get[g].total]
    /\ \A i \in Ids :
          \/ copies'[i] = copies[i]
          \/ i \in Listed(get[g].list) /\ copies'[i] = get[g].list[i]

LEMMA FillEffect ==
    ASSUME TypeOK, GetsAreWellFormed, NEW g \in Gets, Fill(g)
    PROVE  HasFilled(g)
<1>0. get[g] \in GetRecord /\ get \in [Gets -> GetRecord]
  BY DEF TypeOK, GetRecord
<1> DEFINE stage == IF get[g].ids = {} THEN "done" ELSE "setCopy"
<1>1. ASSUME Goes(g, stage)
      PROVE  /\ get'[g].stage \in {"setCopy", "done"}
             /\ get'[g].query = get[g].query /\ get'[g].list = get[g].list
             /\ get'[g].total = get[g].total /\ get'[g].ids = get[g].ids
  <2>1. stage \in {"setCopy", "done"}
    OBVIOUS
  <2> HIDE DEF stage
  <2>2. get'[g] = [get[g] EXCEPT !.stage = stage]
    BY <1>1, <2>1, GoesType DEF GetStages
  <2> QED
    BY <1>0, <2>1, <2>2 DEF GetRecord
<1>2. CASE SetAnswer(g)
  <2> DEFINE a == [query |-> get[g].query, list |-> get[g].list, total |-> get[g].total]
             k == KeyOf(get[g].query)
  <2>1. /\ get[g].stage = "setAnswer" /\ Goes(g, stage) /\ copies' = copies
        /\ answers' = [answers EXCEPT ![k] = a] \/ answers' = answers
    BY <1>2 DEF SetAnswer
  <2> HIDE DEF a, k
  <2>2. \A l \in Keys : answers'[l] = answers[l] \/ (l = k /\ answers'[l] = a)
    BY <2>1 DEF TypeOK
  <2>3. /\ get[g].stage = "setAnswer" /\ get'[g].stage \in {"setCopy", "done"}
        /\ get'[g].query = get[g].query /\ get'[g].list = get[g].list
        /\ get'[g].total = get[g].total /\ get'[g].ids = get[g].ids
        /\ copies' = copies
    BY <1>1, <2>1
  <2>4. \A l \in Keys :
           \/ answers'[l] = answers[l]
           \/ /\ get[g].stage = "setAnswer" /\ l = KeyOf(get[g].query)
              /\ answers'[l] = [query |-> get[g].query, list |-> get[g].list,
                                total |-> get[g].total]
    BY <2>2, <2>3 DEF a, k
  <2> QED
    BY <2>3, <2>4 DEF HasFilled
<1>3. CASE SetCopy(g)
  <2>1. PICK i \in get[g].ids, ok \in BOOLEAN :
           /\ copies' = IF ok THEN [copies EXCEPT ![i] = get[g].list[i]] ELSE copies
           /\ get' = [get EXCEPT ![g].stage = "addIndex", ![g].at = i, ![g].ids = @ \ {i}]
    BY <1>3 DEF SetCopy
  <2> DEFINE r == [get[g] EXCEPT !.stage = "addIndex", !.at = i, !.ids = get[g].ids \ {i}]
  <2>2. get' = [get EXCEPT ![g] = r]
    BY <1>0, <2>1
  <2>3. get'[g] = r
    BY <1>0, <2>2
  <2>4. /\ get'[g].stage = "addIndex" /\ get'[g].at = i /\ get'[g].ids = get[g].ids \ {i}
        /\ get'[g].query = get[g].query /\ get'[g].list = get[g].list
        /\ get'[g].total = get[g].total
    BY <1>0, <2>3 DEF GetRecord
  <2>5. get[g].stage = "setCopy" /\ answers' = answers
    BY <1>3 DEF SetCopy
  <2>6. i \in Listed(get[g].list) /\ i \in Ids /\ i # None
    BY <1>0, <2>5, CacheAssumption DEF GetsAreWellFormed, GetRecord
  <2>7. \A j \in Ids : copies'[j] = copies[j] \/ (j = i /\ copies'[j] = get[g].list[j])
    BY <2>1, <2>6 DEF TypeOK
  <2> QED
    BY <2>4, <2>5, <2>6, <2>7 DEF HasFilled
<1>4. CASE AddIndex(g)
  BY <1>1, <1>4 DEF HasFilled, AddIndex
<1> QED
  BY <1>2, <1>3, <1>4 DEF Fill
-----------------------------------------------------------------------------
(* Campaigns never leave the table, and calm does not come back.           *)
LEMMA RowsStay ==
    ASSUME TypeOK, WritesAreWellFormed, GetsAreWellFormed, CachedCampaignsExist, [Next]_vars
    PROVE  Listed(rows) \subseteq Listed(rows') /\ (calm' => calm)
<1>1. ASSUME NEW g \in Gets, BeginGet(g) \/ Read(g) \/ Fill(g)
      PROVE  rows' = rows /\ (calm' => calm)
  BY <1>1, ReadType, FillType
<1>2. ASSUME NEW w \in Writes, AcceptWrite(w) \/ Invalidate(w) \/ Recache(w)
      PROVE  rows' = rows /\ (calm' => calm)
  BY <1>2, AcceptWriteEffect, InvalidateEffect, RecacheEffect
<1>3. ASSUME NEW w \in Writes, Apply(w) \/ Lose(w)
      PROVE  Listed(rows) \subseteq Listed(rows') /\ (calm' => calm)
  <2>1. /\ \/ rows'[write[w].id] = rows[write[w].id]
           \/ rows'[write[w].id] = Stored(w) /\ Stored(w) # Absent
        /\ \A i \in Ids \ {write[w].id} : rows'[i] = rows[i]
        /\ calm' => calm
    BY <1>3, ApplyEffect, LoseEffect
  <2> QED
    BY <2>1 DEF Listed
<1>4. CASE Expire
  BY <1>4, ExpireEffect
<1>5. CASE UNCHANGED vars
  BY <1>5 DEF vars
<1> QED
  BY <1>1, <1>2, <1>3, <1>4, <1>5 DEF Next

(* A write that is sent stays one, and of the same campaign.               *)
SentStay ==
    \A v \in Writes : write[v].stage # "idle" =>
        write'[v].stage # "idle" /\ write'[v].id = write[v].id

LEMMA SentWritesStay ==
    ASSUME TypeOK, WritesAreWellFormed, GetsAreWellFormed, CachedCampaignsExist, [Next]_vars
    PROVE  SentStay
<1>1. ASSUME UNCHANGED write
      PROVE  SentStay
  BY <1>1 DEF SentStay
<1>2. ASSUME NEW g \in Gets, BeginGet(g) \/ Read(g) \/ Fill(g)
      PROVE  SentStay
  BY <1>1, <1>2, ReadType, FillType
<1>3. ASSUME NEW w \in Writes, AcceptWrite(w)
      PROVE  SentStay
  <2>1. OnlyWrite(w) /\ (IsAccepted(w) \/ IsLookingUp(w))
    BY <1>3, AcceptWriteEffect
  <2>2. write[w].stage # "idle" => write'[w].stage # "idle" /\ write'[w].id = write[w].id
    <3>1. CASE IsAccepted(w)
      BY <3>1 DEF IsAccepted, IsAcceptedWith
    <3>2. CASE IsLookingUp(w)
      BY <3>2 DEF IsLookingUp
    <3> QED
      BY <2>1, <3>1, <3>2
  <2>3. \A v \in Writes \ {w} : write'[v] = write[v]
    BY <2>1 DEF OnlyWrite
  <2> QED
    BY <2>2, <2>3 DEF SentStay
<1>4. ASSUME NEW w \in Writes, Apply(w) \/ Lose(w)
      PROVE  SentStay
  <2>1. /\ OnlyWrite(w)
        /\ \/ write'[w] = [write[w] EXCEPT !.stage = "applied"]
           \/ write'[w] = [write[w] EXCEPT !.stage = "lost"]
    BY <1>4, ApplyEffect, LoseEffect
  <2>2. write[w] \in WriteRecord
    BY DEF TypeOK, WriteRecord
  <2>3. write'[w].stage # "idle" /\ write'[w].id = write[w].id
    BY <2>1, <2>2 DEF WriteRecord
  <2> QED
    BY <2>1, <2>3 DEF SentStay, OnlyWrite
<1>5. ASSUME NEW w \in Writes, Invalidate(w) \/ Recache(w)
      PROVE  SentStay
  BY <1>1, <1>5, InvalidateEffect, RecacheEffect
<1>6. CASE Expire
  BY <1>1, <1>6, ExpireEffect
<1>7. CASE UNCHANGED vars
  BY <1>1, <1>7 DEF vars
<1> QED
  BY <1>2, <1>3, <1>4, <1>5, <1>6, <1>7 DEF Next

LEMMA WritesStayWellFormed ==
    ASSUME TypeOK, WritesAreWellFormed, GetsAreWellFormed, CachedCampaignsExist, [Next]_vars
    PROVE  WritesAreWellFormed'
<1>0. \A i \in Ids : rows[i] # Absent => rows'[i] # Absent
  BY RowsStay DEF Listed
<1>1. ASSUME UNCHANGED <<write, invalidation, recache>>
      PROVE  WritesAreWellFormed'
  <2>1. \A w \in Writes :
           \/ write[w].stage \in {"lookup", "query", "published"}
           \/ recache[w] # "done"
           => write[w].id \in Ids
    BY DEF WritesAreWellFormed
  <2> QED
    BY <1>0, <1>1, <2>1 DEF WritesAreWellFormed
<1>2. ASSUME NEW g \in Gets, BeginGet(g) \/ Read(g) \/ Fill(g)
      PROVE  WritesAreWellFormed'
  BY <1>1, <1>2, ReadType, FillType
<1>3. ASSUME NEW w \in Writes, OnlyWrite(w),
             write'[w].stage \in {"idle", "lookup", "query"} =>
                invalidation'[w].stage = "done" /\ recache'[w] = "done",
             write'[w].stage # "idle" => write'[w].id \in Ids,
             write'[w].stage \in {"lookup", "query"} \/ recache'[w] # "done" =>
                rows'[write'[w].id] # Absent,
             write'[w].stage \in {"published", "applied"} \/ recache'[w] # "done" =>
                write'[w].base # Absent,
             write'[w].stage = "published" /\ rows'[write'[w].id] = Absent =>
                write'[w].fields = Columns
      PROVE  WritesAreWellFormed'
  <2> SUFFICES ASSUME NEW v \in Writes \ {w}
               PROVE  /\ write'[v].stage \in {"idle", "lookup", "query"} =>
                            invalidation'[v].stage = "done" /\ recache'[v] = "done"
                      /\ write'[v].stage # "idle" => write'[v].id \in Ids
                      /\ write'[v].stage \in {"lookup", "query"} \/ recache'[v] # "done" =>
                            rows'[write'[v].id] # Absent
                      /\ write'[v].stage \in {"published", "applied"} \/ recache'[v] # "done"
                            => write'[v].base # Absent
                      /\ write'[v].stage = "published" /\ rows'[write'[v].id] = Absent =>
                            write'[v].fields = Columns
    BY <1>3 DEF WritesAreWellFormed
  <2>1. write'[v] = write[v] /\ invalidation'[v] = invalidation[v] /\ recache'[v] = recache[v]
    BY <1>3 DEF OnlyWrite
  <2> QED
    BY <1>0, <2>1 DEF WritesAreWellFormed
<1>4. ASSUME NEW w \in Writes, AcceptWrite(w)
      PROVE  WritesAreWellFormed'
  <2>1. OnlyWrite(w) /\ rows' = rows /\ (IsAccepted(w) \/ IsLookingUp(w))
    BY <1>4, AcceptWriteEffect
  <2>2. CASE IsAccepted(w)
    <3>1. PICK id \in Ids, fields \in SUBSET Columns, base \in Row,
               recaching \in {"setCopy", "done"} : IsAcceptedWith(w, id, fields, base, recaching)
      BY <2>2 DEF IsAccepted
    <3>2. base # Absent
      BY CampaignsAreRows
    <3> QED
      BY <1>3, <2>1, <3>1, <3>2 DEF IsAcceptedWith
  <2>3. CASE IsLookingUp(w)
    BY <1>3, <2>1, <2>3 DEF IsLookingUp, WritesAreWellFormed
  <2> QED
    BY <2>1, <2>2, <2>3
<1>5. ASSUME NEW w \in Writes, Apply(w) \/ Lose(w)
      PROVE  WritesAreWellFormed'
  <2>1. /\ OnlyWrite(w) /\ UNCHANGED <<invalidation, recache>>
        /\ write[w].stage = "published"
        /\ \/ write'[w] = [write[w] EXCEPT !.stage = "applied"]
           \/ write'[w] = [write[w] EXCEPT !.stage = "lost"]
    BY <1>5, ApplyEffect, LoseEffect
  <2>2. write[w] \in WriteRecord
    BY DEF TypeOK, WriteRecord
  <2>3. /\ write'[w].stage \in {"applied", "lost"} /\ write'[w].id = write[w].id
        /\ write'[w].base = write[w].base
    BY <2>1, <2>2 DEF WriteRecord
  <2> QED
    BY <1>0, <1>3, <2>1, <2>3 DEF WritesAreWellFormed
<1>6. ASSUME NEW w \in Writes, Invalidate(w)
      PROVE  WritesAreWellFormed'
  BY <1>0, <1>3, <1>6, InvalidateEffect DEF WritesAreWellFormed
<1>7. ASSUME NEW w \in Writes, Recache(w)
      PROVE  WritesAreWellFormed'
  BY <1>0, <1>3, <1>7, RecacheEffect DEF WritesAreWellFormed
<1>8. CASE Expire
  BY <1>1, <1>8, ExpireEffect
<1>9. CASE UNCHANGED vars
  BY <1>1, <1>9 DEF vars
<1> QED
  BY <1>2, <1>4, <1>5, <1>6, <1>7, <1>8, <1>9 DEF Next

LEMMA GetsStayWellFormed ==
    ASSUME TypeOK, WritesAreWellFormed, GetsAreWellFormed, CachedCampaignsExist,
           ListsRespectFilters, [Next]_vars
    PROVE  GetsAreWellFormed'
<1>0. Listed(rows) \subseteq Listed(rows')
  BY RowsStay
<1>1. ASSUME UNCHANGED get
      PROVE  GetsAreWellFormed'
  BY <1>0, <1>1 DEF GetsAreWellFormed, Listed
<1>2. ASSUME NEW g \in Gets, OnlyGet(g), rows' = rows, HasRead(g) \/ HasFilled(g)
      PROVE  GetsAreWellFormed'
  <2> SUFFICES ASSUME NEW h \in Gets
               PROVE  /\ get'[h].stage = "copy" => get'[h].query.id # None
                      /\ get'[h].stage \in {"index", "copies"} => get'[h].query.filter = None
                      /\ get'[h].stage = "addIndex" => get'[h].at # None
                      /\ get'[h].stage \in {"setAnswer", "setCopy", "addIndex"} =>
                            get'[h].ids \subseteq Listed(get'[h].list)
                      /\ Listed(get'[h].list) \subseteq Listed(rows)
    BY <1>2 DEF GetsAreWellFormed, Listed
  <2>1. CASE h # g
    BY <1>2, <2>1 DEF OnlyGet, GetsAreWellFormed
  <2>2. CASE h = g /\ HasRead(g)
    BY <2>2 DEF HasRead
  <2>3. CASE h = g /\ HasFilled(g)
    BY <2>3 DEF HasFilled, GetsAreWellFormed
  <2> QED
    BY <1>2, <2>1, <2>2, <2>3
<1>3. ASSUME NEW g \in Gets, BeginGet(g) \/ Read(g)
      PROVE  GetsAreWellFormed'
  BY <1>2, <1>3, ReadType, ReadEffect
<1>4. ASSUME NEW g \in Gets, Fill(g)
      PROVE  GetsAreWellFormed'
  BY <1>2, <1>4, FillType, FillEffect
<1>5. ASSUME NEW w \in Writes,
             AcceptWrite(w) \/ Apply(w) \/ Lose(w) \/ Invalidate(w) \/ Recache(w)
      PROVE  GetsAreWellFormed'
  BY <1>1, <1>5, AcceptWriteEffect, ApplyEffect, LoseEffect, InvalidateEffect, RecacheEffect
<1>6. CASE Expire
  BY <1>1, <1>6, ExpireEffect
<1>7. CASE UNCHANGED vars
  BY <1>1, <1>7 DEF vars
<1> QED
  BY <1>3, <1>4, <1>5, <1>6, <1>7 DEF Next
LEMMA CachedCampaignsStay ==
    ASSUME TypeOK, WritesAreWellFormed, GetsAreWellFormed, CachedCampaignsExist, [Next]_vars
    PROVE  CachedCampaignsExist'
<1>0. /\ Listed(rows) \subseteq Listed(rows')
      /\ \A i \in Ids : rows[i] # Absent => rows'[i] # Absent
  BY RowsStay DEF Listed
<1>1. ASSUME \A i \in Ids : copies'[i] # Absent => rows[i] # Absent,
             \A k \in Keys : answers'[k] # None => Listed(answers'[k].list) \subseteq Listed(rows)
      PROVE  CachedCampaignsExist'
  <2>1. \A k \in Keys :
           answers'[k] # None => Listed(answers'[k].list) \subseteq Listed(rows')
    BY <1>0, <1>1
  <2> QED
    BY <1>0, <1>1, <2>1 DEF CachedCampaignsExist, Listed
<1>2. ASSUME OnlyDeletes \/ UNCHANGED <<copies, answers>>
      PROVE  CachedCampaignsExist'
  BY <1>1, <1>2 DEF CachedCampaignsExist, OnlyDeletes
<1>3. ASSUME NEW g \in Gets, BeginGet(g) \/ Read(g)
      PROVE  CachedCampaignsExist'
  BY <1>2, <1>3, ReadType DEF redis
<1>4. ASSUME NEW g \in Gets, Fill(g)
      PROVE  CachedCampaignsExist'
  <2>1. HasFilled(g)
    BY <1>4, FillEffect
  <2>2. Listed(get[g].list) \subseteq Listed(rows)
    BY DEF GetsAreWellFormed
  <2>3. \A i \in Listed(get[g].list) : rows[i] # Absent
    BY <2>2 DEF Listed
  <2>4. \A i \in Ids : copies'[i] # Absent => rows[i] # Absent
    BY <2>1, <2>3 DEF HasFilled, CachedCampaignsExist
  <2>5. \A k \in Keys : answers'[k] # None => Listed(answers'[k].list) \subseteq Listed(rows)
    BY <2>1, <2>2 DEF HasFilled, CachedCampaignsExist
  <2> QED
    BY <1>1, <2>4, <2>5
<1>5. ASSUME NEW w \in Writes, AcceptWrite(w) \/ Apply(w) \/ Lose(w) \/ Invalidate(w)
      PROVE  CachedCampaignsExist'
  BY <1>2, <1>5, AcceptWriteEffect, ApplyEffect, LoseEffect, InvalidateEffect DEF redis
<1>6. ASSUME NEW w \in Writes, Recache(w)
      PROVE  CachedCampaignsExist'
  <2>1. /\ rows[write[w].id] # Absent /\ answers' = answers
        /\ \A i \in Ids \ {write[w].id} : copies'[i] = copies[i]
    BY <1>6, RecacheEffect
  <2> QED
    BY <1>1, <2>1 DEF CachedCampaignsExist
<1>7. CASE Expire
  BY <1>2, <1>7, ExpireEffect
<1>8. CASE UNCHANGED vars
  BY <1>2, <1>8 DEF vars, redis
<1> QED
  BY <1>3, <1>4, <1>5, <1>6, <1>7, <1>8 DEF Next

LEMMA ListsStayRespectful ==
    ASSUME TypeOK, WritesAreWellFormed, GetsAreWellFormed, CachedCampaignsExist,
           ListsRespectFilters, [Next]_vars
    PROVE  ListsRespectFilters'
<1>1. ASSUME \A k \in Keys : answers'[k] # None =>
                /\ KeyOf(answers'[k].query) = k
                /\ Respects(answers'[k].list, answers'[k].query.filter),
             \A g \in Gets :
                /\ get'[g].stage \in {"setAnswer", "setCopy", "addIndex"} =>
                      Respects(get'[g].list, get'[g].query.filter)
                /\ get'[g].stage = "done" /\ get'[g].query.id = None =>
                      IsAnswerTo(get'[g].list, get'[g].query.filter)
      PROVE  ListsRespectFilters'
  <2>1. \A k \in Keys : answers'[k] # None =>
           /\ KeyOf(answers[k].query)' = k
           /\ Respects(answers[k].list, answers[k].query.filter)'
    BY <1>1 DEF KeyOf, Respects, Listed
  <2>2. \A g \in Gets : get'[g].stage \in {"setAnswer", "setCopy", "addIndex"} =>
           Respects(get[g].list, get[g].query.filter)'
    BY <1>1 DEF Respects, Listed
  <2>3. FilterIsRespected'
    BY <1>1 DEF FilterIsRespected, IsAnswerTo, Respects, Listed
  <2> QED
    BY <2>1, <2>2, <2>3 DEF ListsRespectFilters
<1>2. /\ \A k \in Keys : answers[k] # None =>
            /\ KeyOf(answers[k].query) = k
            /\ Respects(answers[k].list, answers[k].query.filter)
      /\ \A g \in Gets :
            /\ get[g].stage \in {"setAnswer", "setCopy", "addIndex"} =>
                  Respects(get[g].list, get[g].query.filter)
            /\ get[g].stage = "done" /\ get[g].query.id = None =>
                  IsAnswerTo(get[g].list, get[g].query.filter)
  BY DEF ListsRespectFilters, FilterIsRespected, IsAnswerTo
<1>8. ASSUME UNCHANGED get, OnlyDeletes \/ answers' = answers
      PROVE  ListsRespectFilters'
  <2>1. \A k \in Keys : answers'[k] \in {None, answers[k]}
    BY <1>8 DEF OnlyDeletes
  <2> QED
    BY <1>1, <1>2, <1>8, <2>1
<1>3. ASSUME NEW g \in Gets, BeginGet(g) \/ Read(g)
      PROVE  ListsRespectFilters'
  <2>1. OnlyGet(g) /\ answers' = answers /\ HasRead(g)
    BY <1>3, ReadType, ReadEffect DEF redis
  <2>2. /\ get'[g].stage \in {"setAnswer", "setCopy", "addIndex"} =>
              Respects(get'[g].list, get'[g].query.filter)
        /\ get'[g].stage = "done" /\ get'[g].query.id = None =>
              IsAnswerTo(get'[g].list, get'[g].query.filter)
    BY <2>1 DEF HasRead
  <2> QED
    BY <1>1, <1>2, <2>1, <2>2 DEF OnlyGet
<1>4. ASSUME NEW g \in Gets, Fill(g)
      PROVE  ListsRespectFilters'
  <2>1. OnlyGet(g) /\ HasFilled(g)
    BY <1>4, FillType, FillEffect
  <2>2. /\ Respects(get[g].list, get[g].query.filter)
        /\ get'[g].query = get[g].query /\ get'[g].list = get[g].list
    BY <1>2, <2>1 DEF HasFilled
  <2>3. \A k \in Keys : answers'[k] # None =>
           /\ KeyOf(answers'[k].query) = k
           /\ Respects(answers'[k].list, answers'[k].query.filter)
    BY <1>2, <2>1, <2>2 DEF HasFilled
  <2>4. get[g].query \in Query
    BY DEF TypeOK
  <2>5. IsAnswerTo(get'[g].list, get'[g].query.filter)
    BY <2>2, <2>4 DEF IsAnswerTo, Query
  <2> QED
    BY <1>1, <1>2, <2>1, <2>2, <2>3, <2>5 DEF OnlyGet
<1>5. ASSUME NEW w \in Writes,
             AcceptWrite(w) \/ Apply(w) \/ Lose(w) \/ Invalidate(w) \/ Recache(w)
      PROVE  ListsRespectFilters'
  BY <1>5, <1>8, AcceptWriteEffect, ApplyEffect, LoseEffect, InvalidateEffect, RecacheEffect
     DEF redis
<1>6. CASE Expire
  BY <1>6, <1>8, ExpireEffect
<1>7. CASE UNCHANGED vars
  BY <1>7, <1>8 DEF vars, redis
<1> QED
  BY <1>3, <1>4, <1>5, <1>6, <1>7 DEF Next
-----------------------------------------------------------------------------
(* A write that has not been accepted is not at work, and one that is not  *)
(* accepted in this step does not come to be.                              *)
LEMMA NotYetBusy ==
    ASSUME WritesAreWellFormed, NEW w \in Writes, write[w].stage \in {"idle", "lookup", "query"}
    PROVE  ~Busy(w)
BY DEF WritesAreWellFormed, Busy

LEMMA LookingUpIsNotBusy ==
    ASSUME WritesAreWellFormed, NEW w \in Writes, OnlyWrite(w), IsLookingUp(w), calm'
    PROVE  /\ ~Busy(w) /\ ~Busy(w)'
           /\ \A v \in Writes : Busy(v)' <=> Busy(v)
           /\ \A v \in Writes : Busy(v) => write'[v].id = write[v].id
<1>1. ~Busy(w)
  BY NotYetBusy DEF IsLookingUp
<1>2. ~Busy(w)'
  BY <1>1 DEF IsLookingUp, Busy
<1>3. \A v \in Writes \ {w} : (Busy(v)' <=> Busy(v)) /\ write'[v] = write[v]
  BY DEF OnlyWrite, Busy
<1> QED
  BY <1>1, <1>2, <1>3

(* A write that goes on in its goroutines, and what it leaves of the cache.*)
IsAtWork(w) == Apply(w) \/ Invalidate(w) \/ Recache(w)

LEMMA AtWorkEffect ==
    ASSUME TypeOK, WritesAreWellFormed, NEW w \in Writes, IsAtWork(w)
    PROVE  /\ Busy(w) /\ OnlyWrite(w)
           /\ write[w].id \in Ids
           /\ write'[w].id = write[w].id /\ write'[w].base = write[w].base
           /\ write'[w].fields = write[w].fields
           /\ get' = get
           /\ \A k \in Keys : answers'[k] \in {None, answers[k]}
           /\ calm' => \A k \in KeyTexts \ Skipped :
                 answers'[k] # None /\ WillDelete(w, k) => WillDelete(w, k)'
           /\ \A i \in Ids \ {write[w].id} :
                 rows'[i] = rows[i] /\ copies'[i] \in {Absent, copies[i]}
<1>0. write[w] \in WriteRecord
  BY DEF TypeOK, WriteRecord
<1>1. CASE Apply(w)
  <2>1. /\ write'[w] = [write[w] EXCEPT !.stage = "applied"]
        /\ write[w].stage = "published" /\ write[w].id \in Ids /\ OnlyWrite(w)
        /\ \A i \in Ids \ {write[w].id} : rows'[i] = rows[i]
        /\ UNCHANGED <<redis, get, invalidation, recache, faults, calm>>
    BY <1>1, ApplyEffect
  <2>2. /\ write'[w].id = write[w].id /\ write'[w].base = write[w].base
        /\ write'[w].fields = write[w].fields
    BY <1>0, <2>1 DEF WriteRecord
  <2> QED
    BY <2>1, <2>2 DEF redis, Busy, WillDelete
<1>2. CASE Invalidate(w)
  <2>1. write[w].id \in Ids /\ Busy(w)
    BY <1>2, InvalidateEffect DEF WritesAreWellFormed, Busy
  <2> QED
    BY <1>2, <2>1, InvalidateEffect DEF OnlyDeletes
<1>3. CASE Recache(w)
  <2>1. Busy(w)
    BY <1>3, RecacheEffect DEF Busy
  <2> QED
    BY <1>3, <2>1, RecacheEffect DEF WillDelete
<1> QED
  BY <1>1, <1>2, <1>3 DEF IsAtWork
(* The kinds of steps there are, as the proofs below tell them apart.      *)
LEMMA StepKinds ==
    ASSUME [Next]_vars
    PROVE  \/ \E g \in Gets : BeginGet(g) \/ Read(g)
           \/ \E g \in Gets : Fill(g)
           \/ \E w \in Writes : AcceptWrite(w)
           \/ \E w \in Writes : IsAtWork(w)
           \/ \E w \in Writes : Lose(w)
           \/ Expire
           \/ UNCHANGED vars
BY DEF Next, IsAtWork

LEMMA FillsStayFresh ==
    ASSUME TypeOK, WritesAreWellFormed, GetsAreWellFormed, CachedCampaignsExist,
           ListsRespectFilters, FillsAreFresh, [Next]_vars
    PROVE  FillsAreFresh'
<1> SUFFICES ASSUME calm', calm
             PROVE  FillsAreFresh'
  BY RowsStay DEF FillsAreFresh
<1>0. ASSUME rows' = rows, NEW g \in Gets
      PROVE  /\ Result(get[g].query)' = Result(get'[g].query)
             /\ Total(get[g].query)' = Total(get'[g].query)
  <2>1. Result(get[g].query)' = Result(get'[g].query)
    BY <1>0 DEF Result, Matches
  <2> QED
    BY <2>1 DEF Total, Listed
<1>1. ASSUME UNCHANGED <<rows, get>>, Quiet => Quiet'
      PROVE  FillsAreFresh'
  BY <1>0, <1>1 DEF FillsAreFresh, Filling, Listed
<1>2. ASSUME UNCHANGED get, \A g \in Gets : ~Filling(g)
      PROVE  FillsAreFresh'
  BY <1>2 DEF FillsAreFresh, Filling
<1>3. ASSUME NEW g \in Gets, OnlyGet(g), UNCHANGED <<rows, write, invalidation, recache, carried>>,
             Filling(g)' => Quiet,
             get'[g].stage = "find" => get'[g].total = Total(get'[g].query),
             get'[g].stage \in {"setAnswer", "setCopy", "addIndex"} =>
                /\ get'[g].list = Result(get'[g].query)
                /\ get'[g].total = Cardinality(Listed(get'[g].list))
      PROVE  FillsAreFresh'
  <2>1. Quiet' = Quiet
    BY <1>3 DEF Quiet, Busy
  <2> SUFFICES ASSUME NEW h \in Gets
               PROVE  /\ Filling(h)' => Quiet
                      /\ get'[h].stage = "find" => get'[h].total = Total(get'[h].query)
                      /\ get'[h].stage \in {"setAnswer", "setCopy", "addIndex"} =>
                            /\ get'[h].list = Result(get'[h].query)
                            /\ get'[h].total = Cardinality(Listed(get'[h].list))
    BY <1>0, <1>3, <2>1 DEF FillsAreFresh, Listed
  <2>3. CASE h # g
    BY <1>3, <2>3 DEF OnlyGet, FillsAreFresh, Filling
  <2>4. CASE h = g
    BY <1>3, <2>4
  <2> QED
    BY <2>3, <2>4
<1>4. ASSUME NEW g \in Gets, BeginGet(g) \/ Read(g)
      PROVE  FillsAreFresh'
  <2>1. OnlyGet(g) /\ UNCHANGED <<rows, write, invalidation, recache, carried>> /\ HasRead(g)
    BY <1>4, ReadType, ReadEffect
  <2>2. get'[g].stage = "setAnswer" =>
           /\ Quiet
           /\ get'[g].list = Result(get'[g].query)
           /\ get'[g].total = Cardinality(Listed(get'[g].list))
    BY <2>1 DEF HasRead, FillsAreFresh, Filling, Total
  <2> QED
    BY <1>3, <2>1, <2>2 DEF HasRead, Filling
<1>5. ASSUME NEW g \in Gets, Fill(g)
      PROVE  FillsAreFresh'
  <2>1. /\ OnlyGet(g) /\ UNCHANGED <<rows, write, invalidation, recache, carried>>
        /\ HasFilled(g)
    BY <1>5, FillType, FillEffect
  <2> QED
    BY <1>3, <2>1 DEF HasFilled, FillsAreFresh, Filling
<1>6. ASSUME NEW w \in Writes, AcceptWrite(w)
      PROVE  FillsAreFresh'
  <2>1. /\ OnlyWrite(w) /\ UNCHANGED <<rows, redis, get>>
        /\ IsAccepted(w) \/ IsLookingUp(w)
    BY <1>6, AcceptWriteEffect
  <2>2. CASE IsAccepted(w)
    BY <1>2, <2>1, <2>2 DEF IsAccepted, IsAcceptedWith, Alone
  <2>3. CASE IsLookingUp(w)
    BY <1>1, <2>1, <2>3, LookingUpIsNotBusy DEF Quiet
  <2> QED
    BY <2>1, <2>2, <2>3
<1>7. ASSUME NEW w \in Writes, IsAtWork(w)
      PROVE  FillsAreFresh'
  BY <1>2, <1>7, AtWorkEffect DEF FillsAreFresh, Quiet
<1>8. ASSUME NEW w \in Writes, Lose(w)
      PROVE  FillsAreFresh'
  BY <1>8, LoseEffect
<1>9. CASE Expire \/ UNCHANGED vars
  BY <1>1, <1>9, ExpireEffect DEF vars, Quiet, Busy
<1> QED
  BY <1>4, <1>5, <1>6, <1>7, <1>8, <1>9, StepKinds

LEMMA AnswersStayDeleted ==
    ASSUME TypeOK, WritesAreWellFormed, GetsAreWellFormed, CachedCampaignsExist,
           FillsAreFresh, AnswersAreDeleted, [Next]_vars
    PROVE  AnswersAreDeleted'
<1> SUFFICES ASSUME calm', calm
             PROVE  AnswersAreDeleted'
  BY RowsStay DEF AnswersAreDeleted
<1>0. KeyTexts \ Skipped \subseteq Keys
  BY DEF Keys
<1>1. ASSUME UNCHANGED <<write, invalidation, recache, carried>>,
             \A k \in Keys : answers'[k] \in {None, answers[k]}
      PROVE  AnswersAreDeleted'
  BY <1>0, <1>1 DEF AnswersAreDeleted, Busy, WillDelete
<1>2. ASSUME NEW g \in Gets, BeginGet(g) \/ Read(g)
      PROVE  AnswersAreDeleted'
  BY <1>1, <1>2, ReadType DEF redis
<1>3. ASSUME NEW g \in Gets, Fill(g)
      PROVE  AnswersAreDeleted'
  <2>1. UNCHANGED <<write, invalidation, recache, carried>> /\ Filling(g)
    BY <1>3, FillType, FillEffect DEF HasFilled, Filling
  <2> QED
    BY <2>1 DEF FillsAreFresh, Quiet, Busy, AnswersAreDeleted
<1>4. ASSUME NEW w \in Writes, OnlyWrite(w), \A k \in Keys : answers'[k] \in {None, answers[k]},
             Busy(w)' => \A k \in KeyTexts \ Skipped : answers'[k] # None => WillDelete(w, k)'
      PROVE  AnswersAreDeleted'
  <2>1. \A v \in Writes \ {w} : \A k \in KeyTexts \ Skipped :
           (Busy(v)' <=> Busy(v)) /\ (WillDelete(v, k)' <=> WillDelete(v, k))
    BY <1>4 DEF OnlyWrite, Busy, WillDelete
  <2> QED
    BY <1>0, <1>4, <2>1 DEF AnswersAreDeleted
<1>5. ASSUME NEW w \in Writes, AcceptWrite(w)
      PROVE  AnswersAreDeleted'
  <2>1. OnlyWrite(w) /\ answers' = answers /\ (IsAccepted(w) \/ IsLookingUp(w))
    BY <1>5, AcceptWriteEffect DEF redis
  <2>2. CASE IsAccepted(w)
    <3>1. invalidation'[w].stage = "members"
      BY <2>2 DEF IsAccepted, IsAcceptedWith, TypeOK
    <3> QED
      BY <1>4, <2>1, <3>1 DEF WillDelete
  <2>3. CASE IsLookingUp(w)
    BY <1>4, <2>1, <2>3, LookingUpIsNotBusy
  <2> QED
    BY <2>1, <2>2, <2>3
<1>6. ASSUME NEW w \in Writes, IsAtWork(w)
      PROVE  AnswersAreDeleted'
  <2>1. /\ Busy(w) /\ OnlyWrite(w)
        /\ \A k \in Keys : answers'[k] \in {None, answers[k]}
        /\ \A k \in KeyTexts \ Skipped : answers'[k] # None /\ WillDelete(w, k) => WillDelete(w, k)'
    BY <1>6, AtWorkEffect
  <2>2. \A k \in KeyTexts \ Skipped : answers'[k] # None => WillDelete(w, k)'
    BY <1>0, <2>1 DEF AnswersAreDeleted
  <2> QED
    BY <1>4, <2>1, <2>2
<1>7. ASSUME NEW w \in Writes, Lose(w)
      PROVE  AnswersAreDeleted'
  BY <1>7, LoseEffect
<1>8. CASE Expire \/ UNCHANGED vars
  BY <1>1, <1>8, ExpireEffect DEF vars, redis, OnlyDeletes
<1> QED
  BY <1>2, <1>3, <1>5, <1>6, <1>7, <1>8, StepKinds

LEMMA FilteredAnswersStayFresh ==
    ASSUME TypeOK, WritesAreWellFormed, GetsAreWellFormed, CachedCampaignsExist,
           FillsAreFresh, AnswersAreDeleted, FilteredAnswersAreFresh, [Next]_vars
    PROVE  FilteredAnswersAreFresh'
<1> SUFFICES ASSUME calm', calm, Quiet'
             PROVE  FilteredAnswersAreFresh'
  BY RowsStay DEF FilteredAnswersAreFresh
<1>0. KeyTexts \ Skipped \subseteq Keys
  BY DEF Keys
<1>1. ASSUME rows' = rows, Quiet,
             \A k \in KeyTexts \ Skipped :
                \/ answers'[k] \in {None, answers[k]}
                \/ /\ answers'[k].list = Result(answers'[k].query)
                   /\ answers'[k].total = Cardinality(Listed(answers'[k].list))
      PROVE  FilteredAnswersAreFresh'
  <2> SUFFICES ASSUME NEW k \in KeyTexts \ Skipped, answers'[k] # None
               PROVE  /\ answers'[k].list = Result(answers'[k].query)
                      /\ answers'[k].total = Cardinality(Listed(answers'[k].list))
    BY <1>1 DEF FilteredAnswersAreFresh, FreshAnswer, Result, Matches, Listed
  <2> QED
    BY <1>1 DEF FilteredAnswersAreFresh, FreshAnswer
<1>2. ASSUME UNCHANGED <<rows, write, invalidation, recache, carried>>,
             \A k \in Keys : answers'[k] \in {None, answers[k]}
      PROVE  FilteredAnswersAreFresh'
  BY <1>0, <1>1, <1>2 DEF Quiet, Busy
<1>3. ASSUME NEW g \in Gets, BeginGet(g) \/ Read(g)
      PROVE  FilteredAnswersAreFresh'
  BY <1>2, <1>3, ReadType DEF redis
<1>4. ASSUME NEW g \in Gets, Fill(g)
      PROVE  FilteredAnswersAreFresh'
  <2>1. rows' = rows /\ HasFilled(g)
    BY <1>4, FillType, FillEffect
  <2>2. /\ Quiet
        /\ get[g].list = Result(get[g].query)
        /\ get[g].total = Cardinality(Listed(get[g].list))
    BY <2>1 DEF HasFilled, FillsAreFresh, Filling
  <2> QED
    BY <1>0, <1>1, <2>1, <2>2 DEF HasFilled
<1>5. ASSUME NEW w \in Writes, AcceptWrite(w)
      PROVE  FilteredAnswersAreFresh'
  <2>1. OnlyWrite(w) /\ UNCHANGED <<rows, redis, get>> /\ (IsAccepted(w) \/ IsLookingUp(w))
    BY <1>5, AcceptWriteEffect
  <2>2. CASE IsAccepted(w)
    <3>1. write'[w].stage = "published"
      BY <2>2 DEF IsAccepted, IsAcceptedWith
    <3> QED
      BY <3>1 DEF Quiet, Busy
  <2>3. CASE IsLookingUp(w)
    BY <1>0, <1>1, <2>1, <2>3, LookingUpIsNotBusy DEF Quiet, redis
  <2> QED
    BY <2>1, <2>2, <2>3
<1>6. ASSUME NEW w \in Writes, IsAtWork(w)
      PROVE  FilteredAnswersAreFresh'
  <2>1. Busy(w)
    BY <1>6, AtWorkEffect
  <2>2. invalidation'[w].stage = "done"
    BY DEF Quiet, Busy
  <2>3. \A k \in KeyTexts \ Skipped : answers'[k] = None
    BY <1>0, <1>6, <2>1, <2>2, AtWorkEffect DEF AnswersAreDeleted, WillDelete
  <2> QED
    BY <2>3 DEF FilteredAnswersAreFresh, FreshAnswer
<1>7. ASSUME NEW w \in Writes, Lose(w)
      PROVE  FilteredAnswersAreFresh'
  BY <1>7, LoseEffect
<1>8. CASE Expire \/ UNCHANGED vars
  BY <1>2, <1>8, ExpireEffect DEF vars, redis, OnlyDeletes
<1> QED
  BY <1>3, <1>4, <1>5, <1>6, <1>7, <1>8, StepKinds
(* What agrees with a row still does after a step: the writes that the row *)
(* shows were sent, and stay those of the campaigns that they are of.      *)
AgreesAfter(i, campaign, row) ==
    \A c \in Columns \ Stamped :
        \/ campaign[c] = row[c]
        \/ c \in Fields /\ row[c] \in Writes /\ write'[row[c]].id # i
        \/ c = "location" /\ campaign[c] = None

FreshCopyAfter(i) ==
    copies'[i] # Absent => rows'[i] # Absent /\ AgreesAfter(i, copies'[i], rows'[i])

FollowedAfter(w, id, stage, recaching, base, overlaid) ==
    /\ id \in Ids
    /\ base # Absent
    /\ IF stage = "published" THEN rows'[id] # Absent => AgreesAfter(id, base, rows'[id])
       ELSE rows'[id] # Absent /\ AgreesAfter(id, overlaid, rows'[id])
    /\ recaching = "setCopy" \/ copies'[id] \in {Absent, overlaid}

LEMMA AfterIsFresh ==
    ASSUME NEW i \in Ids
    PROVE  FreshCopy(i)' <=> FreshCopyAfter(i)
BY DEF FreshCopy, FreshCopyAfter, Agrees, AgreesAfter, OfAnother

LEMMA AfterIsFollowed ==
    ASSUME NEW w \in Writes
    PROVE  WriteIsFollowed(w)' <=>
              FollowedAfter(w, write'[w].id, write'[w].stage, recache'[w], write'[w].base,
                            Overlaid(w)')
BY DEF WriteIsFollowed, FollowedAfter, Agrees, AgreesAfter, OfAnother

LEMMA AgreementStays ==
    ASSUME SentStay, CarriedFieldsAreStored, NEW i \in Ids, rows[i] # Absent,
           NEW campaign, Agrees(i, campaign, rows[i])
    PROVE  AgreesAfter(i, campaign, rows[i])
<1>1. \A c \in Fields : rows[i][c] \in Writes => write[rows[i][c]].stage # "idle"
  BY DEF CarriedFieldsAreStored
<1> QED
  BY <1>1 DEF SentStay, Agrees, AgreesAfter, OfAnother

LEMMA FreshCopyStays ==
    ASSUME SentStay, CarriedFieldsAreStored, NEW i \in Ids, FreshCopy(i),
           rows'[i] = rows[i], copies'[i] \in {Absent, copies[i]}
    PROVE  FreshCopy(i)'
<1>1. copies'[i] # Absent => rows[i] # Absent /\ Agrees(i, copies[i], rows[i])
  BY DEF FreshCopy
<1> QED
  BY <1>1, AgreementStays, AfterIsFresh DEF FreshCopyAfter

(* A write is followed as long as its campaign is left alone.              *)
LEMMA FollowedStays ==
    ASSUME SentStay, CarriedFieldsAreStored, NEW v \in Writes, WriteIsFollowed(v),
           write'[v] = write[v], recache'[v] = recache[v],
           rows'[write[v].id] = rows[write[v].id],
           copies'[write[v].id] \in {Absent, copies[write[v].id]}
    PROVE  WriteIsFollowed(v)'
<1> DEFINE id == write[v].id
<1>1. /\ id \in Ids /\ write[v].base # Absent
      /\ IF write[v].stage = "published"
         THEN rows[id] # Absent => Agrees(id, write[v].base, rows[id])
         ELSE rows[id] # Absent /\ Agrees(id, Overlaid(v), rows[id])
      /\ recache[v] = "setCopy" \/ copies[id] \in {Absent, Overlaid(v)}
  BY DEF WriteIsFollowed
<1>2. Overlaid(v)' = Overlaid(v)
  BY DEF Overlaid
<1> QED
  BY <1>1, <1>2, AgreementStays, AfterIsFollowed DEF FollowedAfter

(* What an event stores agrees with what its write overlaid: a field that  *)
(* it carries over is of another campaign, or stored in this row already.  *)
LEMMA StoredAgrees ==
    ASSUME TypeOK, WritesAreWellFormed, CarriedFieldsAreStored, SentStay, calm,
           NEW w \in Writes, write[w].stage = "published", WriteIsFollowed(w)
    PROVE  AgreesAfter(write[w].id, Overlaid(w), Stored(w))
<1> DEFINE id == write[w].id
           base == write[w].base
           row == rows[id]
<1>1. CASE IsCreate(w)
  BY <1>1 DEF Stored, AgreesAfter
<1>2. CASE ~IsCreate(w)
  <2>1. row # Absent /\ Agrees(id, base, row) /\ id \in Ids
    BY <1>2 DEF IsCreate, WriteIsFollowed
  <2>2. AgreesAfter(id, base, row)
    BY <2>1, AgreementStays
  <2> SUFFICES ASSUME NEW c \in Columns \ Stamped
               PROVE  \/ Overlaid(w)[c] = Stored(w)[c]
                      \/ /\ c \in Fields /\ Stored(w)[c] \in Writes
                         /\ write'[Stored(w)[c]].id # id
                      \/ c = "location" /\ Overlaid(w)[c] = None
    BY DEF AgreesAfter
  <2>3. Overlaid(w)[c] = IF c \in write[w].fields THEN w ELSE base[c]
    BY DEF Overlaid
  <2>4. w # None /\ \A v \in Writes : v # None
    BY CacheAssumption DEF Writes
  <2>5. CASE c \in Fields
    <3>1. /\ Decoded(w)[c] = IF c \in write[w].fields THEN w ELSE carried[c]
          /\ Stored(w)[c] = IF Decoded(w)[c] = None THEN row[c] ELSE Decoded(w)[c]
      BY <1>2, <2>5 DEF Decoded, Stored
    <3>2. CASE c \in write[w].fields
      BY <2>3, <2>4, <3>1, <3>2
    <3>3. CASE c \notin write[w].fields /\ carried[c] = None
      <4>1. Overlaid(w)[c] = base[c] /\ Stored(w)[c] = row[c]
        BY <2>3, <3>1, <3>3
      <4>2. c # "location"
        BY <2>5, CacheAssumption DEF Merged
      <4> QED
        BY <2>2, <4>1, <4>2 DEF AgreesAfter
    <3>4. CASE c \notin write[w].fields /\ carried[c] # None
      <4> DEFINE v == carried[c]
      <4>1. Overlaid(w)[c] = base[c] /\ Stored(w)[c] = v /\ v \in Writes
        BY <2>3, <2>5, <3>1, <3>4 DEF TypeOK
      <4>2. write[v].stage # "idle" /\ (write[v].id = id => row[c] = v)
        BY <2>1, <2>5, <3>4 DEF CarriedFieldsAreStored
      <4>3. write'[v].id = write[v].id
        BY <4>1, <4>2 DEF SentStay
      <4>4. c # "location"
        BY <2>5, CacheAssumption DEF Merged
      <4>5. CASE write[v].id = id
        BY <2>2, <4>1, <4>2, <4>4, <4>5 DEF AgreesAfter
      <4>6. CASE write[v].id # id
        BY <2>5, <4>1, <4>3, <4>6
      <4> QED
        BY <4>5, <4>6
    <3> QED
      BY <3>2, <3>3, <3>4
  <2>6. CASE c \notin Fields
    <3>1. Stored(w)[c] = IF Overlaid(w)[c] = None THEN row[c] ELSE Overlaid(w)[c]
      BY <1>2, <2>6 DEF Stored
    <3>2. CASE Overlaid(w)[c] # None
      BY <3>1, <3>2
    <3>3. CASE Overlaid(w)[c] = None
      <4>1. base[c] = None /\ Stored(w)[c] = row[c] /\ Overlaid(w)[c] = base[c]
        BY <2>3, <2>4, <3>1, <3>3
      <4> QED
        BY <2>2, <2>6, <4>1 DEF AgreesAfter
    <3> QED
      BY <3>2, <3>3
  <2> QED
    BY <2>5, <2>6
<1> QED
  BY <1>1, <1>2

LEMMA AtWorkIsFollowed ==
    ASSUME TypeOK, WritesAreWellFormed, CarriedFieldsAreStored, SentStay,
           NEW w \in Writes, IsAtWork(w), calm, calm', WriteIsFollowed(w)
    PROVE  WriteIsFollowed(w)'
<1> DEFINE id == write[w].id
<1>0. write[w] \in WriteRecord /\ id \in Ids /\ Busy(w)
  BY AtWorkEffect DEF TypeOK, WriteRecord
<1>1. /\ write'[w].id = id /\ write'[w].base = write[w].base
      /\ Overlaid(w)' = Overlaid(w)
  BY AtWorkEffect DEF Overlaid
<1>2. /\ write[w].base # Absent
      /\ IF write[w].stage = "published"
         THEN rows[id] # Absent => Agrees(id, write[w].base, rows[id])
         ELSE rows[id] # Absent /\ Agrees(id, Overlaid(w), rows[id])
      /\ recache[w] = "setCopy" \/ copies[id] \in {Absent, Overlaid(w)}
  BY DEF WriteIsFollowed
<1>3. CASE Apply(w)
  <2>1. /\ write[w].stage = "published"
        /\ write'[w] = [write[w] EXCEPT !.stage = "applied"]
        /\ rows'[id] = Stored(w) /\ Stored(w) # Absent
        /\ copies' = copies /\ recache' = recache
    BY <1>3, ApplyEffect DEF redis
  <2>2. write'[w].stage = "applied"
    BY <1>0, <2>1 DEF WriteRecord
  <2>3. AgreesAfter(id, Overlaid(w), Stored(w))
    BY <2>1, StoredAgrees
  <2> QED
    BY <1>0, <1>1, <1>2, <2>1, <2>2, <2>3, AfterIsFollowed DEF FollowedAfter
<1>4. CASE Invalidate(w)
  <2>1. OnlyDeletes /\ UNCHANGED <<rows, write, recache>>
    BY <1>4, InvalidateEffect
  <2> QED
    BY <1>0, <2>1, FollowedStays DEF OnlyDeletes
<1>5. CASE Recache(w)
  <2>1. /\ UNCHANGED <<rows, write>>
        /\ \/ /\ recache[w] = "setCopy" /\ recache'[w] = "addIndex"
              /\ copies'[id] = Overlaid(w)
           \/ recache[w] = "addIndex" /\ recache'[w] = "done" /\ copies' = copies
    BY <1>5, RecacheEffect
  <2>2. rows[id] # Absent /\ Agrees(id, write[w].base, rows[id]) =>
           AgreesAfter(id, write[w].base, rows[id])
    BY <1>0, AgreementStays
  <2>3. rows[id] # Absent /\ Agrees(id, Overlaid(w), rows[id]) =>
           AgreesAfter(id, Overlaid(w), rows[id])
    BY <1>0, AgreementStays
  <2> QED
    BY <1>0, <1>1, <1>2, <2>1, <2>2, <2>3, AfterIsFollowed DEF FollowedAfter
<1> QED
  BY <1>3, <1>4, <1>5 DEF IsAtWork

LEMMA CopiesStayFollowing ==
    ASSUME TypeOK, WritesAreWellFormed, GetsAreWellFormed, CachedCampaignsExist,
           FillsAreFresh, CopiesFollowWrites, CarriedFieldsAreStored, [Next]_vars
    PROVE  CopiesFollowWrites'
<1> SUFFICES ASSUME calm', calm
             PROVE  CopiesFollowWrites'
  BY RowsStay DEF CopiesFollowWrites
<1>s. SentStay
  BY SentWritesStay
<1>0. /\ \A v, w \in Writes : v # w /\ Busy(v) /\ Busy(w) => write[v].id # write[w].id
      /\ \A w \in Writes : Busy(w) => WriteIsFollowed(w) /\ write[w].id \in Ids
      /\ \A i \in Ids : (\A w \in Writes : Busy(w) => write[w].id # i) => FreshCopy(i)
  BY DEF CopiesFollowWrites, WriteIsFollowed, WritesAreWellFormed, Busy
<1>a. ASSUME \A v, w \in Writes : v # w /\ Busy(v)' /\ Busy(w)' => write'[v].id # write'[w].id,
             \A w \in Writes : Busy(w)' => WriteIsFollowed(w)',
             \A i \in Ids : (\A w \in Writes : Busy(w)' => write'[w].id # i) => FreshCopy(i)'
      PROVE  CopiesFollowWrites'
  BY <1>a DEF CopiesFollowWrites, WriteIsFollowed
<1>1. ASSUME UNCHANGED <<rows, write, invalidation, recache>>,
             \A i \in Ids : copies'[i] \in {Absent, copies[i]}
      PROVE  CopiesFollowWrites'
  <2>1. \A w \in Writes : (Busy(w)' <=> Busy(w)) /\ write'[w] = write[w]
    BY <1>1 DEF Busy
  <2>2. \A w \in Writes : Busy(w)' => WriteIsFollowed(w)'
    BY <1>0, <1>1, <1>s, <2>1, FollowedStays
  <2>3. \A i \in Ids : (\A w \in Writes : Busy(w)' => write'[w].id # i) => FreshCopy(i)'
    BY <1>0, <1>1, <1>s, <2>1, FreshCopyStays
  <2> QED
    BY <1>0, <1>a, <2>1, <2>2, <2>3
<1>2. ASSUME NEW g \in Gets, BeginGet(g) \/ Read(g)
      PROVE  CopiesFollowWrites'
  BY <1>1, <1>2, ReadType DEF redis
<1>3. ASSUME NEW g \in Gets, Fill(g)
      PROVE  CopiesFollowWrites'
  <2>1. UNCHANGED <<rows, write, invalidation, recache, carried>> /\ HasFilled(g)
    BY <1>3, FillType, FillEffect
  <2>2. \A w \in Writes : ~Busy(w)
    BY <2>1 DEF HasFilled, FillsAreFresh, Filling, Quiet
  <2>3. \A i \in Listed(get[g].list) : get[g].list[i] = rows[i]
    BY <2>1 DEF HasFilled, FillsAreFresh, Result, Listed
  <2>4. \A i \in Ids : FreshCopy(i)'
    <3> SUFFICES ASSUME NEW i \in Ids
                 PROVE  FreshCopy(i)'
      OBVIOUS
    <3>1. CASE copies'[i] = copies[i]
      BY <1>0, <1>s, <2>1, <2>2, <3>1, FreshCopyStays
    <3>2. CASE i \in Listed(get[g].list) /\ copies'[i] = get[g].list[i]
      <4>1. rows'[i] = copies'[i]
        BY <2>1, <2>3, <3>2
      <4> QED
        BY <4>1, AfterIsFresh DEF FreshCopyAfter, AgreesAfter
    <3> QED
      BY <2>1, <3>1, <3>2 DEF HasFilled
  <2> QED
    BY <1>a, <2>1, <2>2, <2>4 DEF Busy
<1>4. ASSUME NEW w \in Writes, OnlyWrite(w),
             Busy(w)' => WriteIsFollowed(w)',
             Busy(w)' => \A v \in Writes \ {w} : Busy(v) => write[v].id # write'[w].id,
             \A v \in Writes \ {w} : Busy(v) => WriteIsFollowed(v)',
             \A i \in Ids : (\A v \in Writes : Busy(v)' => write'[v].id # i) => FreshCopy(i)'
      PROVE  CopiesFollowWrites'
  <2>1. \A v \in Writes \ {w} : (Busy(v)' <=> Busy(v)) /\ write'[v] = write[v]
    BY <1>4 DEF OnlyWrite, Busy
  <2> QED
    BY <1>0, <1>4, <1>a, <2>1
<1>5. ASSUME NEW w \in Writes, AcceptWrite(w)
      PROVE  CopiesFollowWrites'
  <2>1. /\ OnlyWrite(w) /\ UNCHANGED <<rows, copies, get>>
        /\ IsAccepted(w) \/ IsLookingUp(w)
    BY <1>5, AcceptWriteEffect DEF redis
  <2>2. \A v \in Writes \ {w} :
           /\ Busy(v)' <=> Busy(v)
           /\ write'[v] = write[v] /\ recache'[v] = recache[v]
           /\ Busy(v) => WriteIsFollowed(v)'
    <3> SUFFICES ASSUME NEW v \in Writes \ {w}
                 PROVE  /\ Busy(v)' <=> Busy(v)
                        /\ write'[v] = write[v] /\ recache'[v] = recache[v]
                        /\ Busy(v) => WriteIsFollowed(v)'
      OBVIOUS
    <3>1. /\ Busy(v)' <=> Busy(v)
          /\ write'[v] = write[v] /\ recache'[v] = recache[v]
      BY <2>1 DEF OnlyWrite, Busy
    <3>2. Busy(v) => WriteIsFollowed(v)
      BY <1>0
    <3>3. Busy(v) => write[v].id \in Ids
      BY <1>0
    <3> QED
      BY <1>s, <2>1, <3>1, <3>2, <3>3, FollowedStays
  <2>3. \A i \in Ids : FreshCopy(i) => FreshCopy(i)'
    BY <1>s, <2>1, FreshCopyStays
  <2>4. CASE IsAccepted(w)
    <3>1. PICK id \in Ids, fields \in SUBSET Columns, base \in Row,
               recaching \in {"setCopy", "done"} : IsAcceptedWith(w, id, fields, base, recaching)
      BY <2>4 DEF IsAccepted
    <3>2. ~Busy(w)
      BY <3>1, NotYetBusy DEF IsAcceptedWith
    <3>3. \A v \in Writes \ {w} : Busy(v) => write[v].id # id
      BY <3>1 DEF IsAcceptedWith, Alone
    <3>4. FreshCopy(id)
      BY <1>0, <3>2, <3>3
    <3>5. write'[w].stage = "published" /\ write'[w].id = id /\ write'[w].base = base
      BY <3>1 DEF IsAcceptedWith
    <3>6. base # Absent
      BY CampaignsAreRows
    <3>7. rows[id] # Absent => Agrees(id, base, rows[id])
      <4> SUFFICES ASSUME rows[id] # Absent
                   PROVE  Agrees(id, base, rows[id])
        OBVIOUS
      <4>1. CASE base = copies[id]
        BY <3>4, <3>6, <4>1 DEF FreshCopy
      <4>2. CASE base = Loaded(id)
        <5>1. rows[id] \in Row
          BY CampaignsAreRows DEF TypeOK
        <5>2. \A c \in Columns \ Stamped :
                 base[c] = IF c = "location" THEN None ELSE rows[id][c]
          BY <4>2, <5>1 DEF Loaded, Row, Stamped
        <5> QED
          BY <5>2 DEF Agrees
      <4> QED
        BY <3>1, <4>1, <4>2 DEF IsAcceptedWith
    <3>8. recache'[w] = recaching /\ (recaching = "done" => copies[id] = Absent)
      BY <3>1 DEF IsAcceptedWith, CachedCampaignsExist
    <3>12. rows[id] # Absent => AgreesAfter(id, base, rows[id])
      BY <1>s, <3>7, AgreementStays
    <3>9. WriteIsFollowed(w)'
      BY <2>1, <3>5, <3>6, <3>8, <3>12, AfterIsFollowed DEF FollowedAfter
    <3>10. Busy(w)'
      BY <3>5 DEF Busy
    <3>11. \A i \in Ids : (\A v \in Writes : Busy(v)' => write'[v].id # i) => FreshCopy(i)'
      BY <1>0, <2>2, <2>3, <3>2
    <3> QED
      BY <1>4, <2>1, <2>2, <3>3, <3>5, <3>9, <3>11
  <2>5. CASE IsLookingUp(w)
    <3>1. /\ ~Busy(w) /\ ~Busy(w)'
          /\ \A v \in Writes : Busy(v)' <=> Busy(v)
          /\ \A v \in Writes : Busy(v) => write'[v].id = write[v].id
      BY <2>1, <2>5, LookingUpIsNotBusy
    <3>2. \A i \in Ids : (\A v \in Writes : Busy(v)' => write'[v].id # i) => FreshCopy(i)'
      BY <1>0, <2>3, <3>1
    <3> QED
      BY <1>4, <2>1, <2>2, <3>1, <3>2
  <2> QED
    BY <2>1, <2>4, <2>5
<1>6. ASSUME NEW w \in Writes, IsAtWork(w)
      PROVE  CopiesFollowWrites'
  <2> DEFINE id == write[w].id
  <2>1. /\ Busy(w) /\ OnlyWrite(w) /\ id \in Ids /\ write'[w].id = id
        /\ \A i \in Ids \ {id} : rows'[i] = rows[i] /\ copies'[i] \in {Absent, copies[i]}
    BY <1>6, AtWorkEffect
  <2>2. WriteIsFollowed(w)'
    BY <1>0, <1>6, <1>s, <2>1, AtWorkIsFollowed
  <2>3. \A v \in Writes \ {w} :
           /\ Busy(v)' <=> Busy(v)
           /\ write'[v] = write[v] /\ recache'[v] = recache[v]
    BY <2>1 DEF OnlyWrite, Busy
  <2>4. \A v \in Writes \ {w} : Busy(v) => write[v].id \in Ids \ {id} /\ WriteIsFollowed(v)
    BY <1>0, <2>1
  <2>5. \A v \in Writes \ {w} : Busy(v) => WriteIsFollowed(v)'
    BY <1>s, <2>1, <2>3, <2>4, FollowedStays
  <2>6. ASSUME NEW i \in Ids, \A v \in Writes : Busy(v)' => write'[v].id # i
        PROVE  FreshCopy(i)'
    <3>1. CASE i = id
      <4>1. ~Busy(w)'
        BY <2>1, <2>6, <3>1
      <4>2. write'[w].stage # "published" /\ recache'[w] = "done"
        BY <4>1 DEF Busy
      <4> QED
        BY <2>1, <2>2, <3>1, <4>2, AfterIsFollowed, AfterIsFresh
           DEF FollowedAfter, FreshCopyAfter
    <3>2. CASE i # id
      <4>1. FreshCopy(i)
        BY <1>0, <2>3, <2>6, <3>2
      <4> QED
        BY <1>s, <2>1, <3>2, <4>1, FreshCopyStays
    <3> QED
      BY <3>1, <3>2
  <2> QED
    BY <1>0, <1>4, <2>1, <2>2, <2>5, <2>6
<1>7. ASSUME NEW w \in Writes, Lose(w)
      PROVE  CopiesFollowWrites'
  BY <1>7, LoseEffect
<1>8. CASE Expire \/ UNCHANGED vars
  BY <1>1, <1>8, ExpireEffect DEF vars, redis, OnlyDeletes
<1> QED
  BY <1>2, <1>3, <1>5, <1>6, <1>7, <1>8, StepKinds

LEMMA CarriedFieldsStayStored ==
    ASSUME TypeOK, WritesAreWellFormed, GetsAreWellFormed, CachedCampaignsExist,
           CarriedFieldsAreStored, [Next]_vars
    PROVE  CarriedFieldsAreStored'
<1>s. SentStay /\ (calm' => calm)
  BY SentWritesStay, RowsStay
<1>0. /\ \A i \in Ids, c \in Fields :
            rows[i] # Absent /\ rows[i][c] \in Writes => write[rows[i][c]].stage # "idle"
      /\ \A c \in Fields : carried[c] # None =>
            carried[c] \in Writes /\ write[carried[c]].stage # "idle"
      /\ calm => \A i \in Ids, c \in Fields :
            carried[c] # None /\ write[carried[c]].id = i =>
                rows[i] # Absent /\ rows[i][c] = carried[c]
  BY DEF CarriedFieldsAreStored, TypeOK
<1>1. ASSUME UNCHANGED <<rows, carried>>
      PROVE  CarriedFieldsAreStored'
  BY <1>0, <1>1, <1>s DEF CarriedFieldsAreStored, SentStay
<1>2. ASSUME NEW g \in Gets, BeginGet(g) \/ Read(g) \/ Fill(g)
      PROVE  CarriedFieldsAreStored'
  BY <1>1, <1>2, ReadType, FillType
<1>3. ASSUME NEW w \in Writes, AcceptWrite(w) \/ Invalidate(w) \/ Recache(w)
      PROVE  CarriedFieldsAreStored'
  BY <1>1, <1>3, AcceptWriteEffect, InvalidateEffect, RecacheEffect
<1>4. ASSUME NEW w \in Writes, Apply(w) \/ Lose(w)
      PROVE  CarriedFieldsAreStored'
  <2> DEFINE id == write[w].id
  <2>1. /\ write[w].stage = "published" /\ id \in Ids
        /\ \A i \in Ids \ {id} : rows'[i] = rows[i]
        /\ \/ rows'[id] = rows[id]
           \/ rows'[id] = Stored(w) /\ Stored(w) # Absent
        /\ \/ carried' \in {carried, Decoded(w)}
           \/ \A c \in Fields : carried'[c] = None
        /\ calm' => /\ rows'[id] = Stored(w) /\ Stored(w) # Absent
                    /\ carried' = Decoded(w)
    BY <1>4, ApplyEffect, LoseEffect
  <2>2. \A c \in Fields : Decoded(w)[c] \in {w, carried[c]}
    BY DEF Decoded
  <2>3. \A c \in Fields : Stored(w)[c] \in {w, carried[c], rows[id][c]}
                         /\ (rows[id] = Absent => Stored(w)[c] = w)
    <3> SUFFICES ASSUME NEW c \in Fields
                 PROVE  /\ Stored(w)[c] \in {w, carried[c], rows[id][c]}
                        /\ rows[id] = Absent => Stored(w)[c] = w
      OBVIOUS
    <3>1. c \in Columns \ Stamped
      BY CacheAssumption DEF Columns
    <3>2. CASE IsCreate(w)
      <4>1. write[w].fields = Columns
        BY <2>1, <3>2 DEF IsCreate, WritesAreWellFormed
      <4> QED
        BY <3>1, <3>2, <4>1 DEF Stored, Overlaid
    <3>3. CASE ~IsCreate(w)
      <4>1. Stored(w)[c] = IF Decoded(w)[c] = None THEN rows[id][c] ELSE Decoded(w)[c]
        BY <3>1, <3>3 DEF Stored
      <4> QED
        BY <2>2, <3>3, <4>1 DEF IsCreate
    <3> QED
      BY <3>2, <3>3
  <2>4. write[w].stage # "idle" /\ w # None
    BY <2>1, CacheAssumption DEF Writes
  <2>5. ASSUME NEW i \in Ids, NEW c \in Fields, rows'[i] # Absent, rows'[i][c] \in Writes
        PROVE  write'[rows'[i][c]].stage # "idle"
    <3>1. write[rows'[i][c]].stage # "idle"
      <4>1. CASE rows'[i] = rows[i]
        BY <1>0, <2>5, <4>1
      <4>2. CASE i = id /\ rows'[id] = Stored(w)
        <5>1. rows'[i][c] = w \/ rows'[i][c] = carried[c]
              \/ (rows[i] # Absent /\ rows'[i][c] = rows[i][c])
          BY <2>3, <4>2
        <5>2. rows'[i][c] # None
          BY <2>5, CacheAssumption DEF Writes
        <5> QED
          BY <1>0, <2>4, <2>5, <5>1, <5>2
      <4> QED
        BY <2>1, <4>1, <4>2
    <3> QED
      BY <1>s, <2>5, <3>1 DEF SentStay
  <2>6. ASSUME NEW c \in Fields, carried'[c] # None
        PROVE  /\ carried'[c] \in Writes
               /\ write[carried'[c]].stage # "idle"
               /\ write'[carried'[c]].stage # "idle"
               /\ write'[carried'[c]].id = write[carried'[c]].id
    <3>1. carried'[c] \in {w, carried[c]}
      BY <2>1, <2>2, <2>6
    <3>2. carried'[c] \in Writes /\ write[carried'[c]].stage # "idle"
      BY <1>0, <2>4, <2>6, <3>1
    <3> QED
      BY <1>s, <3>2 DEF SentStay
  <2>7. ASSUME calm', NEW i \in Ids, NEW c \in Fields,
               carried'[c] # None, write'[carried'[c]].id = i
        PROVE  rows'[i] # Absent /\ rows'[i][c] = carried'[c]
    <3>1. /\ calm /\ rows'[id] = Stored(w) /\ Stored(w) # Absent /\ carried' = Decoded(w)
          /\ write[carried'[c]].id = i
      BY <1>s, <2>1, <2>6, <2>7
    <3>2. c \in Columns \ Stamped
      BY CacheAssumption DEF Columns
    <3>3. CASE i # id
      <4>1. carried'[c] = carried[c]
        BY <2>2, <3>1, <3>3
      <4> QED
        BY <1>0, <2>1, <2>7, <3>1, <3>3, <4>1
    <3>4. CASE i = id /\ IsCreate(w)
      <4>1. carried'[c] = carried[c]
        BY <3>1, <3>4 DEF Decoded
      <4> QED
        BY <1>0, <2>7, <3>1, <3>4, <4>1 DEF IsCreate
    <3>5. CASE i = id /\ ~IsCreate(w)
      <4>1. Stored(w)[c] = IF Decoded(w)[c] = None THEN rows[id][c] ELSE Decoded(w)[c]
        BY <3>2, <3>5 DEF Stored
      <4> QED
        BY <2>7, <3>1, <3>5, <4>1
    <3> QED
      BY <3>3, <3>4, <3>5
  <2> QED
    BY <2>5, <2>6, <2>7 DEF CarriedFieldsAreStored
<1>5. CASE Expire
  BY <1>1, <1>5, ExpireEffect
<1>6. CASE UNCHANGED vars
  BY <1>1, <1>6 DEF vars
<1> QED
  BY <1>2, <1>3, <1>4, <1>5, <1>6 DEF Next
-----------------------------------------------------------------------------
LEMMA InitIsSafe == Init => CacheInvariant
<1> SUFFICES ASSUME Init
             PROVE  CacheInvariant
  OBVIOUS
<1>1. TypeOK
  BY InitType
<1>2. \A w \in Writes : /\ write[w].stage = "idle" /\ invalidation[w].stage = "done"
                        /\ recache[w] = "done" /\ ~Busy(w)
  BY DEF Init, Busy
<1>3. \A g \in Gets : /\ get[g].stage = "idle" /\ Listed(get[g].list) = {}
                      /\ ~Filling(g)
  BY EmptyListIsList DEF Init, Filling
<1>4. /\ \A i \in Ids : copies[i] = Absent
      /\ \A k \in Keys : answers[k] = None
      /\ KeyTexts \ Skipped \subseteq Keys
  BY DEF Init, EmptyList, Keys
<1>5. WritesAreWellFormed
  BY <1>2 DEF WritesAreWellFormed
<1>6. GetsAreWellFormed
  BY <1>3 DEF GetsAreWellFormed
<1>7. CachedCampaignsExist /\ ListsRespectFilters
  BY <1>3, <1>4 DEF CachedCampaignsExist, ListsRespectFilters, FilterIsRespected
<1>8. FillsAreFresh
  BY <1>3 DEF FillsAreFresh
<1>9. AnswersAreDeleted /\ FilteredAnswersAreFresh
  BY <1>4 DEF AnswersAreDeleted, FilteredAnswersAreFresh, FreshAnswer
<1>10. CopiesFollowWrites
  BY <1>2, <1>4 DEF CopiesFollowWrites, FreshCopy
<1>11. CarriedFieldsAreStored
  <2>1. \A i \in Ids, c \in Fields : rows[i] # Absent => rows[i][c] \notin Writes
    <3>1. 0 \notin Writes /\ Fields \subseteq Columns
      BY DEF Writes, Columns
    <3> QED
      BY <3>1 DEF Init, Set
  <2>2. \A c \in Fields : carried[c] = None
    BY DEF Init
  <2> QED
    BY <2>1, <2>2 DEF CarriedFieldsAreStored
<1> QED
  BY <1>1, <1>5, <1>6, <1>7, <1>8, <1>9, <1>10, <1>11 DEF CacheInvariant

LEMMA NextIsSafe == CacheInvariant /\ [Next]_vars => CacheInvariant'
BY TypeIsKept, WritesStayWellFormed, GetsStayWellFormed, CachedCampaignsStay,
   ListsStayRespectful, FillsStayFresh, AnswersStayDeleted, CopiesStayFollowing,
   CarriedFieldsStayStored, FilteredAnswersStayFresh
   DEF CacheInvariant

(* Every state the program reaches satisfies the inductive invariant, for  *)
(* any number of campaigns, filters, GET requests, writes and failures: in *)
(* calm, a fill caches what the table shows, an invalidation will delete   *)
(* every filtered answer that its pattern finds, and a campaign's copy is  *)
(* that of the one write at work on it, which agrees with the row.         *)
THEOREM CacheIsConsistent == Spec => []CacheInvariant
<1>1. Spec => Init /\ [][Next]_vars
  BY DEF Spec
<1> QED
  BY <1>1, InitIsSafe, NextIsSafe, PTL

(* Every variable keeps its type: a reply's total is never more than the   *)
(* campaigns there are, and no key holds anything but a campaign or answer.*)
THEOREM CacheTypes == Spec => []TypeOK
<1>1. CacheInvariant => TypeOK
  BY DEF CacheInvariant
<1> QED
  BY <1>1, CacheIsConsistent, PTL

(* Redis never holds a campaign that the table does not: a create is not   *)
(* copied until its event has come through, and rows are never deleted.    *)
THEOREM OnlyRowsAreCached == Spec => []CachedCampaignsExist
<1>1. CacheInvariant => CachedCampaignsExist
  BY DEF CacheInvariant
<1> QED
  BY <1>1, CacheIsConsistent, PTL

(* A reply to a request for a list is one to its filter, or to another     *)
(* filter with the same key, whichever of the cache or the table it comes  *)
(* from: where no two filters share a key, none excludes what it lists.    *)
THEOREM RepliesRespectFilters == Spec => []FilterIsRespected
<1>1. CacheInvariant => FilterIsRespected
  BY DEF CacheInvariant, ListsRespectFilters
<1> QED
  BY <1>1, CacheIsConsistent, PTL

(* When the writes are over, and nothing failed or overlapped, a filtered  *)
(* answer that is left in the cache is what the table would answer, if its *)
(* key does not pass for that of an index or a copy.                       *)
THEOREM InvalidationLeavesFreshAnswers == Spec => []FilteredAnswersAreFresh
<1>1. CacheInvariant => FilteredAnswersAreFresh
  BY DEF CacheInvariant
<1> QED
  BY <1>1, CacheIsConsistent, PTL

(* Whatever the order in which the event, the invalidation and the         *)
(* re-cache of an update run, and whatever the consumer carries over from  *)
(* one event to the next, the copy they leave is none, or agrees with the  *)
(* row in each column that the row has from a write of the campaign.       *)
THEOREM RecacheLeavesFreshCopies == Spec => []CopiesAreFresh
<1>1. CacheInvariant => CopiesAreFresh
  <2> SUFFICES ASSUME CopiesFollowWrites, calm, Quiet
               PROVE  \A i \in Ids : FreshCopy(i)
    BY DEF CacheInvariant, CopiesAreFresh
  <2> QED
    BY DEF CopiesFollowWrites, Quiet
<1> QED
  BY <1>1, CacheIsConsistent, PTL
=============================================================================

---------------------- MODULE CampaignWritePathProofs ----------------------
(***************************************************************************)
(* Proofs about CampaignWritePath, for every set of columns, values and    *)
(* requests, and any number of failures and restarts.                      *)
(*                                                                         *)
(* WritePathInvariant is inductive.  Its conjuncts are treated one by one, *)
(* each in a lemma that goes through the actions able to disturb it.       *)
(***************************************************************************)
EXTENDS CampaignWritePath, SequenceTheorems, TLAPS

-----------------------------------------------------------------------------
(* Facts about the data.                                                   *)

LEMMA PartialIsMap ==
    ASSUME NEW p \in Partial
    PROVE  /\ DOMAIN p \subseteq Columns
           /\ \A c \in DOMAIN p : p[c] \in Values
BY DEF Partial

LEMMA OverrideIsPartial ==
    ASSUME NEW p \in Partial, NEW q \in Partial
    PROVE  Over(p, q) \in Partial
<1>1. /\ DOMAIN p \union DOMAIN q \in SUBSET Columns
      /\ \A c \in DOMAIN p : p[c] \in Values
      /\ \A c \in DOMAIN q : q[c] \in Values
  BY PartialIsMap
<1>2. Over(p, q) \in [DOMAIN p \union DOMAIN q -> Values]
  BY <1>1 DEF Over
<1> QED
  BY <1>1, <1>2 DEF Partial

(* Carried fields over a row give a row.                                   *)
LEMMA OverrideIsRow ==
    ASSUME NEW p \in Partial, NEW r \in Row
    PROVE  Over(p, r) \in Row
<1>1. /\ DOMAIN p \union DOMAIN r = Columns
      /\ \A c \in DOMAIN p : p[c] \in Values
      /\ \A c \in DOMAIN r : r[c] \in Values
  BY PartialIsMap DEF Row
<1> QED
  BY <1>1 DEF Over, Row

LEMMA EmptyMapIsPartial == EmptyMap \in Partial
<1>1. EmptyMap \in [{} -> Values]
  BY DEF EmptyMap
<1> QED
  BY <1>1 DEF Partial

LEMMA RowIsPartial ==
    ASSUME NEW r \in Row
    PROVE  r \in Partial
BY DEF Row, Partial

(* Replacing one element of the outcome of one topic.                      *)
LEMMA OutcomeIsReplaced ==
    ASSUME outcome \in [Topics -> Seq(Outcomes)],
           NEW t \in Topics, NEW o \in 1 .. Len(outcome[t]), NEW result \in Outcomes,
           outcome' = [outcome EXCEPT ![t][o] = result]
    PROVE  /\ outcome' \in [Topics -> Seq(Outcomes)]
           /\ \A u \in Topics : Len(outcome'[u]) = Len(outcome[u])
           /\ \A u \in Topics : \A p \in 1 .. Len(outcome[u]) :
                outcome'[u][p] = IF u = t /\ p = o THEN result ELSE outcome[u][p]
<1>1. outcome[t] \in Seq(Outcomes)
  OBVIOUS
<1>2. /\ [outcome[t] EXCEPT ![o] = result] \in Seq(Outcomes)
      /\ Len([outcome[t] EXCEPT ![o] = result]) = Len(outcome[t])
      /\ \A p \in 1 .. Len(outcome[t]) :
            [outcome[t] EXCEPT ![o] = result][p] = IF p = o THEN result ELSE outcome[t][p]
  BY <1>1, ExceptSeq
<1>3. outcome' = [outcome EXCEPT ![t] = [outcome[t] EXCEPT ![o] = result]]
  OBVIOUS
<1> QED
  BY <1>2, <1>3
-----------------------------------------------------------------------------
(* What the end of an attempt does.                                        *)

AtWork(t) == pc[t] \in {"decoding", "saving", "waiting"}

(* Finish and Retry touch the consumer's own entries only, keep the length *)
(* of every outcome sequence, and resolve at most the current message.     *)
Ends(t, results) ==
    /\ outcome' \in [Topics -> Seq(Outcomes)]
    /\ \A u \in Topics : Len(outcome'[u]) = Len(outcome[u])
    /\ \A u \in Topics : \A p \in 1 .. Len(outcome[u]) :
          \/ outcome'[u][p] = outcome[u][p]
          \/ u = t /\ p = offset[t] /\ outcome'[u][p] \in results
    /\ pc' \in [Topics -> States]
    /\ pc'[t] \in {"decoding", "polling"}
    /\ \A u \in Topics \ {t} : pc'[u] = pc[u]
    /\ offset' \in [Topics -> Nat \ {0}]
    /\ \A u \in Topics \ {t} : offset'[u] = offset[u]
    /\ pc'[t] = "decoding" => offset'[t] = offset[t]
    /\ attempt' \in [Topics -> 1 .. MaxRetries]
    /\ \A u \in Topics \ {t} : attempt'[u] = attempt[u]

LEMMA FinishEnds ==
    ASSUME TypeOK, OffsetsAreValid, NEW t \in Topics, AtWork(t),
           NEW result \in {"stored", "dropped"}, Finish(t, result)
    PROVE  Ends(t, {result}) /\ pc'[t] = "polling"
<1>1. offset[t] \in 1 .. Len(outcome[t])
  BY DEF TypeOK, OffsetsAreValid, AtWork
<1>2. /\ outcome' \in [Topics -> Seq(Outcomes)]
      /\ \A u \in Topics : Len(outcome'[u]) = Len(outcome[u])
      /\ \A u \in Topics : \A p \in 1 .. Len(outcome[u]) :
            outcome'[u][p] = IF u = t /\ p = offset[t] THEN result ELSE outcome[u][p]
  BY <1>1, OutcomeIsReplaced DEF Finish, TypeOK, Outcomes
<1>3. /\ pc' \in [Topics -> States]
      /\ pc'[t] = "polling"
      /\ \A u \in Topics \ {t} : pc'[u] = pc[u]
      /\ offset' \in [Topics -> Nat \ {0}]
      /\ \A u \in Topics \ {t} : offset'[u] = offset[u]
      /\ attempt' = attempt
  BY DEF Finish, TypeOK, States
<1> QED
  BY <1>2, <1>3 DEF Ends, TypeOK

LEMMA RetryEnds ==
    ASSUME TypeOK, OffsetsAreValid, NEW t \in Topics, AtWork(t), Retry(t)
    PROVE  Ends(t, {"dropped"})
<1>3. attempt \in [Topics -> 1 .. 3]
  BY DEF TypeOK, MaxRetries
<1>1. CASE attempt[t] < MaxRetries
  <2>1. /\ attempt' = [attempt EXCEPT ![t] = @ + 1]
        /\ pc' = [pc EXCEPT ![t] = "decoding"]
        /\ offset' = offset
        /\ outcome' = outcome
    BY <1>1 DEF Retry, MaxRetries, TypeOK
  <2>2. /\ pc' \in [Topics -> States]
        /\ pc'[t] = "decoding"
        /\ \A u \in Topics \ {t} : pc'[u] = pc[u]
    BY <2>1 DEF TypeOK, States
  <2>3. /\ attempt' \in [Topics -> 1 .. MaxRetries]
        /\ \A u \in Topics \ {t} : attempt'[u] = attempt[u]
    <3>1. attempt[t] + 1 \in 1 .. 3
      BY <1>1, <1>3 DEF MaxRetries
    <3> QED
      BY <1>3, <2>1, <3>1 DEF MaxRetries
  <2>4. /\ outcome' \in [Topics -> Seq(Outcomes)]
        /\ offset' \in [Topics -> Nat \ {0}]
    BY <2>1 DEF TypeOK
  <2> QED
    BY <2>1, <2>2, <2>3, <2>4 DEF Ends
<1>2. CASE attempt[t] = MaxRetries
  <2>1. Finish(t, "dropped")
    BY <1>2 DEF Retry, MaxRetries
  <2> QED
    BY <2>1, FinishEnds DEF Ends
<1> QED
  BY <1>1, <1>2, <1>3 DEF MaxRetries
-----------------------------------------------------------------------------
(* Type correctness.                                                       *)

(* An accepted request has at most met one failure, that of its name query.*)
LEMMA AcceptFaults ==
    ASSUME TypeOK, AcceptCreate \/ AcceptUpdate
    PROVE  /\ faults' \in 0 .. MaxFaults
           /\ faults' = faults \/ faults' = faults + 1
<1>1. UNCHANGED faults \/ Fault
  BY DEF AcceptCreate, AcceptUpdate, LookUpName
<1> QED
  BY <1>1, WritePathAssumption DEF TypeOK, Fault

LEMMA AcceptTypes ==
    ASSUME TypeOK, accepted < MaxRequests, faults' \in 0 .. MaxFaults,
           NEW t \in Topics, NEW m \in Message, Accept(t, m)
    PROVE  TypeOK'
<1>1. accepted' \in 0 .. MaxRequests
  BY WritePathAssumption DEF TypeOK, Accept
<1>2. outbox' \subseteq Envelope
  BY DEF TypeOK, Accept, Envelope
<1> QED
  BY <1>1, <1>2 DEF TypeOK, Accept, log, tables, consumers

LEMMA CreateMessage ==
    ASSUME TypeOK, accepted < MaxRequests, NEW c \in Creations
    PROVE  LET id == accepted + 1
               m == [request |-> id, id |-> id, columns |-> c.columns,
                     tags |-> c.columns["tags"], location |-> c.location,
                     readable |-> c.readable]
           IN  m \in Message /\ WellFormed(Create, m)
<1>1. /\ c.columns \in Row /\ c.columns \in Partial
      /\ c.location \in Values
      /\ c.readable \in BOOLEAN
  BY WritePathAssumption, RowIsPartial DEF CreationType
<1>2. c.columns["tags"] \in Values
  BY <1>1, WritePathAssumption DEF Row
<1>3. accepted + 1 \in Ids
  BY WritePathAssumption DEF TypeOK, Ids
<1> QED
  BY <1>1, <1>2, <1>3 DEF Message, WellFormed, Create, Update

(* The messages of a campaign are messages.                                 *)
LEMMA MessagesOfType ==
    ASSUME TypeOK, NEW id \in Ids, NEW m \in MessagesOf(id)
    PROVE  m \in Message
<1>1. CASE \E e \in outbox : m = e.message
  BY <1>1 DEF TypeOK, Envelope
<1>2. CASE \E t \in Topics : \E o \in DOMAIN topic[t] : m = topic[t][o]
  <2>1. PICK t \in Topics : \E o \in DOMAIN topic[t] : m = topic[t][o]
    BY <1>2
  <2>2. topic[t] \in Seq(Message)
    BY DEF TypeOK
  <2> QED
    BY <2>1, <2>2
<1> QED
  BY <1>1, <1>2 DEF MessagesOf

LEMMA UpdateMessage ==
    ASSUME TypeOK, accepted < MaxRequests, NEW id \in Ids, NEW c \in Changes, Exists(id),
           NEW place \in MergedLocations(id, c), NEW tags \in MergedTags(id, c)
    PROVE  LET m == [request |-> accepted + 1, id |-> id, columns |-> c.columns,
                     tags |-> tags, location |-> place, readable |-> c.readable]
           IN  m \in Message /\ WellFormed(Update, m)
<1>1. /\ c.columns \in Partial
      /\ c.location \in Values \union {NoLocation}
      /\ c.readable \in BOOLEAN
  BY WritePathAssumption DEF ChangeType
<1>2. campaigns[id] \in Row
  BY DEF TypeOK, Exists
<1>3. \A m \in MessagesOf(id) : m.tags \in Values /\ m.location \in Values \union {NoLocation}
  BY MessagesOfType DEF Message
<1>4. tags \in Values
  <2>1. "tags" \in DOMAIN c.columns => c.columns["tags"] \in Values
    BY <1>1, PartialIsMap
  <2>2. campaigns[id]["tags"] \in Values
    BY <1>2, WritePathAssumption DEF Row
  <2> QED
    BY <1>3, <2>1, <2>2, WritePathAssumption DEF MergedTags
<1>5. place \in Values \union {NoLocation}
  <2>1. CASE c.location # NoLocation
    BY <1>1, <2>1 DEF MergedLocations
  <2>2. CASE c.location = NoLocation
    <3>1. locations[id] \in Seq(Values)
      BY DEF TypeOK
    <3>2. \A i \in DOMAIN locations[id] : locations[id][i] \in Values
      BY <3>1
    <3> QED
      BY <1>3, <2>2, <3>2 DEF MergedLocations
  <2> QED
    BY <2>1, <2>2
<1>6. accepted + 1 \in Ids
  BY WritePathAssumption DEF TypeOK, Ids
<1> QED
  BY <1>1, <1>4, <1>5, <1>6 DEF Message, WellFormed, Create, Update

LEMMA AppendedTypes ==
    ASSUME TypeOK, NEW e \in outbox, Appended(e)
    PROVE  /\ topic' \in [Topics -> Seq(Message)]
           /\ outcome' \in [Topics -> Seq(Outcomes)]
<1>1. e.topic \in Topics /\ e.message \in Message
  BY DEF TypeOK, Envelope
<1>2. Append(topic[e.topic], e.message) \in Seq(Message)
  BY <1>1 DEF TypeOK
<1>3. Append(outcome[e.topic], "pending") \in Seq(Outcomes)
  BY <1>1 DEF TypeOK, Outcomes
<1> QED
  BY <1>1, <1>2, <1>3 DEF TypeOK, Appended

(* The message a consumer is at.                                           *)
LEMMA CurrentIsMessage ==
    ASSUME TypeOK, OffsetsAreValid, NEW t \in Topics, AtWork(t)
    PROVE  /\ offset[t] \in DOMAIN topic[t]
           /\ Current(t) \in Message
<1>1. offset[t] \in 1 .. Len(topic[t]) /\ topic[t] \in Seq(Message)
  BY DEF TypeOK, OffsetsAreValid, AtWork
<1> QED
  BY <1>1 DEF Current

LEMMA WrittenIsRow ==
    ASSUME TypeOK, OffsetsAreValid, MessagesAreWellFormed, NEW t \in Topics, AtWork(t)
    PROVE  Written(t, Current(t)) \in Row
<1> DEFINE m == Current(t)
<1>1. m \in Message /\ WellFormed(t, m)
  BY CurrentIsMessage DEF MessagesAreWellFormed, Current
<1>2. CASE t = Create
  BY <1>1, <1>2 DEF Written, WellFormed
<1>3. CASE t = Update
  <2>1. Exists(m.id) /\ m.id \in Ids /\ m.tags \in Values
    BY <1>1, <1>3 DEF WellFormed, Message
  <2>2. campaigns[m.id] \in Row /\ carried \in Partial
    BY <2>1 DEF TypeOK, Exists
  <2>3. Over(carried, campaigns[m.id]) \in Row
    BY <2>2, OverrideIsRow
  <2>4. [Over(carried, campaigns[m.id]) EXCEPT !["tags"] = m.tags] \in Row
    BY <2>1, <2>3 DEF Row
  <2> QED
    BY <1>3, <2>1, <2>4 DEF Written, Create, Update
<1> QED
  BY <1>2, <1>3 DEF Topics

LEMMA TypeIsKept ==
    ASSUME TypeOK, OffsetsAreValid, MessagesAreWellFormed, TasksHaveRows, [Next]_vars
    PROVE  TypeOK'
<1>1. CASE AcceptCreate
  <2>1. PICK c \in Creations :
           Accept(Create, [request |-> accepted + 1, id |-> accepted + 1,
                           columns |-> c.columns, tags |-> c.columns["tags"],
                           location |-> c.location, readable |-> c.readable])
    BY <1>1 DEF AcceptCreate
  <2> QED
    BY <1>1, <2>1, CreateMessage, AcceptFaults, AcceptTypes DEF AcceptCreate, Topics
<1>2. CASE AcceptUpdate
  <2> DEFINE m(id, c, place, tags) ==
               [request |-> accepted + 1, id |-> id, columns |-> c.columns,
                tags |-> tags, location |-> place, readable |-> c.readable]
  <2>1. PICK id \in Ids, c \in Changes :
           /\ Exists(id)
           /\ \E place \in MergedLocations(id, c), tags \in MergedTags(id, c) :
                 Accept(Update, m(id, c, place, tags))
    BY <1>2 DEF AcceptUpdate
  <2>2. PICK place \in MergedLocations(id, c), tags \in MergedTags(id, c) :
           Accept(Update, m(id, c, place, tags))
    BY <2>1
  <2>3. m(id, c, place, tags) \in Message
    BY <1>2, <2>1, <2>2, UpdateMessage DEF AcceptUpdate
  <2> QED
    BY <1>2, <2>2, <2>3, AcceptFaults, AcceptTypes DEF AcceptUpdate, Topics
<1>3. CASE Producer
  <2>1. CASE Publish
    BY <2>1, AppendedTypes DEF Publish, TypeOK, tables, consumers
  <2>2. CASE PublishUnacknowledged
    BY <2>2, AppendedTypes, WritePathAssumption
       DEF PublishUnacknowledged, Fault, TypeOK, requests, tables, consumers
  <2>3. CASE PublishFails
    BY <2>3, WritePathAssumption DEF PublishFails, Fault, TypeOK, log, tables, consumers
  <2> QED
    BY <1>3, <2>1, <2>2, <2>3 DEF Producer
<1>4. ASSUME NEW t \in Topics, Work(t) \/ Trouble(t)
      PROVE  TypeOK'
  <2>1. CASE Subscribe(t)
    <3>1. /\ outcome[t] \in Seq(Outcomes)
          /\ [o \in DOMAIN outcome[t] |->
                IF outcome[t][o] = "pending" THEN "skipped" ELSE outcome[t][o]]
             \in Seq(Outcomes)
      <4>1. outcome[t] \in Seq(Outcomes)
        BY DEF TypeOK
      <4>2. \A o \in 1 .. Len(outcome[t]) : outcome[t][o] \in Outcomes
        BY <4>1
      <4>3. [o \in 1 .. Len(outcome[t]) |->
               IF outcome[t][o] = "pending" THEN "skipped" ELSE outcome[t][o]]
            \in [1 .. Len(outcome[t]) -> Outcomes]
        BY <4>2 DEF Outcomes
      <4> QED
        BY <4>1, <4>3
    <3>2. outcome' \in [Topics -> Seq(Outcomes)]
      BY <2>1, <3>1 DEF Subscribe, TypeOK
    <3>3. offset' \in [Topics -> Nat \ {0}]
      <4>1. Len(topic[t]) + 1 \in Nat \ {0}
        BY DEF TypeOK
      <4> QED
        BY <2>1, <4>1 DEF Subscribe, StartOffset, TypeOK
    <3>4. pc' \in [Topics -> States]
      BY <2>1 DEF Subscribe, TypeOK, States
    <3> QED
      BY <2>1, <3>2, <3>3, <3>4 DEF Subscribe, TypeOK, requests, tables
  <2>2. CASE SubscribeFails(t)
    <3>1. pc' \in [Topics -> States]
      BY <2>2 DEF SubscribeFails, TypeOK, States
    <3> QED
      BY <2>2, <3>1, WritePathAssumption
         DEF SubscribeFails, Fault, TypeOK, requests, log, tables
  <2>3. CASE Poll(t)
    <3>1. pc' \in [Topics -> States]
      BY <2>3 DEF Poll, TypeOK, States
    <3>2. attempt' \in [Topics -> 1 .. MaxRetries]
      BY <2>3 DEF Poll, TypeOK, MaxRetries
    <3> QED
      BY <2>3, <3>1, <3>2 DEF Poll, TypeOK, requests, log, tables
  <2>4. ASSUME Decoded(t), AtWork(t)
        PROVE  carried' \in Partial
    <3>1. Current(t).columns \in Partial
      BY <2>4, CurrentIsMessage DEF Message
    <3> QED
      BY <2>4, <3>1, OverrideIsPartial DEF Decoded, Carry, TypeOK
  <2>5. CASE Begin(t)
    <3>1. pc' \in [Topics -> States] /\ tx' \in [Topics -> {"none", "open"}]
      BY <2>5 DEF Begin, TypeOK, States
    <3>2. carried' \in Partial
      BY <2>4, <2>5 DEF Begin, AtWork
    <3> QED
      BY <2>5, <3>1, <3>2 DEF Begin, TypeOK, requests, log, tables
  <2>6. ASSUME AtWork(t), Retry(t)
        PROVE  /\ outcome' \in [Topics -> Seq(Outcomes)]
               /\ pc' \in [Topics -> States]
               /\ offset' \in [Topics -> Nat \ {0}]
               /\ attempt' \in [Topics -> 1 .. MaxRetries]
    BY <2>6, RetryEnds DEF Ends
  <2>7. CASE DecodeFails(t)
    <3>1. AtWork(t) /\ Retry(t) /\ Decoded(t)
      BY <2>7 DEF DecodeFails, AtWork
    <3> QED
      BY <2>4, <2>6, <2>7, <3>1 DEF DecodeFails, TypeOK, requests, tables
  <2>8. CASE BeginFails(t)
    <3>1. AtWork(t) /\ Retry(t) /\ Decoded(t)
      BY <2>8 DEF BeginFails, AtWork
    <3>2. faults' \in 0 .. MaxFaults
      BY <2>8, WritePathAssumption DEF BeginFails, Fault, TypeOK
    <3> QED
      BY <2>4, <2>6, <2>8, <3>1, <3>2 DEF BeginFails, TypeOK, requests, tables
  <2>9. CASE Save(t)
    <3>1. Current(t).id \in Ids /\ Written(t, Current(t)) \in Row
      BY <2>9, CurrentIsMessage, WrittenIsRow DEF Save, AtWork, Message
    <3>2. campaigns' \in [Ids -> Row \union {NoRow}]
      BY <2>9, <3>1 DEF Save, TypeOK
    <3>3. tasks' \subseteq Task
      <4>1. NewTasks(t) \subseteq Task
        <5>1. offset[t] \in Nat /\ attempt[t] \in Nat
          <6>1. offset \in [Topics -> Nat \ {0}] /\ attempt \in [Topics -> 1 .. 3]
            BY DEF TypeOK, MaxRetries
          <6> QED
            BY <6>1
        <5>2. ASSUME NEW new \in NewTasks(t)
              PROVE  new \in Task
          <6>1. PICK k \in {"location", "log"} :
                   new = [topic |-> t, offset |-> offset[t],
                          attempt |-> attempt[t], kind |-> k]
            BY <5>2 DEF NewTasks
          <6> QED
            BY <5>1, <6>1 DEF Task
        <5> QED
          BY <5>2
      <4> QED
        BY <2>9, <4>1 DEF Save, TypeOK
    <3>4. pc' \in [Topics -> States]
      BY <2>9 DEF Save, TypeOK, States
    <3> QED
      BY <2>9, <3>2, <3>3, <3>4 DEF Save, TypeOK, requests, log
  <2>10. CASE SaveFails(t)
    <3>1. AtWork(t) /\ Retry(t)
      BY <2>10 DEF SaveFails, AtWork
    <3>2. faults' \in 0 .. MaxFaults /\ tx' \in [Topics -> {"none", "open"}]
      BY <2>10, WritePathAssumption DEF SaveFails, Fault, TypeOK
    <3> QED
      BY <2>6, <2>10, <3>1, <3>2 DEF SaveFails, TypeOK, requests, tables
  <2>11. CASE GiveUp(t)
    <3>1. AtWork(t) /\ Retry(t)
      BY <2>11 DEF GiveUp, AtWork
    <3>2. failed' \in [Topics -> BOOLEAN]
      BY <2>11 DEF GiveUp, TypeOK
    <3> QED
      BY <2>6, <2>11, <3>1, <3>2 DEF GiveUp, TypeOK, requests, tables
  <2>12. CASE Commit(t)
    <3>1. AtWork(t) /\ Finish(t, "stored")
      BY <2>12 DEF Commit, AllWritten, AtWork
    <3>2. Ends(t, {"stored"})
      BY <3>1, FinishEnds
    <3>3. tx' \in [Topics -> {"none", "open"}]
      BY <2>12 DEF Commit, TypeOK
    <3> QED
      BY <2>12, <3>2, <3>3 DEF Commit, Ends, TypeOK, requests, tables
  <2>13. CASE CommitFails(t)
    <3>1. AtWork(t) /\ Retry(t)
      BY <2>13 DEF CommitFails, AllWritten, AtWork
    <3>2. faults' \in 0 .. MaxFaults /\ tx' \in [Topics -> {"none", "open"}]
      BY <2>13, WritePathAssumption DEF CommitFails, Fault, TypeOK
    <3> QED
      BY <2>6, <2>13, <3>1, <3>2 DEF CommitFails, TypeOK, requests, tables
  <2> QED
    BY <1>4, <2>1, <2>2, <2>3, <2>5, <2>7, <2>8, <2>9, <2>10, <2>11, <2>12, <2>13
       DEF Work, Trouble
<1>5. ASSUME NEW task \in tasks, RunTask(task)
      PROVE  TypeOK'
  <2> DEFINE m == topic[task.topic][task.offset]
  <2>1. m \in Message /\ task.topic \in Topics
    <3>1. task.topic \in Topics /\ task.offset \in DOMAIN topic[task.topic]
      BY DEF TypeOK, Task, TasksHaveRows
    <3>2. topic[task.topic] \in Seq(Message)
      BY <3>1 DEF TypeOK
    <3> QED
      BY <3>1, <3>2
  <2>2. CASE task.kind = "location"
    <3>1. m.id \in Ids /\ m.location \in Values
      BY <2>1, <2>2 DEF Message, TasksHaveRows, MessageOf
    <3>2. Moved(task, m) \in Seq(Values)
      <4>1. locations[m.id] \in Seq(Values)
        BY <3>1 DEF TypeOK
      <4>2. Append(locations[m.id], m.location) \in Seq(Values)
        BY <3>1, <4>1
      <4>3. [i \in DOMAIN locations[m.id] |-> m.location] \in Seq(Values)
        <5>1. [i \in 1 .. Len(locations[m.id]) |-> m.location]
                \in [1 .. Len(locations[m.id]) -> Values]
          BY <3>1
        <5>2. DOMAIN locations[m.id] = 1 .. Len(locations[m.id])
                /\ Len(locations[m.id]) \in Nat
          BY <4>1, LenProperties
        <5> QED
          BY <5>1, <5>2
      <4> QED
        BY <4>2, <4>3 DEF Moved
    <3>3. locations' \in [Ids -> Seq(Values)]
      BY <1>5, <2>2, <3>1, <3>2 DEF RunTask, TypeOK
    <3> QED
      BY <1>5, <2>2, <3>3 DEF RunTask, TypeOK, requests, log, consumers
  <2>3. CASE task.kind # "location"
    <3>1. m.id \in Ids
      BY <2>1 DEF Message
    <3>2. statusLogs' \in [Topics -> [Ids -> Nat]]
      <4>1. statusLogs[task.topic] \in [Ids -> Nat]
        BY <2>1 DEF TypeOK
      <4>2. [statusLogs[task.topic] EXCEPT ![m.id] = @ + 1] \in [Ids -> Nat]
        BY <3>1, <4>1
      <4>3. statusLogs' = [statusLogs EXCEPT ![task.topic] =
                              [statusLogs[task.topic] EXCEPT ![m.id] = @ + 1]]
        BY <1>5, <2>3 DEF RunTask
      <4> QED
        BY <2>1, <4>2, <4>3 DEF TypeOK
    <3> QED
      BY <1>5, <2>3, <3>2 DEF RunTask, TypeOK, requests, log, consumers
  <2> QED
    BY <2>2, <2>3
<1>6. ASSUME NEW task \in tasks, FailTask(task)
      PROVE  TypeOK'
  <2>1. task.topic \in Topics
    BY DEF TypeOK, Task
  <2>2. /\ failed' \in [Topics -> BOOLEAN]
        /\ tx' \in [Topics -> {"none", "open"}]
        /\ faults' \in 0 .. MaxFaults
    <3>1. CASE IsCurrent(task)
      <4>1. /\ failed' = [failed EXCEPT ![task.topic] = TRUE]
            /\ tx' = [tx EXCEPT ![task.topic] = "none"]
        BY <1>6, <3>1 DEF FailTask
      <4> QED
        BY <1>6, <2>1, <4>1, WritePathAssumption DEF FailTask, Fault, TypeOK
    <3>2. CASE ~IsCurrent(task)
      <4>1. failed' = failed /\ tx' = tx
        BY <1>6, <3>2 DEF FailTask
      <4> QED
        BY <1>6, <2>1, <4>1, WritePathAssumption DEF FailTask, Fault, TypeOK
    <3> QED
      BY <3>1, <3>2
  <2> QED
    BY <1>6, <2>2 DEF FailTask, TypeOK, requests, log, tables
<1>7. CASE Crash
  BY <1>7, WritePathAssumption, EmptyMapIsPartial
     DEF Crash, TypeOK, log, tables, States, MaxRetries
<1>8. CASE UNCHANGED vars
  BY <1>8 DEF vars, TypeOK, requests, log, tables, consumers
<1> QED
  BY <1>1, <1>2, <1>3, <1>4, <1>5, <1>6, <1>7, <1>8 DEF Next, Accepts
-----------------------------------------------------------------------------
(* The shape of a step.                                                    *)

EndOfAttempt(t) ==
    \/ DecodeFails(t) \/ BeginFails(t) \/ SaveFails(t) \/ GiveUp(t)
    \/ CommitFails(t) \/ Commit(t)

LEMMA StepCases ==
    ASSUME [Next]_vars
    PROVE  \/ Accepts
           \/ Producer
           \/ \E t \in Topics : \/ Subscribe(t) \/ SubscribeFails(t) \/ Poll(t)
                                \/ Begin(t) \/ Save(t) \/ EndOfAttempt(t)
           \/ \E task \in tasks : RunTask(task) \/ FailTask(task)
           \/ Crash
           \/ UNCHANGED vars
BY DEF Next, Work, Trouble, EndOfAttempt

(* An accepted request adds a well-formed event to the outbox.             *)
LEMMA AcceptsEffect ==
    ASSUME TypeOK, Accepts
    PROVE  /\ UNCHANGED <<log, tables, consumers, tasks>>
           /\ \A e \in outbox' : e \in outbox \/ WellFormed(e.topic, e.message)
<1>1. CASE AcceptCreate
  <2>1. PICK c \in Creations :
           Accept(Create, [request |-> accepted + 1, id |-> accepted + 1,
                           columns |-> c.columns, tags |-> c.columns["tags"],
                           location |-> c.location, readable |-> c.readable])
    BY <1>1 DEF AcceptCreate
  <2> QED
    BY <1>1, <2>1, CreateMessage DEF AcceptCreate, Accept
<1>2. CASE AcceptUpdate
  <2> DEFINE m(id, c, place, tags) ==
               [request |-> accepted + 1, id |-> id, columns |-> c.columns,
                tags |-> tags, location |-> place, readable |-> c.readable]
  <2>1. PICK id \in Ids, c \in Changes :
           /\ Exists(id)
           /\ \E place \in MergedLocations(id, c), tags \in MergedTags(id, c) :
                 Accept(Update, m(id, c, place, tags))
    BY <1>2 DEF AcceptUpdate
  <2>2. PICK place \in MergedLocations(id, c), tags \in MergedTags(id, c) :
           Accept(Update, m(id, c, place, tags))
    BY <2>1
  <2>3. WellFormed(Update, m(id, c, place, tags))
    BY <1>2, <2>1, <2>2, UpdateMessage DEF AcceptUpdate
  <2> QED
    BY <2>2, <2>3 DEF Accept
<1> QED
  BY <1>1, <1>2 DEF Accepts

(* The producer appends an event of the outbox, or nothing.                *)
LEMMA ProducerEffect ==
    ASSUME TypeOK, Producer
    PROVE  /\ UNCHANGED <<tables, consumers, tasks>>
           /\ outbox' \subseteq outbox
           /\ UNCHANGED log \/ \E e \in outbox : Appended(e)
BY DEF Producer, Publish, PublishUnacknowledged, PublishFails, log, tables, consumers,
       requests

LEMMA AppendedEffect ==
    ASSUME TypeOK, OffsetsAreValid, NEW e \in outbox, Appended(e)
    PROVE  /\ \A t \in Topics : Len(outcome'[t]) = Len(topic'[t])
           /\ \A t \in Topics : Len(topic[t]) <= Len(topic'[t])
           /\ \A t \in Topics : \A o \in DOMAIN topic[t] :
                 /\ o \in DOMAIN topic'[t] /\ topic'[t][o] = topic[t][o]
                 /\ outcome'[t][o] = outcome[t][o]
           /\ \A t \in Topics : \A o \in DOMAIN topic'[t] \ DOMAIN topic[t] :
                 /\ t = e.topic
                 /\ topic'[t][o] = e.message
                 /\ outcome'[t][o] = "pending"
<1>1. e.topic \in Topics /\ e.message \in Message
  BY DEF TypeOK, Envelope
<1>2. \A t \in Topics : /\ topic[t] \in Seq(Message)
                        /\ outcome[t] \in Seq(Outcomes)
                        /\ Len(outcome[t]) = Len(topic[t])
  BY DEF TypeOK, OffsetsAreValid
<1>3. \A t \in Topics \ {e.topic} : topic'[t] = topic[t] /\ outcome'[t] = outcome[t]
  BY DEF Appended, TypeOK
<1>4. /\ topic'[e.topic] = Append(topic[e.topic], e.message)
      /\ outcome'[e.topic] = Append(outcome[e.topic], "pending")
  BY <1>1 DEF Appended, TypeOK
<1>5. "pending" \in Outcomes
  BY DEF Outcomes
<1>6. /\ DOMAIN topic'[e.topic] = 1 .. Len(topic[e.topic]) + 1
      /\ Len(topic'[e.topic]) = Len(topic[e.topic]) + 1
      /\ \A o \in 1 .. Len(topic[e.topic]) : topic'[e.topic][o] = topic[e.topic][o]
      /\ topic'[e.topic][Len(topic[e.topic]) + 1] = e.message
  BY <1>1, <1>2, <1>4
<1>7. /\ Len(outcome'[e.topic]) = Len(topic[e.topic]) + 1
      /\ \A o \in 1 .. Len(topic[e.topic]) : outcome'[e.topic][o] = outcome[e.topic][o]
      /\ outcome'[e.topic][Len(topic[e.topic]) + 1] = "pending"
  BY <1>1, <1>2, <1>4, <1>5
<1>8. \A t \in Topics : DOMAIN topic[t] = 1 .. Len(topic[t]) /\ Len(topic[t]) \in Nat
  BY <1>2
<1> SUFFICES ASSUME NEW t \in Topics
             PROVE  /\ Len(outcome'[t]) = Len(topic'[t])
                    /\ Len(topic[t]) <= Len(topic'[t])
                    /\ \A o \in DOMAIN topic[t] :
                          /\ o \in DOMAIN topic'[t] /\ topic'[t][o] = topic[t][o]
                          /\ outcome'[t][o] = outcome[t][o]
                    /\ \A o \in DOMAIN topic'[t] \ DOMAIN topic[t] :
                          /\ t = e.topic
                          /\ topic'[t][o] = e.message
                          /\ outcome'[t][o] = "pending"
  OBVIOUS
<1>9. CASE t = e.topic
  <2>0. PICK n \in Nat : n = Len(topic[t])
    BY <1>8
  <2>1. n \in Nat /\ DOMAIN topic[t] = 1 .. n /\ DOMAIN topic'[t] = 1 .. n + 1
    BY <1>6, <1>8, <1>9, <2>0
  <2>2. Len(topic'[t]) = n + 1 /\ Len(outcome'[t]) = n + 1
    BY <1>6, <1>7, <1>9, <2>0
  <2>3. \A o \in 1 .. n : topic'[t][o] = topic[t][o] /\ outcome'[t][o] = outcome[t][o]
    BY <1>6, <1>7, <1>9, <2>0
  <2>4. topic'[t][n + 1] = e.message /\ outcome'[t][n + 1] = "pending"
    BY <1>6, <1>7, <1>9, <2>0
  <2>5. 1 .. n \subseteq 1 .. n + 1 /\ (1 .. n + 1) \ (1 .. n) = {n + 1}
    BY <2>1
  <2>6. Len(outcome'[t]) = Len(topic'[t]) /\ Len(topic[t]) <= Len(topic'[t])
    BY <2>0, <2>2
  <2>7. \A o \in DOMAIN topic[t] :
           /\ o \in DOMAIN topic'[t] /\ topic'[t][o] = topic[t][o]
           /\ outcome'[t][o] = outcome[t][o]
    BY <2>1, <2>3, <2>5
  <2>8. \A o \in DOMAIN topic'[t] \ DOMAIN topic[t] : o = n + 1
    BY <2>1, <2>5
  <2> QED
    BY <1>9, <2>4, <2>6, <2>7, <2>8
<1>10. CASE t # e.topic
  BY <1>2, <1>3, <1>8, <1>10
<1> QED
  BY <1>9, <1>10

(* The end of an attempt touches neither the topics nor the tables.        *)
LEMMA EndOfAttemptEffect ==
    ASSUME TypeOK, OffsetsAreValid, NEW t \in Topics, EndOfAttempt(t)
    PROVE  /\ AtWork(t)
           /\ UNCHANGED <<requests, topic, tables, tasks>>
           /\ Ends(t, {"stored", "dropped"})
           /\ Commit(t) \/ Ends(t, {"dropped"})
<1>1. AtWork(t) /\ UNCHANGED <<requests, topic, tables, tasks>>
  BY DEF EndOfAttempt, DecodeFails, BeginFails, SaveFails, GiveUp, CommitFails, Commit,
         AllWritten, AtWork
<1>2. Retry(t) \/ (Commit(t) /\ Finish(t, "stored"))
  BY DEF EndOfAttempt, DecodeFails, BeginFails, SaveFails, GiveUp, CommitFails, Commit
<1>3. CASE Retry(t)
  <2>1. Ends(t, {"dropped"})
    BY <1>1, <1>3, RetryEnds
  <2> QED
    BY <1>1, <2>1 DEF Ends
<1>4. CASE Commit(t) /\ Finish(t, "stored")
  <2>1. Ends(t, {"stored"})
    BY <1>1, <1>4, FinishEnds
  <2> QED
    BY <1>1, <1>4, <2>1 DEF Ends
<1> QED
  BY <1>2, <1>3, <1>4

(* Subscribing keeps every outcome but the pending ones.                   *)
LEMMA SubscribeEffect ==
    ASSUME TypeOK, NEW t \in Topics, Subscribe(t)
    PROVE  /\ \A u \in Topics : Len(outcome'[u]) = Len(outcome[u])
           /\ \A u \in Topics : DOMAIN outcome'[u] = DOMAIN outcome[u]
           /\ \A u \in Topics : \A o \in DOMAIN outcome[u] :
                 outcome'[u][o] \in {outcome[u][o], "skipped"}
<1> DEFINE s == [o \in DOMAIN outcome[t] |->
                   IF outcome[t][o] = "pending" THEN "skipped" ELSE outcome[t][o]]
<1>1. outcome[t] \in Seq(Outcomes)
  BY DEF TypeOK
<1>2. DOMAIN outcome[t] = 1 .. Len(outcome[t]) /\ Len(outcome[t]) \in Nat
  BY <1>1, LenProperties
<1>3. outcome'[t] = s /\ \A u \in Topics \ {t} : outcome'[u] = outcome[u]
  BY DEF Subscribe, TypeOK
<1>4. Len(s) = Len(outcome[t])
  BY <1>2
<1> QED
  BY <1>3, <1>4
-----------------------------------------------------------------------------
(* No step removes a campaign, a location, a status log or a message: this *)
(* is what makes the promises about earlier messages last.                 *)

LEMMA RowsStay ==
    ASSUME TypeOK, OffsetsAreValid, MessagesAreWellFormed, [Next]_vars,
           NEW id \in Ids, Exists(id)
    PROVE  Exists(id)'
<1>1. CASE \E t \in Topics : Save(t)
  <2>1. PICK t \in Topics : Save(t)
    BY <1>1
  <2>2. Written(t, Current(t)) \in Row
    BY <2>1, WrittenIsRow DEF Save, AtWork
  <2>3. Written(t, Current(t)) # NoRow
    BY <2>2, WritePathAssumption
  <2>4. Current(t).id \in Ids
    BY <2>1, CurrentIsMessage DEF Save, AtWork, Message
  <2> QED
    BY <2>1, <2>3, <2>4 DEF Save, Exists, TypeOK
<1>2. CASE UNCHANGED campaigns
  BY <1>2 DEF Exists
<1>3. (\E t \in Topics : Save(t)) \/ UNCHANGED campaigns
  BY StepCases, AcceptsEffect, ProducerEffect, EndOfAttemptEffect
     DEF tables, Subscribe, SubscribeFails, Poll, Begin, RunTask, FailTask, Crash, vars
<1> QED
  BY <1>1, <1>2, <1>3

LEMMA MessagesStay ==
    ASSUME TypeOK, OffsetsAreValid, [Next]_vars,
           NEW t \in Topics, NEW o \in DOMAIN topic[t]
    PROVE  o \in DOMAIN topic'[t] /\ topic'[t][o] = topic[t][o]
<1>1. UNCHANGED topic \/ \E e \in outbox : Appended(e)
  BY StepCases, AcceptsEffect, ProducerEffect, EndOfAttemptEffect
     DEF log, Subscribe, SubscribeFails, Poll, Begin, Save, RunTask, FailTask, Crash, vars
<1> QED
  BY <1>1, AppendedEffect

LEMMA LocationsAndLogsStay ==
    ASSUME TypeOK, OffsetsAreValid, TasksHaveRows, [Next]_vars, NEW id \in Ids
    PROVE  /\ locations[id] # << >> => locations'[id] # << >>
           /\ \A t \in Topics : statusLogs[t][id] > 0 => statusLogs'[t][id] > 0
<1>1. CASE \E task \in tasks : RunTask(task)
  <2>1. PICK task \in tasks : RunTask(task)
    BY <1>1
  <2> DEFINE m == topic[task.topic][task.offset]
  <2>2. task.topic \in Topics /\ m \in Message
    <3>1. task.topic \in Topics /\ task.offset \in DOMAIN topic[task.topic]
      BY DEF TypeOK, Task, TasksHaveRows
    <3>2. topic[task.topic] \in Seq(Message)
      BY <3>1 DEF TypeOK
    <3> QED
      BY <3>1, <3>2
  <2>3. CASE task.kind = "location"
    <3>1. statusLogs' = statusLogs
      BY <2>1, <2>3 DEF RunTask
    <3>2. locations' = [locations EXCEPT ![m.id] = Moved(task, m)]
      BY <2>1, <2>3 DEF RunTask
    <3>3. CASE m.id = id /\ locations[id] # << >>
      <4>1. locations[id] \in Seq(Values)
        BY DEF TypeOK
      <4>2. Append(locations[id], m.location) # << >>
        BY <4>1
      <4>3. [i \in DOMAIN locations[id] |-> m.location] # << >>
        <5>1. 1 \in DOMAIN locations[id]
          BY <3>3, <4>1
        <5> QED
          BY <5>1
      <4> QED
        BY <3>1, <3>2, <3>3, <4>2, <4>3 DEF Moved, TypeOK
    <3>4. CASE m.id # id
      BY <3>1, <3>2, <3>4 DEF TypeOK
    <3> QED
      BY <3>1, <3>3, <3>4
  <2>4. CASE task.kind # "location"
    <3>1. locations' = locations
      BY <2>1, <2>4 DEF RunTask
    <3>2. statusLogs' = [statusLogs EXCEPT ![task.topic][m.id] = @ + 1]
      BY <2>1, <2>4 DEF RunTask
    <3>3. m.id \in Ids
      BY <2>2 DEF Message
    <3>4. \A t \in Topics : statusLogs[t] \in [Ids -> Nat] /\ statusLogs[t][id] \in Nat
      BY DEF TypeOK
    <3>5. \A t \in Topics : statusLogs'[t][id] \in {statusLogs[t][id], statusLogs[t][id] + 1}
      BY <2>2, <3>2, <3>3, <3>4 DEF TypeOK
    <3> QED
      BY <3>1, <3>4, <3>5
  <2> QED
    BY <2>3, <2>4
<1>2. CASE UNCHANGED <<locations, statusLogs>>
  BY <1>2
<1>3. (\E task \in tasks : RunTask(task)) \/ UNCHANGED <<locations, statusLogs>>
  BY StepCases, AcceptsEffect, ProducerEffect, EndOfAttemptEffect
     DEF tables, Subscribe, SubscribeFails, Poll, Begin, Save, FailTask, Crash, vars
<1> QED
  BY <1>1, <1>2, <1>3
-----------------------------------------------------------------------------
(* The conjuncts of the invariant, one by one.                             *)

LEMMA OffsetsAreKept ==
    ASSUME TypeOK, OffsetsAreValid, [Next]_vars
    PROVE  OffsetsAreValid'
<1> SUFFICES ASSUME NEW u \in Topics
             PROVE  /\ Len(outcome'[u]) = Len(topic'[u])
                    /\ pc'[u] \in {"decoding", "saving", "waiting"}
                          => offset'[u] <= Len(topic'[u])
  BY DEF OffsetsAreValid
<1>1. /\ Len(outcome[u]) = Len(topic[u])
      /\ AtWork(u) => offset[u] <= Len(topic[u])
      /\ offset[u] \in Nat /\ Len(topic[u]) \in Nat
  BY DEF OffsetsAreValid, AtWork, TypeOK
<1>2. CASE UNCHANGED <<topic, outcome, pc, offset>>
  BY <1>1, <1>2 DEF AtWork
<1>3. CASE Producer
  <2>1. CASE UNCHANGED log
    BY <1>1, <1>3, <2>1, ProducerEffect DEF AtWork, log, consumers
  <2>2. CASE \E e \in outbox : Appended(e)
    <3>1. /\ Len(outcome'[u]) = Len(topic'[u])
          /\ Len(topic[u]) <= Len(topic'[u])
          /\ Len(topic'[u]) \in Nat
      <4>1. topic' \in [Topics -> Seq(Message)]
        BY <2>2, AppendedTypes
      <4> QED
        BY <2>2, <4>1, AppendedEffect
    <3>2. UNCHANGED <<pc, offset>>
      BY <1>3, ProducerEffect DEF consumers
    <3> QED
      BY <1>1, <3>1, <3>2 DEF AtWork
  <2> QED
    BY <1>3, <2>1, <2>2, ProducerEffect
<1>4. ASSUME NEW t \in Topics, Subscribe(t)
      PROVE  /\ Len(outcome'[u]) = Len(topic'[u])
             /\ AtWork(u)' => offset'[u] <= Len(topic'[u])
  <2>1. Len(outcome'[u]) = Len(outcome[u]) /\ topic' = topic
    BY <1>4, SubscribeEffect DEF Subscribe
  <2>2. AtWork(u)' => AtWork(u) /\ offset'[u] = offset[u]
    BY <1>4 DEF Subscribe, AtWork, TypeOK
  <2> QED
    BY <1>1, <2>1, <2>2
<1>5. ASSUME NEW t \in Topics, SubscribeFails(t) \/ Poll(t) \/ Begin(t) \/ Save(t)
      PROVE  /\ Len(outcome'[u]) = Len(topic'[u])
             /\ AtWork(u)' => offset'[u] <= Len(topic'[u])
  <2>1. UNCHANGED <<topic, outcome, offset>>
    BY <1>5 DEF SubscribeFails, Poll, Begin, Save, log
  <2>2. AtWork(u)' => AtWork(u) \/ (u = t /\ Poll(t))
    BY <1>5 DEF SubscribeFails, Poll, Begin, Save, AtWork, TypeOK
  <2> QED
    BY <1>1, <2>1, <2>2 DEF Poll
<1>6. ASSUME NEW t \in Topics, EndOfAttempt(t)
      PROVE  /\ Len(outcome'[u]) = Len(topic'[u])
             /\ AtWork(u)' => offset'[u] <= Len(topic'[u])
  <2>1. AtWork(t) /\ topic' = topic /\ Ends(t, {"stored", "dropped"})
    BY <1>6, EndOfAttemptEffect
  <2>2. AtWork(u)' => AtWork(u) /\ offset'[u] = offset[u]
    BY <2>1 DEF Ends, AtWork
  <2> QED
    BY <1>1, <2>1, <2>2 DEF Ends
<1>7. CASE Crash
  BY <1>1, <1>7 DEF Crash, log
<1>8. CASE \E task \in tasks : RunTask(task) \/ FailTask(task)
  BY <1>2, <1>8 DEF RunTask, FailTask, log, consumers
<1> QED
  BY <1>2, <1>3, <1>4, <1>5, <1>6, <1>7, <1>8, StepCases, AcceptsEffect
     DEF log, consumers, vars, AtWork

(* A message that is well formed once the step is taken.                   *)
StaysWellFormed(t, m) ==
    /\ t = Create => m.columns \in Row /\ m.location \in Values
    /\ t = Update => campaigns'[m.id] # NoRow

LEMMA MessagesAreKept ==
    ASSUME TypeOK, OffsetsAreValid, MessagesAreWellFormed, [Next]_vars
    PROVE  MessagesAreWellFormed'
<1> SUFFICES /\ \A e \in outbox' : StaysWellFormed(e.topic, e.message)
             /\ \A t \in Topics : \A o \in DOMAIN topic'[t] :
                   StaysWellFormed(t, topic'[t][o])
  BY DEF MessagesAreWellFormed, WellFormed, StaysWellFormed, Exists
<1>1. ASSUME NEW t \in Topics, NEW m \in Message, WellFormed(t, m)
      PROVE  StaysWellFormed(t, m)
  BY <1>1, RowsStay DEF WellFormed, StaysWellFormed, Exists, Message
<1>2. \A e \in outbox : e.topic \in Topics /\ e.message \in Message
  BY DEF TypeOK, Envelope
<1>3. \A t \in Topics : \A o \in DOMAIN topic[t] : topic[t][o] \in Message
  <2>1. \A t \in Topics : topic[t] \in Seq(Message)
    BY DEF TypeOK
  <2> QED
    BY <2>1
<1>4. \A e \in outbox : StaysWellFormed(e.topic, e.message)
  BY <1>1, <1>2 DEF MessagesAreWellFormed
<1>5. \A t \in Topics : \A o \in DOMAIN topic[t] : StaysWellFormed(t, topic[t][o])
  BY <1>1, <1>3 DEF MessagesAreWellFormed
<1>6. CASE Accepts
  <2>1. \A e \in outbox' : StaysWellFormed(e.topic, e.message)
    BY <1>4, <1>6, AcceptsEffect DEF WellFormed, StaysWellFormed, Exists, tables
  <2> QED
    BY <1>5, <1>6, <2>1, AcceptsEffect DEF log
<1>7. CASE Producer
  <2>1. outbox' \subseteq outbox
    BY <1>7, ProducerEffect
  <2>2. ASSUME NEW t \in Topics, NEW o \in DOMAIN topic'[t]
        PROVE  StaysWellFormed(t, topic'[t][o])
    <3>1. CASE UNCHANGED log
      BY <1>5, <2>2, <3>1 DEF log
    <3>2. ASSUME NEW e \in outbox, Appended(e)
          PROVE  StaysWellFormed(t, topic'[t][o])
      <4>1. CASE o \in DOMAIN topic[t]
        BY <1>5, <3>2, <4>1, AppendedEffect
      <4>2. CASE o \notin DOMAIN topic[t]
        <5>1. t = e.topic /\ topic'[t][o] = e.message
          BY <2>2, <3>2, <4>2, AppendedEffect
        <5> QED
          BY <1>4, <5>1
      <4> QED
        BY <4>1, <4>2
    <3> QED
      BY <1>7, <3>1, <3>2, ProducerEffect
  <2> QED
    BY <1>4, <2>1, <2>2
<1>8. CASE UNCHANGED topic /\ outbox' \subseteq outbox
  BY <1>4, <1>5, <1>8
<1>9. Accepts \/ Producer \/ (UNCHANGED topic /\ outbox' \subseteq outbox)
  BY StepCases, EndOfAttemptEffect
     DEF requests, log, Subscribe, SubscribeFails, Poll, Begin, Save, RunTask, FailTask,
         Crash, vars
<1> QED
  BY <1>6, <1>7, <1>8, <1>9

LEMMA TasksAreKept ==
    ASSUME TypeOK, OffsetsAreValid, MessagesAreWellFormed, TasksHaveRows, [Next]_vars
    PROVE  TasksHaveRows'
<1>1. ASSUME NEW task \in tasks
      PROVE  /\ task.offset \in DOMAIN topic'[task.topic]
             /\ Exists(MessageOf(task).id)'
             /\ task.kind = "location" => MessageOf(task)'.location # NoLocation
  <2>1. task.topic \in Topics /\ task.offset \in DOMAIN topic[task.topic]
    BY DEF TypeOK, Task, TasksHaveRows
  <2>2. /\ task.offset \in DOMAIN topic'[task.topic]
        /\ MessageOf(task)' = MessageOf(task)
    BY <2>1, MessagesStay DEF MessageOf
  <2>3. topic[task.topic] \in Seq(Message)
    BY <2>1 DEF TypeOK
  <2>4. MessageOf(task) \in Message
    BY <2>1, <2>3 DEF MessageOf
  <2>5. MessageOf(task).id \in Ids
    BY <2>4 DEF Message
  <2>6. Exists(MessageOf(task).id)
    BY DEF TasksHaveRows
  <2>7. campaigns'[MessageOf(task).id] # NoRow
    BY <2>5, <2>6, RowsStay DEF Exists
  <2> QED
    BY <2>2, <2>7 DEF TasksHaveRows, Exists
<1>2. CASE tasks' \subseteq tasks
  BY <1>1, <1>2 DEF TasksHaveRows
<1>3. ASSUME NEW t \in Topics, Save(t)
      PROVE  TasksHaveRows'
  <2>1. AtWork(t) /\ tasks' = tasks \union NewTasks(t) /\ topic' = topic
    BY <1>3 DEF Save, AtWork, log
  <2>2. /\ offset[t] \in DOMAIN topic[t]
        /\ Current(t).id \in Ids
        /\ Written(t, Current(t)) \in Row
    BY <2>1, CurrentIsMessage, WrittenIsRow DEF Message
  <2>3. campaigns'[Current(t).id] # NoRow
    BY <1>3, <2>2, WritePathAssumption DEF Save, TypeOK
  <2>4. \A task \in NewTasks(t) :
           /\ task.topic = t
           /\ task.offset = offset[t]
           /\ task.kind = "location" => Current(t).location # NoLocation
    BY DEF NewTasks
  <2> QED
    BY <1>1, <2>1, <2>2, <2>3, <2>4 DEF TasksHaveRows, Exists, MessageOf, Current
<1>4. (\E t \in Topics : Save(t)) \/ tasks' \subseteq tasks
  BY StepCases, AcceptsEffect, ProducerEffect, EndOfAttemptEffect
     DEF Subscribe, SubscribeFails, Poll, Begin, RunTask, FailTask, Crash, vars
<1> QED
  BY <1>2, <1>3, <1>4

(* What a write goroutine writes, and where.                               *)
LEMMA RunTaskEffect ==
    ASSUME TypeOK, TasksHaveRows, NEW task \in tasks, RunTask(task)
    PROVE  /\ task.topic \in Topics /\ MessageOf(task).id \in Ids
           /\ task.kind = "log" => statusLogs'[task.topic][MessageOf(task).id] > 0
           /\ task.kind = "location" /\ task.topic = Create
                 => locations'[MessageOf(task).id] # << >>
           /\ \A id \in Ids \ {MessageOf(task).id} :
                 /\ locations'[id] = locations[id]
                 /\ \A t \in Topics : statusLogs'[t][id] = statusLogs[t][id]
<1> DEFINE m == MessageOf(task)
<1>1. task.topic \in Topics /\ m \in Message /\ m.id \in Ids
  <2>1. task.topic \in Topics /\ task.offset \in DOMAIN topic[task.topic]
    BY DEF TypeOK, Task, TasksHaveRows
  <2>2. topic[task.topic] \in Seq(Message)
    BY <2>1 DEF TypeOK
  <2>3. m \in Message
    BY <2>1, <2>2 DEF MessageOf
  <2> QED
    BY <2>1, <2>3 DEF Message
<1>2. CASE task.kind = "location"
  <2>1. statusLogs' = statusLogs /\ locations' = [locations EXCEPT ![m.id] = Moved(task, m)]
    BY <1>2 DEF RunTask, MessageOf
  <2>2. task.topic = Create => locations'[m.id] # << >>
    <3>1. locations[m.id] \in Seq(Values)
      BY <1>1 DEF TypeOK
    <3>2. m.location \in Values \union {NoLocation}
      BY <1>1 DEF Message
    <3>3. locations[m.id] \in Seq(Values \union {NoLocation})
      BY <3>1, SeqMonotonic
    <3>4. Append(locations[m.id], m.location) # << >>
      BY <3>2, <3>3, AppendProperties
    <3> QED
      BY <1>1, <2>1, <3>4 DEF Moved, TypeOK
  <2> HIDE DEF m
  <2>3. \A id \in Ids \ {m.id} : locations'[id] = locations[id]
    BY <1>1, <2>1 DEF TypeOK
  <2> QED
    BY <1>1, <1>2, <2>1, <2>2, <2>3 DEF m
<1>3. CASE task.kind # "location"
  <2>1. /\ locations' = locations
        /\ statusLogs' = [statusLogs EXCEPT ![task.topic][m.id] = @ + 1]
    BY <1>3 DEF RunTask, MessageOf
  <2> HIDE DEF m
  <2>2. statusLogs[task.topic] \in [Ids -> Nat] /\ statusLogs[task.topic][m.id] \in Nat
    BY <1>1 DEF TypeOK
  <2>3. statusLogs'[task.topic][m.id] > 0
    BY <1>1, <2>1, <2>2 DEF TypeOK
  <2>4. \A id \in Ids \ {m.id}, t \in Topics : statusLogs'[t][id] = statusLogs[t][id]
    BY <1>1, <2>1, <2>2 DEF TypeOK
  <2> QED
    BY <1>1, <1>3, <2>1, <2>3, <2>4 DEF m
<1> QED
  BY <1>2, <1>3

(* How a consumer comes to wait, or goes on waiting.                       *)
GoesOnWaiting(u) ==
    /\ pc[u] = "waiting"
    /\ offset'[u] = offset[u]
    /\ attempt'[u] = attempt[u]
    /\ \/ tasks \subseteq tasks' /\ failed'[u] = failed[u]
       \/ \E task \in tasks : RunTask(task) \/ FailTask(task)

LEMMA WaitingCases ==
    ASSUME TypeOK, OffsetsAreValid, [Next]_vars, NEW u \in Topics, pc'[u] = "waiting"
    PROVE  Save(u) \/ GoesOnWaiting(u)
<1>1. /\ pc \in [Topics -> States] /\ offset \in [Topics -> Nat \ {0}]
      /\ attempt \in [Topics -> 1 .. MaxRetries] /\ failed \in [Topics -> BOOLEAN]
  BY DEF TypeOK
<1>2. CASE Accepts \/ Producer
  BY <1>2, AcceptsEffect, ProducerEffect DEF GoesOnWaiting, consumers
<1>3. ASSUME NEW t \in Topics, Subscribe(t) \/ SubscribeFails(t) \/ Poll(t) \/ Begin(t)
      PROVE  GoesOnWaiting(u)
  BY <1>1, <1>3 DEF GoesOnWaiting, Subscribe, SubscribeFails, Poll, Begin
<1>4. ASSUME NEW t \in Topics, Save(t)
      PROVE  Save(u) \/ GoesOnWaiting(u)
  BY <1>1, <1>4 DEF GoesOnWaiting, Save
<1>5. ASSUME NEW t \in Topics, EndOfAttempt(t)
      PROVE  GoesOnWaiting(u)
  <2>1. Ends(t, {"stored", "dropped"}) /\ tasks' = tasks
    BY <1>5, EndOfAttemptEffect
  <2>2. u # t /\ pc[u] = "waiting" /\ offset'[u] = offset[u] /\ attempt'[u] = attempt[u]
    BY <2>1 DEF Ends
  <2>3. failed'[u] = failed[u]
    BY <1>1, <1>5, <2>2
       DEF EndOfAttempt, DecodeFails, BeginFails, SaveFails, GiveUp, CommitFails, Commit
  <2> QED
    BY <2>1, <2>2, <2>3 DEF GoesOnWaiting
<1>6. CASE \E task \in tasks : RunTask(task) \/ FailTask(task)
  BY <1>6 DEF GoesOnWaiting, RunTask, FailTask, consumers
<1>7. CASE Crash
  BY <1>7 DEF Crash
<1>8. CASE UNCHANGED vars
  BY <1>8 DEF GoesOnWaiting, vars, consumers
<1> QED
  BY <1>2, <1>3, <1>4, <1>5, <1>6, <1>7, <1>8, StepCases

(* What WaitingIsAccountedFor asks of a consumer after the step.           *)
WillBeAccountedFor(u, m) ==
    /\ campaigns'[m.id] # NoRow
    /\ \/ failed'[u]
       \/ [topic |-> u, offset |-> offset'[u], attempt |-> attempt'[u], kind |-> "log"]
             \in tasks'
       \/ statusLogs'[u][m.id] > 0
    /\ u = Create =>
          \/ failed'[u]
          \/ [topic |-> u, offset |-> offset'[u], attempt |-> attempt'[u],
              kind |-> "location"] \in tasks'
          \/ locations'[m.id] # << >>

(* A goroutine of the current attempt goes on, or leaves what it wrote, or *)
(* an error.                                                               *)
TasksOrTraces(u, m) ==
    /\ failed[u] => failed'[u]
    /\ TaskOf(u, "log") \in tasks =>
          failed'[u] \/ TaskOf(u, "log") \in tasks' \/ statusLogs'[u][m.id] > 0
    /\ u = Create /\ TaskOf(u, "location") \in tasks =>
          failed'[u] \/ TaskOf(u, "location") \in tasks' \/ locations'[m.id] # << >>

LEMMA WaitingIsKept ==
    ASSUME TypeOK, OffsetsAreValid, MessagesAreWellFormed, TasksHaveRows,
           WaitingIsAccountedFor, [Next]_vars
    PROVE  WaitingIsAccountedFor'
<1> SUFFICES ASSUME NEW u \in Topics, pc'[u] = "waiting"
             PROVE  WillBeAccountedFor(u, topic'[u][offset'[u]])
  BY DEF WaitingIsAccountedFor, WillBeAccountedFor, TaskOf, Current, Exists
<1> DEFINE m == Current(u)
<1>1. CASE Save(u)
  <2>1. AtWork(u) /\ tasks' = tasks \union NewTasks(u) /\ topic' = topic
        /\ offset' = offset /\ attempt' = attempt
    BY <1>1 DEF Save, AtWork, log
  <2>2. /\ offset[u] \in DOMAIN topic[u]
        /\ m \in Message /\ m.id \in Ids
        /\ Written(u, m) \in Row
    BY <2>1, CurrentIsMessage, WrittenIsRow DEF Message
  <2>3. campaigns'[m.id] # NoRow
    BY <1>1, <2>2, WritePathAssumption DEF Save, TypeOK
  <2>4. TaskOf(u, "log") \in NewTasks(u)
    BY DEF TaskOf, NewTasks
  <2>5. u = Create => TaskOf(u, "location") \in NewTasks(u)
    <3>1. u = Create => m.location # NoLocation
      BY <2>2, WritePathAssumption DEF MessagesAreWellFormed, WellFormed, Current
    <3> QED
      BY <3>1 DEF TaskOf, NewTasks
  <2> QED
    BY <2>1, <2>3, <2>4, <2>5 DEF WillBeAccountedFor, TaskOf, Current
<1>2. CASE GoesOnWaiting(u)
  <2>1. /\ AtWork(u) /\ offset'[u] = offset[u] /\ attempt'[u] = attempt[u]
        /\ pc[u] = "waiting"
    BY <1>2 DEF GoesOnWaiting, AtWork
  <2>2. m \in Message /\ m.id \in Ids /\ offset[u] \in DOMAIN topic[u]
    BY <2>1, CurrentIsMessage DEF Message
  <2>3. topic'[u][offset'[u]] = m
    BY <2>1, <2>2, MessagesStay DEF Current
  <2>4. /\ Exists(m.id)
        /\ failed[u] \/ TaskOf(u, "log") \in tasks \/ statusLogs[u][m.id] > 0
        /\ u = Create =>
              failed[u] \/ TaskOf(u, "location") \in tasks \/ locations[m.id] # << >>
    BY <2>1 DEF WaitingIsAccountedFor
  <2>5. /\ campaigns'[m.id] # NoRow
        /\ statusLogs[u][m.id] > 0 => statusLogs'[u][m.id] > 0
        /\ locations[m.id] # << >> => locations'[m.id] # << >>
    BY <2>2, <2>4, RowsStay, LocationsAndLogsStay DEF Exists
  <2>6. TasksOrTraces(u, m)
    <3>1. CASE tasks \subseteq tasks' /\ failed'[u] = failed[u]
      BY <3>1 DEF TasksOrTraces
    <3>3. ASSUME NEW task \in tasks, FailTask(task)
          PROVE  TasksOrTraces(u, m)
      <4>1. tasks' = tasks \ {task} /\ task.topic \in Topics
        BY <3>3 DEF FailTask, TypeOK, Task
      <4>2. failed[u] => failed'[u]
        BY <3>3, <4>1 DEF FailTask, TypeOK
      <4>3. \A k \in {"log", "location"} : task = TaskOf(u, k) => failed'[u]
        <5> SUFFICES ASSUME NEW k \in {"log", "location"}, task = TaskOf(u, k)
                     PROVE  failed'[u]
          OBVIOUS
        <5>1. task.topic = u /\ IsCurrent(task)
          BY <2>1 DEF TaskOf, IsCurrent
        <5> QED
          BY <3>3, <5>1 DEF FailTask, TypeOK
      <4> HIDE DEF m
      <4> QED
        BY <4>1, <4>2, <4>3 DEF TasksOrTraces
    <3>2. ASSUME NEW task \in tasks, RunTask(task)
          PROVE  TasksOrTraces(u, m)
      <4>1. failed' = failed /\ tasks' = tasks \ {task}
        BY <3>2 DEF RunTask, consumers
      <4>2. task = TaskOf(u, "log") => statusLogs'[u][m.id] > 0
        BY <3>2, RunTaskEffect DEF TaskOf, MessageOf, Current
      <4>3. u = Create /\ task = TaskOf(u, "location") => locations'[m.id] # << >>
        BY <3>2, RunTaskEffect DEF TaskOf, MessageOf, Current
      <4> HIDE DEF m
      <4> QED
        BY <4>1, <4>2, <4>3 DEF TasksOrTraces
    <3> QED
      BY <1>2, <3>1, <3>2, <3>3 DEF GoesOnWaiting
  <2>7. TaskOf(u, "log")
          = [topic |-> u, offset |-> offset'[u], attempt |-> attempt'[u], kind |-> "log"]
        /\ TaskOf(u, "location")
             = [topic |-> u, offset |-> offset'[u], attempt |-> attempt'[u],
                kind |-> "location"]
    BY <2>1 DEF TaskOf
  <2> HIDE DEF m
  <2> QED
    BY <2>3, <2>4, <2>5, <2>6, <2>7 DEF WillBeAccountedFor, TasksOrTraces
<1> QED
  BY <1>1, <1>2, WaitingCases

LEMMA FailureIsKeptRolledBack ==
    ASSUME TypeOK, OffsetsAreValid, FailureIsRolledBack, [Next]_vars
    PROVE  FailureIsRolledBack'
<1> SUFFICES ASSUME NEW u \in Topics, failed'[u]
             PROVE  pc'[u] = "waiting" /\ tx'[u] = "none"
  BY DEF FailureIsRolledBack
<1>1. /\ pc \in [Topics -> States] /\ tx \in [Topics -> {"none", "open"}]
      /\ failed \in [Topics -> BOOLEAN]
      /\ failed[u] => pc[u] = "waiting" /\ tx[u] = "none"
  BY DEF TypeOK, FailureIsRolledBack
<1>2. CASE UNCHANGED consumers
  BY <1>1, <1>2 DEF consumers
<1>3. ASSUME NEW t \in Topics,
             Subscribe(t) \/ SubscribeFails(t) \/ Poll(t) \/ Begin(t) \/ Save(t)
      PROVE  pc'[u] = "waiting" /\ tx'[u] = "none"
  BY <1>1, <1>3 DEF Subscribe, SubscribeFails, Poll, Begin, Save
<1>4. ASSUME NEW t \in Topics, EndOfAttempt(t)
      PROVE  pc'[u] = "waiting" /\ tx'[u] = "none"
  <2>1. Ends(t, {"stored", "dropped"})
    BY <1>4, EndOfAttemptEffect
  <2>2. ~failed'[t]
    <3>1. CASE DecodeFails(t) \/ BeginFails(t) \/ SaveFails(t)
      <4>1. pc[t] # "waiting" /\ failed' = failed
        BY <3>1 DEF DecodeFails, BeginFails, SaveFails
      <4> QED
        BY <4>1 DEF FailureIsRolledBack
    <3>2. CASE GiveUp(t)
      BY <1>1, <3>2 DEF GiveUp
    <3>3. CASE CommitFails(t) \/ Commit(t)
      BY <3>3 DEF CommitFails, Commit, AllWritten
    <3> QED
      BY <1>4, <3>1, <3>2, <3>3 DEF EndOfAttempt
  <2>3. u # t => failed'[u] = failed[u] /\ tx'[u] = tx[u] /\ pc'[u] = pc[u]
    <3>1. u # t => failed'[u] = failed[u] /\ tx'[u] = tx[u]
      BY <1>1, <1>4
         DEF EndOfAttempt, DecodeFails, BeginFails, SaveFails, GiveUp, CommitFails, Commit
    <3> QED
      BY <2>1, <3>1 DEF Ends
  <2> QED
    BY <1>1, <2>2, <2>3
<1>5. ASSUME NEW task \in tasks, FailTask(task)
      PROVE  pc'[u] = "waiting" /\ tx'[u] = "none"
  <2>1. CASE IsCurrent(task) /\ task.topic = u
    BY <1>1, <1>5, <2>1 DEF FailTask, IsCurrent
  <2>2. CASE ~(IsCurrent(task) /\ task.topic = u)
    <3>1. failed'[u] = failed[u] /\ tx'[u] = tx[u] /\ pc' = pc
      BY <1>1, <1>5, <2>2 DEF FailTask
    <3> QED
      BY <1>1, <3>1
  <2> QED
    BY <2>1, <2>2
<1>6. CASE Crash
  BY <1>6 DEF Crash
<1> QED
  BY <1>2, <1>3, <1>4, <1>5, <1>6, StepCases, AcceptsEffect, ProducerEffect
     DEF RunTask, vars

LEMMA IdleIsKept ==
    ASSUME TypeOK, OffsetsAreValid, FailureIsRolledBack, IdleHoldsNoTransaction,
           [Next]_vars
    PROVE  IdleHoldsNoTransaction'
<1> SUFFICES ASSUME NEW u \in Topics, tx'[u] = "open"
             PROVE  pc'[u] \in {"saving", "waiting"}
  BY DEF IdleHoldsNoTransaction
<1>1. /\ pc \in [Topics -> States] /\ tx \in [Topics -> {"none", "open"}]
      /\ tx[u] = "open" => pc[u] \in {"saving", "waiting"}
  BY DEF TypeOK, IdleHoldsNoTransaction
<1>2. CASE UNCHANGED consumers
  BY <1>1, <1>2 DEF consumers
<1>3. ASSUME NEW t \in Topics,
             Subscribe(t) \/ SubscribeFails(t) \/ Poll(t) \/ Begin(t) \/ Save(t)
      PROVE  pc'[u] \in {"saving", "waiting"}
  BY <1>1, <1>3 DEF Subscribe, SubscribeFails, Poll, Begin, Save
<1>4. ASSUME NEW t \in Topics, EndOfAttempt(t)
      PROVE  pc'[u] \in {"saving", "waiting"}
  <2>1. Ends(t, {"stored", "dropped"})
    BY <1>4, EndOfAttemptEffect
  <2>2. tx'[t] # "open"
    <3>1. CASE DecodeFails(t) \/ BeginFails(t)
      <4>1. pc[t] = "decoding" /\ tx' = tx
        BY <3>1 DEF DecodeFails, BeginFails
      <4> QED
        BY <4>1 DEF IdleHoldsNoTransaction
    <3>2. CASE GiveUp(t)
      BY <3>2 DEF GiveUp, FailureIsRolledBack
    <3>3. CASE SaveFails(t) \/ CommitFails(t) \/ Commit(t)
      BY <1>1, <3>3 DEF SaveFails, CommitFails, Commit
    <3> QED
      BY <1>4, <3>1, <3>2, <3>3 DEF EndOfAttempt
  <2>3. u # t => tx'[u] = tx[u] /\ pc'[u] = pc[u]
    <3>1. u # t => tx'[u] = tx[u]
      BY <1>1, <1>4
         DEF EndOfAttempt, DecodeFails, BeginFails, SaveFails, GiveUp, CommitFails, Commit
    <3> QED
      BY <2>1, <3>1 DEF Ends
  <2> QED
    BY <1>1, <2>2, <2>3
<1>5. ASSUME NEW task \in tasks, FailTask(task)
      PROVE  pc'[u] \in {"saving", "waiting"}
  <2>1. tx'[u] \in {tx[u], "none"} /\ pc' = pc
    BY <1>1, <1>5 DEF FailTask
  <2> QED
    BY <1>1, <2>1
<1>6. CASE Crash
  BY <1>6 DEF Crash
<1> QED
  BY <1>2, <1>3, <1>4, <1>5, <1>6, StepCases, AcceptsEffect, ProducerEffect
     DEF RunTask, vars

LEMMA NoOrphansAreMade ==
    ASSUME TypeOK, OffsetsAreValid, MessagesAreWellFormed, TasksHaveRows, NoOrphans,
           [Next]_vars
    PROVE  NoOrphans'
<1> SUFFICES ASSUME NEW id \in Ids,
                    locations'[id] # << >> \/ (\E t \in Topics : statusLogs'[t][id] > 0)
             PROVE  Exists(id)'
  BY DEF NoOrphans, Exists
<1>1. CASE \E task \in tasks : RunTask(task)
  <2>1. PICK task \in tasks : RunTask(task)
    BY <1>1
  <2>2. CASE id = MessageOf(task).id
    <3>1. Exists(id)
      BY <2>2 DEF TasksHaveRows
    <3> QED
      BY <3>1, RowsStay
  <2>3. CASE id # MessageOf(task).id
    <3>1. locations'[id] = locations[id] /\ \A t \in Topics : statusLogs'[t][id] = statusLogs[t][id]
      BY <2>1, <2>3, RunTaskEffect
    <3>2. Exists(id)
      BY <3>1 DEF NoOrphans
    <3> QED
      BY <3>2, RowsStay
  <2> QED
    BY <2>2, <2>3
<1>2. CASE UNCHANGED <<locations, statusLogs>>
  <2>1. Exists(id)
    BY <1>2 DEF NoOrphans
  <2> QED
    BY <2>1, RowsStay
<1>3. (\E task \in tasks : RunTask(task)) \/ UNCHANGED <<locations, statusLogs>>
  BY StepCases, AcceptsEffect, ProducerEffect, EndOfAttemptEffect
     DEF tables, Subscribe, SubscribeFails, Poll, Begin, Save, FailTask, Crash, vars
<1> QED
  BY <1>1, <1>2, <1>3

(* What StoredIsComplete asks of a campaign.                               *)
Complete(t, id) ==
    /\ statusLogs[t][id] > 0
    /\ t = Create => Exists(id) /\ locations[id] # << >>

WillBeComplete(t, id) ==
    /\ statusLogs'[t][id] > 0
    /\ t = Create => campaigns'[id] # NoRow /\ locations'[id] # << >>

(* Only a commit stores a message, and all it waited for is written then.  *)
LEMMA OnlyCommitStores ==
    ASSUME TypeOK, OffsetsAreValid, [Next]_vars,
           NEW t \in Topics, NEW o \in DOMAIN outcome'[t], outcome'[t][o] = "stored"
    PROVE  /\ o \in DOMAIN outcome[t] /\ o \in DOMAIN topic[t]
           /\ Stored(t, o) \/ (Commit(t) /\ o = offset[t])
<1>1. \A u \in Topics :
         /\ outcome[u] \in Seq(Outcomes) /\ topic[u] \in Seq(Message)
         /\ DOMAIN outcome[u] = 1 .. Len(outcome[u])
         /\ DOMAIN topic[u] = DOMAIN outcome[u]
         /\ Len(outcome[u]) \in Nat
  <2> SUFFICES ASSUME NEW u \in Topics
               PROVE  /\ outcome[u] \in Seq(Outcomes) /\ topic[u] \in Seq(Message)
                      /\ DOMAIN outcome[u] = 1 .. Len(outcome[u])
                      /\ DOMAIN topic[u] = DOMAIN outcome[u]
                      /\ Len(outcome[u]) \in Nat
    OBVIOUS
  <2>1. outcome[u] \in Seq(Outcomes) /\ topic[u] \in Seq(Message)
    BY DEF TypeOK
  <2>2. Len(outcome[u]) = Len(topic[u])
    BY DEF OffsetsAreValid
  <2> QED
    BY <2>1, <2>2, LenProperties
<1>2. CASE outcome' = outcome
  BY <1>1, <1>2 DEF Stored
<1>3. ASSUME NEW e \in outbox, Appended(e)
      PROVE  o \in DOMAIN outcome[t] /\ Stored(t, o)
  <2>1. o \in DOMAIN topic'[t]
    <3>1. topic'[t] \in Seq(Message) /\ outcome'[t] \in Seq(Outcomes)
      BY <1>3, AppendedTypes
    <3>2. Len(outcome'[t]) = Len(topic'[t])
      BY <1>3, AppendedEffect
    <3> QED
      BY <3>1, <3>2, LenProperties
  <2>2. o \in DOMAIN topic[t]
    BY <1>3, <2>1, AppendedEffect
  <2> QED
    BY <1>1, <1>3, <2>2, AppendedEffect DEF Stored
<1>4. ASSUME NEW u \in Topics, Subscribe(u)
      PROVE  o \in DOMAIN outcome[t] /\ Stored(t, o)
  <2>1. o \in DOMAIN outcome[t] /\ outcome'[t][o] \in {outcome[t][o], "skipped"}
    BY <1>4, SubscribeEffect
  <2> QED
    BY <2>1 DEF Stored
<1>5. ASSUME NEW u \in Topics, EndOfAttempt(u)
      PROVE  o \in DOMAIN outcome[t] /\ (Stored(t, o) \/ (Commit(t) /\ o = offset[t]))
  <2>1. /\ Ends(u, {"stored", "dropped"})
        /\ Commit(u) \/ Ends(u, {"dropped"})
    BY <1>5, EndOfAttemptEffect
  <2>2. DOMAIN outcome'[t] = DOMAIN outcome[t]
    <3>1. outcome'[t] \in Seq(Outcomes) /\ Len(outcome'[t]) = Len(outcome[t])
      BY <2>1 DEF Ends
    <3> QED
      BY <1>1, <3>1, LenProperties
  <2>3. \/ outcome'[t][o] = outcome[t][o]
        \/ t = u /\ o = offset[u]
    <3>1. o \in 1 .. Len(outcome[t])
      BY <1>1, <2>2
    <3>2. \A p \in 1 .. Len(outcome[t]) :
             outcome'[t][p] = outcome[t][p] \/ (t = u /\ p = offset[u])
      BY <2>1 DEF Ends
    <3> QED
      BY <3>1, <3>2
  <2>4. Ends(u, {"dropped"}) => outcome'[t][o] = outcome[t][o]
    BY <1>1, <2>2 DEF Ends
  <2> QED
    BY <2>1, <2>2, <2>3, <2>4 DEF Stored
<1>6. \/ outcome' = outcome
      \/ \E e \in outbox : Appended(e)
      \/ \E u \in Topics : Subscribe(u) \/ EndOfAttempt(u)
  BY StepCases, AcceptsEffect, ProducerEffect
     DEF log, SubscribeFails, Poll, Begin, Save, RunTask, FailTask, Crash, vars
<1> QED
  BY <1>1, <1>2, <1>3, <1>4, <1>5, <1>6

LEMMA StoredIsKeptComplete ==
    ASSUME TypeOK, OffsetsAreValid, MessagesAreWellFormed, TasksHaveRows,
           WaitingIsAccountedFor, StoredIsComplete, [Next]_vars
    PROVE  StoredIsComplete'
<1> SUFFICES ASSUME NEW t \in Topics, NEW o \in DOMAIN outcome'[t],
                    outcome'[t][o] = "stored"
             PROVE  WillBeComplete(t, topic'[t][o].id)
  BY DEF StoredIsComplete, Stored, WillBeComplete, Exists
<1> DEFINE id == topic[t][o].id
<1>1. /\ o \in DOMAIN outcome[t] /\ o \in DOMAIN topic[t]
      /\ Stored(t, o) \/ (Commit(t) /\ o = offset[t])
  BY OnlyCommitStores
<1>2. topic'[t][o] = topic[t][o]
  BY <1>1, MessagesStay
<1>3. id \in Ids
  <2>1. topic[t] \in Seq(Message)
    BY DEF TypeOK
  <2>2. topic[t][o] \in Message
    BY <1>1, <2>1
  <2> QED
    BY <2>2 DEF Message
<1>4. Complete(t, id)
  <2>1. CASE Stored(t, o)
    BY <1>1, <2>1 DEF StoredIsComplete, Complete
  <2>2. CASE Commit(t) /\ o = offset[t]
    <3>1. /\ pc[t] = "waiting" /\ ~failed[t]
          /\ TaskOf(t, "log") \notin tasks
          /\ TaskOf(t, "location") \notin tasks
      BY <2>2 DEF Commit, AllWritten, IsCurrent, TaskOf
    <3> QED
      BY <2>2, <3>1 DEF WaitingIsAccountedFor, Complete, Current
  <2> QED
    BY <1>1, <2>1, <2>2
<1> HIDE DEF id
<1>5. WillBeComplete(t, id)
  BY <1>3, <1>4, RowsStay, LocationsAndLogsStay DEF Complete, WillBeComplete, Exists
<1> QED
  BY <1>2, <1>5 DEF id
-----------------------------------------------------------------------------
(* The invariant holds initially and every step keeps it.                  *)

LEMMA InitEstablishesInvariant ==
    ASSUME Init
    PROVE  WritePathInvariant
<1>1. TypeOK
  BY WritePathAssumption, EmptyMapIsPartial
     DEF Init, TypeOK, States, MaxRetries
<1>2. OffsetsAreValid /\ MessagesAreWellFormed /\ StoredIsComplete
  BY DEF Init, OffsetsAreValid, MessagesAreWellFormed, StoredIsComplete
<1>3. TasksHaveRows /\ WaitingIsAccountedFor /\ FailureIsRolledBack
        /\ IdleHoldsNoTransaction
  BY DEF Init, TasksHaveRows, WaitingIsAccountedFor, FailureIsRolledBack,
         IdleHoldsNoTransaction
<1>4. NoOrphans
  BY DEF Init, NoOrphans
<1> QED
  BY <1>1, <1>2, <1>3, <1>4 DEF WritePathInvariant

LEMMA StepKeepsInvariant ==
    ASSUME WritePathInvariant, [Next]_vars
    PROVE  WritePathInvariant'
<1>1. /\ TypeOK /\ OffsetsAreValid /\ MessagesAreWellFormed /\ TasksHaveRows
      /\ WaitingIsAccountedFor /\ FailureIsRolledBack /\ StoredIsComplete /\ NoOrphans
      /\ IdleHoldsNoTransaction
  BY DEF WritePathInvariant
<1>2. /\ TypeOK' /\ OffsetsAreValid' /\ MessagesAreWellFormed' /\ TasksHaveRows'
      /\ WaitingIsAccountedFor' /\ FailureIsRolledBack' /\ StoredIsComplete'
      /\ NoOrphans' /\ IdleHoldsNoTransaction'
  BY <1>1, TypeIsKept, OffsetsAreKept, MessagesAreKept, TasksAreKept, WaitingIsKept,
     FailureIsKeptRolledBack, StoredIsKeptComplete, NoOrphansAreMade, IdleIsKept
<1> QED
  BY <1>2 DEF WritePathInvariant

(* The inductive invariant holds in every reachable state.                 *)
THEOREM InvariantHolds == Spec => []WritePathInvariant
<1>1. Init => WritePathInvariant
  BY InitEstablishesInvariant
<1>2. WritePathInvariant /\ [Next]_vars => WritePathInvariant'
  BY StepKeepsInvariant
<1> QED
  BY <1>1, <1>2, PTL DEF Spec

(* The variables keep their types: rows are whole rows, no attempt is past *)
(* MaxRetries, a consumer's offset is a number.                            *)
THEOREM TypeCorrect == Spec => []TypeOK
<1>1. WritePathInvariant => TypeOK
  BY DEF WritePathInvariant
<1> QED
  BY <1>1, InvariantHolds, PTL

(* A message counted as stored has its campaign, location and status log   *)
(* in the database, whatever failed or crashed before.                     *)
THEOREM StoredMeansComplete == Spec => []StoredIsComplete
<1>1. WritePathInvariant => StoredIsComplete
  BY DEF WritePathInvariant
<1> QED
  BY <1>1, InvariantHolds, PTL

(* No location and no status log is left without its campaign, although    *)
(* no rollback undoes anything.                                            *)
THEOREM NothingIsOrphaned == Spec => []NoOrphans
<1>1. WritePathInvariant => NoOrphans
  BY DEF WritePathInvariant
<1> QED
  BY <1>1, InvariantHolds, PTL

(* Every way an attempt can end closes its transaction.                    *)
THEOREM TransactionsAreClosed == Spec => []IdleHoldsNoTransaction
<1>1. WritePathInvariant => IdleHoldsNoTransaction
  BY DEF WritePathInvariant
<1> QED
  BY <1>1, InvariantHolds, PTL
=============================================================================

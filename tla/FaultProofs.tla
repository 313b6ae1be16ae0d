---------------------------- MODULE FaultProofs ----------------------------
(***************************************************************************)
(* What failures can and cannot do to CampaignWritePath, by counting: each *)
(* stored message has a status log of its own, each drop has cost          *)
(* MaxRetries failures, each location a try, and each location after the   *)
(* first a failure; and where there were none, a create is saved once and  *)
(* a stored update stays.                                                  *)
(*                                                                         *)
(* Every count is a bound between what was written and what may yet be     *)
(* written on the one hand, and what allows it on the other; a step that   *)
(* adds to the first adds to the second.                                   *)
(***************************************************************************)
EXTENDS DeliveryProofs, FiniteSetTheorems

(* Counting what is added to a set, and what is taken from it.             *)
LEMMA SubsetCounts ==
    ASSUME NEW S, IsFiniteSet(S), NEW T, T \subseteq S
    PROVE  /\ IsFiniteSet(T)
           /\ Cardinality(T) \in Nat /\ Cardinality(S) \in Nat
           /\ Cardinality(T) <= Cardinality(S)
BY FS_Subset, FS_CardinalityType

LEMMA OneMoreCounts ==
    ASSUME NEW S, IsFiniteSet(S), NEW x, NEW T, T \subseteq S \union {x}
    PROVE  /\ IsFiniteSet(T)
           /\ Cardinality(T) \in Nat /\ Cardinality(S) \in Nat
           /\ Cardinality(T) <= Cardinality(S) + 1
<1>1. /\ IsFiniteSet(S \union {x})
      /\ Cardinality(S) \in Nat
      /\ Cardinality(S \union {x}) \in {Cardinality(S), Cardinality(S) + 1}
  BY FS_AddElement, FS_CardinalityType
<1>2. Cardinality(T) <= Cardinality(S \union {x}) /\ IsFiniteSet(T) /\ Cardinality(T) \in Nat
  BY <1>1, SubsetCounts
<1> QED
  BY <1>1, <1>2

LEMMA OneLessCounts ==
    ASSUME NEW S, IsFiniteSet(S), NEW x \in S, NEW T, T \subseteq S \ {x}
    PROVE  /\ IsFiniteSet(T)
           /\ Cardinality(T) \in Nat /\ Cardinality(S) \in Nat
           /\ Cardinality(T) + 1 <= Cardinality(S)
<1>1. /\ IsFiniteSet(S \ {x})
      /\ Cardinality(S) \in Nat
      /\ Cardinality(S \ {x}) = Cardinality(S) - 1
  BY FS_RemoveElement, FS_CardinalityType
<1>2. Cardinality(T) <= Cardinality(S \ {x}) /\ IsFiniteSet(T) /\ Cardinality(T) \in Nat
  BY <1>1, SubsetCounts
<1> QED
  BY <1>1, <1>2

(* Failures are counted, never forgotten.                                  *)
LEMMA FaultsGrow ==
    ASSUME [Next]_vars
    PROVE  faults' = faults \/ faults' = faults + 1
BY StepCases
   DEF Accepts, AcceptCreate, AcceptUpdate, Accept, LookUpName, Producer, Publish,
       PublishUnacknowledged, PublishFails, Subscribe, SubscribeFails, Poll, Begin, Save,
       EndOfAttempt, DecodeFails, BeginFails, SaveFails, GiveUp, CommitFails, Commit,
       RunTask, FailTask, Crash, Fault, vars

LEMMA OffsetsAreFinite ==
    ASSUME TypeOK, OffsetsAreValid, NEW t \in Topics
    PROVE  /\ DOMAIN topic[t] = DOMAIN outcome[t]
           /\ DOMAIN topic[t] = 1 .. Len(topic[t]) /\ Len(topic[t]) \in Nat
           /\ IsFiniteSet(DOMAIN topic[t])
<1>1. topic[t] \in Seq(Message) /\ outcome[t] \in Seq(Outcomes) /\ Len(outcome[t]) = Len(topic[t])
  BY DEF TypeOK, OffsetsAreValid
<1>2. /\ DOMAIN topic[t] = 1 .. Len(topic[t]) /\ Len(topic[t]) \in Nat
      /\ DOMAIN topic[t] = DOMAIN outcome[t]
  BY <1>1, LenProperties
<1>3. IsFiniteSet(1 .. Len(topic[t]))
  BY <1>2, FS_Interval
<1> QED
  BY <1>2, <1>3
-----------------------------------------------------------------------------
(* The status logs.  A message that is stored has its log, and so has one  *)
(* whose consumer waits with its log goroutine gone and no error.          *)
StoredOf(t, id) == {o \in DOMAIN outcome[t] : Stored(t, o) /\ topic[t][o].id = id}

IsLogged(t, id) ==
    /\ pc[t] = "waiting" /\ ~failed[t]
    /\ TaskOf(t, "log") \notin tasks
    /\ Current(t).id = id

LogsCover ==
    \A t \in Topics, id \in Ids :
        Cardinality(StoredOf(t, id)) + (IF IsLogged(t, id) THEN 1 ELSE 0) <= statusLogs[t][id]

LEMMA StoredGrowsByCommit ==
    ASSUME TypeOK, OffsetsAreValid, [Next]_vars, NEW t \in Topics, NEW id
    PROVE  /\ IsFiniteSet(StoredOf(t, id))
           /\ StoredOf(t, id)' \subseteq StoredOf(t, id) \union {offset[t]}
           /\ ~(Commit(t) /\ Current(t).id = id) => StoredOf(t, id)' \subseteq StoredOf(t, id)
<1>1. IsFiniteSet(StoredOf(t, id))
  BY OffsetsAreFinite, SubsetCounts DEF StoredOf
<1>2. ASSUME NEW o \in StoredOf(t, id)'
      PROVE  \/ o \in StoredOf(t, id)
             \/ Commit(t) /\ o = offset[t] /\ Current(t).id = id
  <2>1. o \in DOMAIN outcome'[t] /\ outcome'[t][o] = "stored" /\ topic'[t][o].id = id
    BY <1>2 DEF StoredOf, Stored
  <2>2. /\ o \in DOMAIN outcome[t] /\ o \in DOMAIN topic[t]
        /\ Stored(t, o) \/ (Commit(t) /\ o = offset[t])
    BY <2>1, OnlyCommitStores
  <2>3. topic[t][o].id = id
    BY <2>1, <2>2, MessagesStay
  <2> QED
    BY <2>2, <2>3 DEF StoredOf, Current
<1> QED
  BY <1>1, <1>2

(* A log goroutine adds one log, and nothing takes one away.               *)
LEMMA LogsGrow ==
    ASSUME TypeOK, OffsetsAreValid, TasksHaveRows, [Next]_vars, NEW t \in Topics, NEW id \in Ids
    PROVE  /\ statusLogs[t][id] \in Nat /\ statusLogs'[t][id] \in Nat
           /\ statusLogs[t][id] <= statusLogs'[t][id]
           /\ \A task \in tasks :
                 RunTask(task) /\ task.kind = "log" /\ task.topic = t /\ MessageOf(task).id = id
                    => statusLogs'[t][id] = statusLogs[t][id] + 1
<1>1. statusLogs \in [Topics -> [Ids -> Nat]]
  BY DEF TypeOK
<1>2. ASSUME NEW task \in tasks, RunTask(task)
      PROVE  /\ statusLogs'[t][id] \in {statusLogs[t][id], statusLogs[t][id] + 1}
             /\ task.kind = "log" /\ task.topic = t /\ MessageOf(task).id = id
                   => statusLogs'[t][id] = statusLogs[t][id] + 1
  <2> DEFINE i == MessageOf(task).id
  <2>1. task.topic \in Topics /\ i \in Ids /\ task.kind \in {"location", "log"}
    BY <1>2, RunTaskEffect DEF TypeOK, Task
  <2>2. CASE task.kind = "location"
    BY <1>2, <2>2 DEF RunTask
  <2>3. CASE task.kind = "log"
    <3>1. statusLogs' = [statusLogs EXCEPT ![task.topic][i] = @ + 1]
      BY <1>2, <2>3 DEF RunTask, MessageOf
    <3> HIDE DEF i
    <3>2. statusLogs'[t][id] = IF t = task.topic /\ id = i THEN statusLogs[t][id] + 1
                               ELSE statusLogs[t][id]
      BY <1>1, <2>1, <3>1
    <3> QED
      BY <3>2 DEF i
  <2> QED
    BY <2>1, <2>2, <2>3
<1>3. CASE \E task \in tasks : RunTask(task)
  <2>1. statusLogs[t][id] \in Nat
    BY <1>1
  <2> QED
    BY <1>2, <1>3, <2>1
<1>4. CASE UNCHANGED statusLogs
  <2>1. statusLogs[t][id] \in Nat
    BY <1>1
  <2> QED
    BY <1>2, <1>4, <2>1
<1>5. (\E task \in tasks : RunTask(task)) \/ UNCHANGED statusLogs
  BY StepCases, AcceptsEffect, ProducerEffect, EndOfAttemptEffect
     DEF tables, Subscribe, SubscribeFails, Poll, Begin, Save, FailTask, Crash, vars
<1> QED
  BY <1>3, <1>4, <1>5
(* A consumer whose message is logged after the step had it logged before, *)
(* or its log goroutine wrote in the step.                                 *)
LEMMA LoggedCases ==
    ASSUME TypeOK, OffsetsAreValid, TasksHaveRows, [Next]_vars,
           NEW t \in Topics, NEW id, IsLogged(t, id)'
    PROVE  \/ IsLogged(t, id)
           \/ \E task \in tasks : /\ RunTask(task) /\ task.kind = "log" /\ task.topic = t
                                  /\ MessageOf(task).id = id
<1>1. /\ pc'[t] = "waiting" /\ ~failed'[t]
      /\ [topic |-> t, offset |-> offset'[t], attempt |-> attempt'[t], kind |-> "log"]
            \notin tasks'
      /\ topic'[t][offset'[t]].id = id
  BY DEF IsLogged, TaskOf, Current
<1>2. ~Save(t)
  <2>1. ASSUME Save(t)
        PROVE  FALSE
    <3>1. tasks' = tasks \union NewTasks(t) /\ offset' = offset /\ attempt' = attempt
      BY <2>1 DEF Save
    <3>2. TaskOf(t, "log") \in NewTasks(t)
      BY DEF NewTasks, TaskOf
    <3> QED
      BY <1>1, <3>1, <3>2 DEF TaskOf
  <2> QED
    BY <2>1
<1>3. GoesOnWaiting(t)
  BY <1>1, <1>2, WaitingCases
<1>4. TaskOf(t, "log") \notin tasks'
  BY <1>1, <1>3 DEF GoesOnWaiting, TaskOf
<1>5. Current(t).id = id
  <2>1. offset[t] \in DOMAIN topic[t]
    BY <1>3, CurrentIsMessage DEF GoesOnWaiting, AtWork
  <2>2. topic'[t][offset[t]] = topic[t][offset[t]]
    BY <2>1, MessagesStay
  <2> QED
    BY <1>1, <1>3, <2>2 DEF Current, GoesOnWaiting
<1>6. CASE tasks \subseteq tasks' /\ failed'[t] = failed[t]
  BY <1>1, <1>3, <1>4, <1>5, <1>6 DEF IsLogged, GoesOnWaiting
<1>7. ASSUME NEW task \in tasks, RunTask(task)
      PROVE  \/ IsLogged(t, id)
             \/ task.kind = "log" /\ task.topic = t /\ MessageOf(task).id = id
  <2>1. tasks' = tasks \ {task} /\ failed' = failed
    BY <1>7 DEF RunTask, consumers
  <2>2. CASE task = TaskOf(t, "log")
    BY <1>5, <2>2 DEF TaskOf, MessageOf, Current
  <2>3. CASE task # TaskOf(t, "log")
    BY <1>1, <1>3, <1>4, <1>5, <2>1, <2>3 DEF IsLogged, GoesOnWaiting
  <2> QED
    BY <2>2, <2>3
<1>8. ASSUME NEW task \in tasks, FailTask(task)
      PROVE  IsLogged(t, id)
  <2>1. tasks' = tasks \ {task}
    BY <1>8 DEF FailTask
  <2>2. ~(IsCurrent(task) /\ task.topic = t) /\ ~failed[t]
    BY <1>1, <1>8 DEF FailTask, TypeOK
  <2>3. task # TaskOf(t, "log")
    BY <1>3, <2>2 DEF TaskOf, IsCurrent, GoesOnWaiting
  <2> QED
    BY <1>3, <1>4, <1>5, <2>1, <2>2, <2>3 DEF IsLogged, GoesOnWaiting
<1> QED
  BY <1>3, <1>6, <1>7, <1>8 DEF GoesOnWaiting

LEMMA LogsKeepCovering ==
    ASSUME TypeOK, OffsetsAreValid, TasksHaveRows, LogsCover, [Next]_vars
    PROVE  LogsCover'
<1> SUFFICES ASSUME NEW t \in Topics, NEW id \in Ids
             PROVE  Cardinality(StoredOf(t, id)') + (IF IsLogged(t, id)' THEN 1 ELSE 0)
                       <= statusLogs'[t][id]
  BY DEF LogsCover
<1>1. /\ statusLogs[t][id] \in Nat /\ statusLogs'[t][id] \in Nat
      /\ statusLogs[t][id] <= statusLogs'[t][id]
      /\ \A task \in tasks :
            RunTask(task) /\ task.kind = "log" /\ task.topic = t /\ MessageOf(task).id = id
               => statusLogs'[t][id] = statusLogs[t][id] + 1
  BY LogsGrow
<1>2. /\ IsFiniteSet(StoredOf(t, id))
      /\ StoredOf(t, id)' \subseteq StoredOf(t, id) \union {offset[t]}
      /\ ~(Commit(t) /\ Current(t).id = id) => StoredOf(t, id)' \subseteq StoredOf(t, id)
  BY StoredGrowsByCommit
<1>3. Cardinality(StoredOf(t, id)) + (IF IsLogged(t, id) THEN 1 ELSE 0) <= statusLogs[t][id]
  BY DEF LogsCover
<1>4. /\ Cardinality(StoredOf(t, id)) \in Nat /\ Cardinality(StoredOf(t, id)') \in Nat
      /\ Cardinality(StoredOf(t, id)') <= Cardinality(StoredOf(t, id)) + 1
  BY <1>2, OneMoreCounts
<1>5. CASE Commit(t) /\ Current(t).id = id
  <2>1. IsLogged(t, id)
    BY <1>5 DEF IsLogged, Commit, AllWritten, IsCurrent, TaskOf
  <2>2. ~IsLogged(t, id)'
    BY <1>5 DEF IsLogged, Commit, Finish, TypeOK
  <2> QED
    BY <1>1, <1>3, <1>4, <2>1, <2>2
<1>6. CASE ~(Commit(t) /\ Current(t).id = id)
  <2>1. Cardinality(StoredOf(t, id)') <= Cardinality(StoredOf(t, id))
    BY <1>2, <1>6, SubsetCounts
  <2>2. CASE IsLogged(t, id)'
    BY <1>1, <1>3, <1>4, <2>1, <2>2, LoggedCases
  <2>3. CASE ~IsLogged(t, id)'
    BY <1>1, <1>3, <1>4, <2>1, <2>3
  <2> QED
    BY <2>2, <2>3
<1> QED
  BY <1>5, <1>6

(* The status logs are a complete record of what was stored: each stored   *)
(* message of a campaign has one of its own, whatever failed, was tried    *)
(* again or restarted.                                                     *)
THEOREM StoredMessagesAreLogged == Spec => []EveryStoredMessageIsLogged
<1>1. Init => LogsCover
  <2> SUFFICES ASSUME Init, NEW t \in Topics, NEW id \in Ids
               PROVE  Cardinality(StoredOf(t, id)) + (IF IsLogged(t, id) THEN 1 ELSE 0)
                         <= statusLogs[t][id]
    BY DEF LogsCover
  <2>1. StoredOf(t, id) = {} /\ ~IsLogged(t, id) /\ statusLogs[t][id] = 0
    BY DEF Init, StoredOf, IsLogged
  <2> QED
    BY <2>1, FS_EmptySet
<1>2. WritePathInvariant /\ LogsCover /\ [Next]_vars => LogsCover'
  BY LogsKeepCovering DEF WritePathInvariant
<1>3. WritePathInvariant /\ LogsCover => EveryStoredMessageIsLogged
  <2> SUFFICES ASSUME TypeOK, OffsetsAreValid, LogsCover, NEW t \in Topics, NEW id \in Ids
               PROVE  Cardinality(StoredOf(t, id)) <= statusLogs[t][id]
    BY DEF WritePathInvariant, EveryStoredMessageIsLogged, StoredOf
  <2>1. Cardinality(StoredOf(t, id)) \in Nat /\ statusLogs[t][id] \in Nat
    BY OffsetsAreFinite, SubsetCounts DEF StoredOf, TypeOK
  <2> QED
    BY <2>1 DEF LogsCover
<1> QED
  BY <1>1, <1>2, <1>3, InvariantHolds, PTL DEF Spec
-----------------------------------------------------------------------------
(* The drops.  Each cost MaxRetries failures; those of the attempts at the *)
(* message a consumer is at have not been charged to a drop yet.           *)
Dropped ==
    {e \in Topics \X (1 .. MaxRequests + MaxFaults) :
        /\ e[2] \in DOMAIN outcome[e[1]]
        /\ outcome[e[1]][e[2]] = "dropped"
        /\ topic[e[1]][e[2]].readable}

Failures(t) == IF failed[t] THEN 1 ELSE 0

Spent(t) ==
    IF AtWork(t) /\ Current(t).readable THEN attempt[t] - 1 + Failures(t) ELSE 0

FaultsCover == MaxRetries * Cardinality(Dropped) + Spent(Create) + Spent(Update) <= faults

LEMMA DroppedIsFinite == IsFiniteSet(Dropped)
<1>1. IsFiniteSet(Topics)
  <2>1. IsFiniteSet({Create})
    BY FS_Singleton
  <2>2. Topics = {Create} \union {Update}
    BY DEF Topics
  <2> QED
    BY <2>1, <2>2, FS_AddElement
<1>2. IsFiniteSet(1 .. MaxRequests + MaxFaults)
  BY WritePathAssumption, FS_Interval
<1>3. IsFiniteSet(Topics \X (1 .. MaxRequests + MaxFaults))
  BY <1>1, <1>2, FS_Product
<1> QED
  BY <1>3, FS_Subset DEF Dropped

LEMMA SpentIsNat ==
    ASSUME TypeOK, NEW t \in Topics
    PROVE  Spent(t) \in Nat
<1>1. attempt[t] \in 1 .. 3 /\ Failures(t) \in {0, 1}
  BY DEF TypeOK, MaxRetries, Failures
<1> QED
  BY <1>1 DEF Spent

LEMMA SpentIsNatAfter ==
    ASSUME TypeOK', NEW t \in Topics
    PROVE  Spent(t)' \in Nat
<1>1. attempt'[t] \in 1 .. 3 /\ Failures(t)' \in {0, 1}
  BY DEF TypeOK, MaxRetries, Failures
<1> QED
  BY <1>1 DEF Spent

(* A step that leaves a consumer alone leaves what it has spent.           *)
LEMMA SpentIsKept ==
    ASSUME TypeOK, OffsetsAreValid, [Next]_vars, NEW t \in Topics,
           UNCHANGED <<pc[t], offset[t], attempt[t], failed[t]>>
    PROVE  Spent(t)' = Spent(t)
<1>1. AtWork(t)' <=> AtWork(t)
  BY DEF AtWork
<1>2. AtWork(t) => Current(t)' = Current(t)
  BY CurrentIsMessage, MessagesStay DEF Current
<1>3. Failures(t)' = Failures(t)
  BY DEF Failures
<1> QED
  BY <1>1, <1>2, <1>3 DEF Spent

(* A failed attempt moves its failure from the channel, or from the call   *)
(* that made it, to the attempts spent; the last one drops the message.    *)
LEMMA RetrySpends ==
    ASSUME TypeOK, OffsetsAreValid, NEW t \in Topics, AtWork(t), Retry(t),
           topic' = topic, ~failed'[t], faults' \in Nat, faults <= faults',
           Current(t).readable => faults + 1 <= faults' + Failures(t)
    PROVE  \/ /\ outcome' = outcome
              /\ Spent(t)' + faults <= Spent(t) + faults'
           \/ /\ Finish(t, "dropped")
              /\ Spent(t)' = 0
              /\ Current(t).readable => MaxRetries + faults <= Spent(t) + faults'
<1>1. /\ attempt[t] \in 1 .. 3 /\ faults \in Nat /\ faults' \in Nat /\ faults <= faults'
      /\ Failures(t) \in {0, 1} /\ Failures(t)' = 0
  BY DEF TypeOK, MaxRetries, Failures
<1>2. CASE attempt[t] < MaxRetries
  <2>1. /\ attempt'[t] = attempt[t] + 1 /\ pc'[t] = "decoding"
        /\ offset' = offset /\ outcome' = outcome
    BY <1>2 DEF Retry, TypeOK
  <2>2. Current(t)' = Current(t)
    BY <2>1 DEF Current
  <2>3. Spent(t)' = IF Current(t).readable THEN attempt[t] ELSE 0
    BY <1>1, <2>1, <2>2 DEF Spent, AtWork
  <2>4. Spent(t) = IF Current(t).readable THEN attempt[t] - 1 + Failures(t) ELSE 0
    BY DEF Spent
  <2>5. CASE Current(t).readable
    <3>1. Spent(t)' = attempt[t] /\ Spent(t) = attempt[t] - 1 + Failures(t)
      BY <2>3, <2>4, <2>5
    <3>2. faults + 1 <= faults' + Failures(t)
      BY <2>5
    <3>3. Spent(t)' + faults <= Spent(t) + faults'
      BY <1>1, <3>1, <3>2
    <3> QED
      BY <2>1, <3>3
  <2>6. CASE ~Current(t).readable
    <3>1. Spent(t)' = Spent(t) /\ Spent(t) \in Nat
      BY <2>3, <2>4, <2>6
    <3>2. Spent(t)' + faults <= Spent(t) + faults'
      BY <1>1, <3>1
    <3> QED
      BY <2>1, <3>2
  <2> QED
    BY <2>5, <2>6
<1>3. CASE attempt[t] = MaxRetries
  <2>1. Finish(t, "dropped") /\ pc'[t] = "polling"
    BY <1>3 DEF Retry, Finish, TypeOK
  <2>2. Spent(t)' = 0
    BY <2>1 DEF Spent, AtWork
  <2> QED
    BY <1>1, <1>3, <2>1, <2>2 DEF Spent, MaxRetries
<1> QED
  BY <1>1, <1>2, <1>3 DEF MaxRetries

LEMMA EndSpends ==
    ASSUME TypeOK, OffsetsAreValid, FailureIsRolledBack, NEW t \in Topics,
           EndOfAttempt(t), faults' \in Nat
    PROVE  \/ /\ outcome' = outcome
              /\ Spent(t)' + faults <= Spent(t) + faults'
           \/ Finish(t, "stored") /\ Spent(t)' = 0 /\ faults <= faults'
           \/ /\ Finish(t, "dropped")
              /\ Spent(t)' = 0 /\ faults <= faults'
              /\ Current(t).readable => MaxRetries + faults <= Spent(t) + faults'
<1>1. AtWork(t) /\ topic' = topic
  BY EndOfAttemptEffect
<1>2. failed \in [Topics -> BOOLEAN] /\ faults \in Nat
  BY DEF TypeOK
<1>3. CASE Commit(t)
  <2>1. Finish(t, "stored") /\ pc'[t] = "polling" /\ faults' = faults
    BY <1>3 DEF Commit, Finish, TypeOK
  <2> QED
    BY <1>2, <2>1 DEF Spent, AtWork
<1>4. CASE DecodeFails(t)
  <2>1. Retry(t) /\ ~Current(t).readable /\ failed' = failed /\ faults' = faults
    BY <1>4 DEF DecodeFails
  <2>2. ~failed[t] /\ ~failed'[t]
    BY <1>4, <2>1 DEF DecodeFails, FailureIsRolledBack
  <2> QED
    BY <1>1, <1>2, <2>1, <2>2, RetrySpends
<1>5. CASE BeginFails(t) \/ SaveFails(t) \/ CommitFails(t)
  <2>1. Retry(t) /\ failed' = failed /\ faults' = faults + 1
    BY <1>5 DEF BeginFails, SaveFails, CommitFails, Fault
  <2>2. ~failed[t] /\ ~failed'[t]
    BY <1>5, <2>1 DEF BeginFails, SaveFails, CommitFails, AllWritten, FailureIsRolledBack
  <2>3. Failures(t) = 0
    BY <2>2 DEF Failures
  <2> QED
    BY <1>1, <1>2, <2>1, <2>2, <2>3, RetrySpends
<1>6. CASE GiveUp(t)
  <2>1. Retry(t) /\ failed[t] /\ ~failed'[t] /\ faults' = faults
    BY <1>2, <1>6 DEF GiveUp
  <2>2. Failures(t) = 1
    BY <2>1 DEF Failures
  <2>3. faults' \in Nat /\ faults <= faults' /\ faults + 1 <= faults' + Failures(t)
    BY <1>2, <2>1, <2>2
  <2> QED
    BY <1>1, <2>1, <2>3, RetrySpends
<1> QED
  BY <1>3, <1>4, <1>5, <1>6 DEF EndOfAttempt
(* A drop is the end of an attempt.                                        *)
LEMMA DroppedByFinish ==
    ASSUME TypeOK, OffsetsAreValid, [Next]_vars, NEW e \in Dropped', e \notin Dropped
    PROVE  \E t \in Topics : /\ EndOfAttempt(t) /\ Finish(t, "dropped")
                             /\ Current(t).readable
                             /\ e = <<t, offset[t]>>
<1> DEFINE t == e[1]
           o == e[2]
<1>1. /\ e \in Topics \X (1 .. MaxRequests + MaxFaults) /\ t \in Topics /\ e = <<t, o>>
      /\ o \in DOMAIN outcome'[t]
      /\ outcome'[t][o] = "dropped" /\ topic'[t][o].readable
  BY DEF Dropped
<1> HIDE DEF t, o
<1>2. /\ DOMAIN topic[t] = DOMAIN outcome[t] /\ DOMAIN outcome[t] = 1 .. Len(outcome[t])
      /\ Len(outcome[t]) \in Nat
  BY <1>1, OffsetsAreFinite, LenProperties DEF TypeOK, OffsetsAreValid
<1>3. ASSUME o \in DOMAIN outcome[t]
      PROVE  outcome[t][o] # "dropped"
  <2>1. topic'[t][o] = topic[t][o]
    BY <1>1, <1>2, <1>3, MessagesStay
  <2> QED
    BY <1>1, <1>3, <2>1 DEF Dropped, t, o
<1>4. CASE outcome' = outcome
  BY <1>1, <1>3, <1>4
<1>5. ASSUME NEW f \in outbox, Appended(f)
      PROVE  FALSE
  <2>1. topic'[t] \in Seq(Message) /\ outcome'[t] \in Seq(Outcomes)
    BY <1>1, <1>5, AppendedTypes
  <2>2. o \in DOMAIN topic'[t]
    BY <1>1, <1>5, <2>1, AppendedEffect, LenProperties
  <2>3. CASE o \in DOMAIN topic[t]
    BY <1>1, <1>2, <1>3, <1>5, <2>3, AppendedEffect
  <2>4. CASE o \notin DOMAIN topic[t]
    BY <1>1, <1>5, <2>2, <2>4, AppendedEffect
  <2> QED
    BY <2>3, <2>4
<1>6. ASSUME NEW u \in Topics, Subscribe(u)
      PROVE  FALSE
  BY <1>1, <1>3, <1>6, SubscribeEffect
<1>7. ASSUME NEW u \in Topics, EndOfAttempt(u)
      PROVE  \/ outcome' = outcome
             \/ Finish(u, "dropped") /\ Current(u).readable /\ e = <<u, offset[u]>>
  <2>1. /\ AtWork(u) /\ topic' = topic
        /\ outcome' = outcome \/ Finish(u, "dropped") \/ Finish(u, "stored")
    BY <1>7, EndOfAttemptEffect
       DEF EndOfAttempt, DecodeFails, BeginFails, SaveFails, GiveUp, CommitFails, Commit,
           Retry
  <2>2. ASSUME NEW result \in {"stored", "dropped"}, Finish(u, result)
        PROVE  result = "dropped" /\ Current(u).readable /\ e = <<u, offset[u]>>
    <3>1. offset[u] \in 1 .. Len(outcome[u])
      BY <2>1, CurrentIsMessage, OffsetsAreFinite, LenProperties
         DEF TypeOK, OffsetsAreValid
    <3>2. /\ outcome \in [Topics -> Seq(Outcomes)] /\ result \in Outcomes
          /\ outcome' = [outcome EXCEPT ![u][offset[u]] = result]
      BY <2>2 DEF TypeOK, Finish, Outcomes
    <3>3. /\ Len(outcome'[t]) = Len(outcome[t]) /\ outcome'[t] \in Seq(Outcomes)
          /\ \A p \in 1 .. Len(outcome[t]) :
                outcome'[t][p] = IF t = u /\ p = offset[u] THEN result ELSE outcome[t][p]
      BY <1>1, <3>1, <3>2, OutcomeIsReplaced
    <3>4. o \in 1 .. Len(outcome[t])
      BY <1>1, <3>3, LenProperties
    <3>5. t = u /\ o = offset[u] /\ result = "dropped"
      BY <1>1, <1>2, <1>3, <3>3, <3>4
    <3> QED
      BY <1>1, <2>1, <3>5 DEF Current
  <2> QED
    BY <2>1, <2>2
<1>8. \/ outcome' = outcome
      \/ \E f \in outbox : Appended(f)
      \/ \E u \in Topics : Subscribe(u) \/ EndOfAttempt(u)
  BY StepCases, AcceptsEffect, ProducerEffect
     DEF log, SubscribeFails, Poll, Begin, Save, RunTask, FailTask, Crash, vars
<1> QED
  BY <1>4, <1>5, <1>6, <1>7, <1>8

(* What any other step spends, some failure pays for.                      *)
LEMMA OthersSpend ==
    ASSUME TypeOK, TypeOK', OffsetsAreValid, FailureIsRolledBack, [Next]_vars,
           ~ \E t \in Topics : EndOfAttempt(t)
    PROVE  \E t \in Topics :
              /\ Spent(t)' + faults <= Spent(t) + faults'
              /\ \A u \in Topics \ {t} : Spent(u)' <= Spent(u)
<1>1. /\ faults \in Nat /\ faults' \in Nat
      /\ \A t \in Topics : Spent(t) \in Nat /\ Spent(t)' \in Nat
  <2>1. \A t \in Topics : Spent(t) \in Nat /\ Spent(t)' \in Nat
    BY SpentIsNat, SpentIsNatAfter
  <2> QED
    BY <2>1 DEF TypeOK
<1>2. /\ pc \in [Topics -> States] /\ failed \in [Topics -> BOOLEAN]
      /\ attempt \in [Topics -> 1 .. MaxRetries]
  BY DEF TypeOK
<1>3. ASSUME NEW t \in Topics, Subscribe(t) \/ SubscribeFails(t) \/ Poll(t)
      PROVE  /\ Spent(t)' = 0 /\ faults <= faults'
             /\ \A u \in Topics \ {t} : Spent(u)' = Spent(u)
  <2>1. /\ faults <= faults' /\ pc'[t] \in {"polling", "stopped", "decoding"}
        /\ pc[t] \in {"opening", "polling"} /\ failed'[t] = failed[t]
        /\ pc'[t] = "decoding" => attempt'[t] = 1
        /\ \A u \in Topics \ {t} :
              UNCHANGED <<pc[u], offset[u], attempt[u], failed[u]>>
    BY <1>1, <1>2, <1>3 DEF Subscribe, SubscribeFails, Poll, Fault, TypeOK
  <2>2. ~failed'[t]
    BY <2>1 DEF FailureIsRolledBack
  <2>3. Spent(t)' = 0
    BY <2>1, <2>2 DEF Spent, AtWork, Failures
  <2> QED
    BY <2>1, <2>3, SpentIsKept
<1>4. ASSUME NEW t \in Topics, Begin(t) \/ Save(t)
      PROVE  faults' = faults /\ \A u \in Topics : Spent(u)' = Spent(u)
  <2>1. /\ faults' = faults /\ UNCHANGED <<topic, offset, attempt, failed>>
        /\ \A u \in Topics : AtWork(u)' <=> AtWork(u)
    BY <1>2, <1>4 DEF Begin, Save, log, AtWork
  <2>2. \A u \in Topics : Failures(u)' = Failures(u) /\ Current(u)' = Current(u)
    BY <2>1 DEF Failures, Current
  <2> QED
    BY <2>1, <2>2 DEF Spent
<1>5. ASSUME NEW task \in tasks, FailTask(task)
      PROVE  \E t \in Topics : /\ Spent(t)' + faults <= Spent(t) + faults'
                              /\ \A u \in Topics \ {t} : Spent(u)' = Spent(u)
  <2>1. /\ task.topic \in Topics /\ faults' = faults + 1
        /\ UNCHANGED <<topic, pc, offset, attempt>>
        /\ \A u \in Topics \ {task.topic} : failed'[u] = failed[u]
    BY <1>2, <1>5 DEF FailTask, Fault, log, TypeOK, Task
  <2>2. \A u \in Topics \ {task.topic} : Spent(u)' = Spent(u)
    BY <2>1, SpentIsKept
  <2>3. Spent(task.topic)' <= Spent(task.topic) + 1
    <3>1. /\ Current(task.topic)' = Current(task.topic)
          /\ AtWork(task.topic)' <=> AtWork(task.topic)
          /\ attempt'[task.topic] = attempt[task.topic]
      BY <2>1 DEF Current, AtWork
    <3>2. /\ Failures(task.topic) \in {0, 1} /\ Failures(task.topic)' \in {0, 1}
          /\ attempt[task.topic] \in 1 .. 3
      BY <1>2, <2>1 DEF Failures, MaxRetries
    <3> QED
      BY <3>1, <3>2 DEF Spent
  <2> QED
    BY <1>1, <2>1, <2>2, <2>3
<1>6. CASE \/ Accepts \/ Producer \/ UNCHANGED vars
           \/ \E task \in tasks : RunTask(task)
  <2>1. UNCHANGED consumers
    BY <1>6, AcceptsEffect, ProducerEffect DEF RunTask, vars
  <2>2. \A u \in Topics : Spent(u)' = Spent(u)
    BY <2>1, SpentIsKept DEF consumers
  <2>3. faults' = faults \/ faults' = faults + 1
    BY FaultsGrow
  <2> QED
    BY <1>1, <2>2, <2>3 DEF Topics
<1>7. CASE Crash
  <2>1. faults' = faults /\ \A u \in Topics : pc'[u] = "opening"
    BY <1>7 DEF Crash
  <2>2. \A u \in Topics : Spent(u)' = 0
    BY <2>1 DEF Spent, AtWork
  <2> QED
    BY <1>1, <2>1, <2>2 DEF Topics
<1> QED
  <2>1. ASSUME NEW t \in Topics, Subscribe(t) \/ SubscribeFails(t) \/ Poll(t)
        PROVE  /\ Spent(t)' + faults <= Spent(t) + faults'
               /\ \A u \in Topics \ {t} : Spent(u)' <= Spent(u)
    BY <1>1, <1>3, <2>1
  <2>2. ASSUME NEW t \in Topics, Begin(t) \/ Save(t)
        PROVE  /\ Spent(t)' + faults <= Spent(t) + faults'
               /\ \A u \in Topics \ {t} : Spent(u)' <= Spent(u)
    BY <1>1, <1>4, <2>2
  <2>3. ASSUME NEW task \in tasks, FailTask(task)
        PROVE  \E t \in Topics :
                  /\ Spent(t)' + faults <= Spent(t) + faults'
                  /\ \A u \in Topics \ {t} : Spent(u)' <= Spent(u)
    BY <1>1, <1>5, <2>3
  <2> QED
    BY <1>6, <1>7, <2>1, <2>2, <2>3, StepCases
LEMMA FaultsKeepCovering ==
    ASSUME TypeOK, TypeOK', OffsetsAreValid, FailureIsRolledBack, FaultsCover, [Next]_vars
    PROVE  FaultsCover'
<1>1. /\ faults \in Nat /\ faults' \in Nat
      /\ Spent(Create) \in Nat /\ Spent(Update) \in Nat
      /\ Spent(Create)' \in Nat /\ Spent(Update)' \in Nat
  <2>1. \A t \in Topics : Spent(t) \in Nat /\ Spent(t)' \in Nat
    BY SpentIsNat, SpentIsNatAfter
  <2> QED
    BY <2>1 DEF TypeOK, Topics
<1>2. 3 * Cardinality(Dropped) + Spent(Create) + Spent(Update) <= faults
  BY DEF FaultsCover, MaxRetries
<1> SUFFICES 3 * Cardinality(Dropped)' + Spent(Create)' + Spent(Update)' <= faults'
  BY DEF FaultsCover, MaxRetries
<1>3. Cardinality(Dropped) \in Nat
  BY DroppedIsFinite, FS_CardinalityType
<1>4. ASSUME Dropped' \subseteq Dropped,
             Spent(Create)' + Spent(Update)' + faults <= Spent(Create) + Spent(Update) + faults'
      PROVE  3 * Cardinality(Dropped)' + Spent(Create)' + Spent(Update)' <= faults'
  <2>1. Cardinality(Dropped') \in Nat /\ Cardinality(Dropped') <= Cardinality(Dropped)
    BY <1>4, DroppedIsFinite, SubsetCounts
  <2> QED
    BY <1>1, <1>2, <1>3, <1>4, <2>1
<1>5. ASSUME NEW t \in Topics, EndOfAttempt(t)
      PROVE  3 * Cardinality(Dropped)' + Spent(Create)' + Spent(Update)' <= faults'
  <2>1. \A u \in Topics \ {t} : Spent(u)' = Spent(u)
    <3> SUFFICES ASSUME NEW u \in Topics \ {t}
                 PROVE  Spent(u)' = Spent(u)
      OBVIOUS
    <3>1. UNCHANGED <<pc[u], offset[u]>> /\ attempt'[u] = attempt[u]
      BY <1>5, EndResolvesCurrent, EndOfAttemptEffect DEF Ends
    <3>2. failed'[u] = failed[u]
      BY <1>5 DEF TypeOK, EndOfAttempt, DecodeFails, BeginFails, SaveFails, GiveUp,
         CommitFails, Commit
    <3> QED
      BY <3>1, <3>2, SpentIsKept
  <2>2. ASSUME NEW e \in Dropped', e \notin Dropped
        PROVE  Finish(t, "dropped") /\ Current(t).readable /\ e = <<t, offset[t]>>
    <3>1. PICK u \in Topics : /\ EndOfAttempt(u) /\ Finish(u, "dropped")
                              /\ Current(u).readable
                              /\ e = <<u, offset[u]>>
      BY <2>2, DroppedByFinish
    <3>2. u = t
      <4> SUFFICES ASSUME u # t
                   PROVE  FALSE
        OBVIOUS
      <4>1. offset'[u] = offset[u]
        BY <1>5, EndResolvesCurrent
      <4>2. offset'[u] = offset[u] + 1 /\ offset[u] \in Nat
        BY <3>1 DEF Finish, TypeOK
      <4> QED
        BY <4>1, <4>2
    <3> QED
      BY <3>1, <3>2
  <2>3. CASE /\ Dropped' \subseteq Dropped
             /\ Spent(t)' + faults <= Spent(t) + faults'
    <3>1. Spent(Create)' + Spent(Update)' + faults <= Spent(Create) + Spent(Update) + faults'
      BY <1>1, <2>1, <2>3 DEF Topics, Create, Update
    <3> QED
      BY <1>4, <2>3, <3>1
  <2>4. CASE /\ Finish(t, "dropped") /\ Current(t).readable /\ Spent(t)' = 0
             /\ MaxRetries + faults <= Spent(t) + faults'
    <3>1. Spent(Create)' + Spent(Update)' + faults + 3 <= Spent(Create) + Spent(Update) + faults'
      BY <1>1, <2>1, <2>4 DEF Topics, Create, Update, MaxRetries
    <3>2. Dropped' \subseteq Dropped \union {<<t, offset[t]>>}
      BY <2>2
    <3>3. Cardinality(Dropped') \in Nat /\ Cardinality(Dropped') <= Cardinality(Dropped) + 1
      BY <3>2, DroppedIsFinite, OneMoreCounts
    <3> QED
      BY <1>1, <1>2, <1>3, <3>1, <3>3
  <2>5. Spent(t) \in Nat
    BY SpentIsNat
  <2>6. ~(Finish(t, "dropped") /\ Current(t).readable) => Dropped' \subseteq Dropped
    BY <2>2
  <2>7. Finish(t, "stored") => ~Finish(t, "dropped")
    <3> SUFFICES ASSUME Finish(t, "stored"), Finish(t, "dropped")
                 PROVE  FALSE
      OBVIOUS
    <3>1. /\ outcome \in [Topics -> Seq(Outcomes)]
          /\ outcome' = [outcome EXCEPT ![t][offset[t]] = "stored"]
          /\ outcome' = [outcome EXCEPT ![t][offset[t]] = "dropped"]
      BY DEF Finish, TypeOK
    <3>2. offset[t] \in 1 .. Len(outcome[t])
      BY <1>5, EndOfAttemptEffect, CurrentIsMessage, OffsetsAreFinite, LenProperties
         DEF TypeOK, OffsetsAreValid
    <3>3. outcome'[t][offset[t]] = "stored" /\ outcome'[t][offset[t]] = "dropped"
      BY <3>1, <3>2, OutcomeIsReplaced DEF Outcomes
    <3> QED
      BY <3>3
  <2>8. CASE /\ outcome' = outcome
             /\ Spent(t)' + faults <= Spent(t) + faults'
    <3>1. Dropped' \subseteq Dropped
      <4>1. topic' = topic
        BY <1>5, EndOfAttemptEffect
      <4> QED
        BY <2>8, <4>1 DEF Dropped
    <3> QED
      BY <2>3, <2>8, <3>1
  <2> QED
    BY <1>1, <1>5, <2>3, <2>4, <2>5, <2>6, <2>7, <2>8, EndSpends
<1>6. CASE ~ \E t \in Topics : EndOfAttempt(t)
  <2>1. Dropped' \subseteq Dropped
    BY <1>6, DroppedByFinish
  <2>2. Spent(Create)' + Spent(Update)' + faults <= Spent(Create) + Spent(Update) + faults'
    <3>1. PICK t \in Topics : /\ Spent(t)' + faults <= Spent(t) + faults'
                              /\ \A u \in Topics \ {t} : Spent(u)' <= Spent(u)
      BY <1>6, OthersSpend
    <3> QED
      BY <1>1, <3>1 DEF Topics, Create, Update
  <2> QED
    BY <1>4, <2>1, <2>2
<1> QED
  BY <1>5, <1>6

(* A readable message is lost only after MaxRetries failures of its own:   *)
(* two messages never share one, and none is lost for a failure that       *)
(* belongs to the write goroutines of an attempt already given up.         *)
THEOREM DropsAreEarned == Spec => []DropNeedsFaults
<1>1. Init => FaultsCover
  <2> SUFFICES ASSUME Init
               PROVE  MaxRetries * Cardinality(Dropped) + Spent(Create) + Spent(Update)
                         <= faults
    BY DEF FaultsCover
  <2>1. Dropped = {} /\ Spent(Create) = 0 /\ Spent(Update) = 0 /\ faults = 0
    BY DEF Init, Dropped, Spent, AtWork, Topics
  <2> QED
    BY <2>1, FS_EmptySet DEF MaxRetries
<1>2. WritePathInvariant /\ WritePathInvariant' /\ FaultsCover /\ [Next]_vars => FaultsCover'
  BY FaultsKeepCovering DEF WritePathInvariant
<1>3. WritePathInvariant /\ FaultsCover => DropNeedsFaults
  <2> SUFFICES ASSUME TypeOK, FaultsCover
               PROVE  3 * Cardinality(Dropped) <= faults
    BY DEF WritePathInvariant, DropNeedsFaults, Dropped, MaxRetries
  <2>1. /\ Cardinality(Dropped) \in Nat /\ faults \in Nat
        /\ Spent(Create) \in Nat /\ Spent(Update) \in Nat
    BY DroppedIsFinite, FS_CardinalityType, SpentIsNat DEF TypeOK, Topics
  <2> QED
    BY <2>1 DEF FaultsCover, MaxRetries
<1> QED
  BY <1>1, <1>2, <1>3, InvariantHolds, PTL DEF Spec
-----------------------------------------------------------------------------
(* The locations: the rows a campaign has, and those the goroutines of its *)
(* creates are about to add.                                               *)
GoroutinesAreFinite == IsFiniteSet(outbox) /\ IsFiniteSet(tasks)

LocationTasks(id) ==
    {task \in tasks : task.topic = Create /\ task.kind = "location" /\ MessageOf(task).id = id}

Placed(id) == Len(locations[id]) + Cardinality(LocationTasks(id))

LEMMA GoroutinesStayFinite ==
    ASSUME TypeOK, OffsetsAreValid, GoroutinesAreFinite, [Next]_vars
    PROVE  GoroutinesAreFinite'
<1>1. IsFiniteSet(outbox')
  <2>1. CASE outbox' \subseteq outbox
    BY <2>1, FS_Subset DEF GoroutinesAreFinite
  <2>2. CASE \E e : outbox' = outbox \union {e}
    BY <2>2, FS_AddElement DEF GoroutinesAreFinite
  <2>3. outbox' \subseteq outbox \/ \E e : outbox' = outbox \union {e}
    BY StepCases, ProducerEffect, EndOfAttemptEffect
       DEF Accepts, AcceptCreate, AcceptUpdate, Accept, requests, Subscribe, SubscribeFails,
           Poll, Begin, Save, RunTask, FailTask, Crash, vars
  <2> QED
    BY <2>1, <2>2, <2>3
<1>2. IsFiniteSet(tasks')
  <2>1. CASE tasks' \subseteq tasks
    BY <2>1, FS_Subset DEF GoroutinesAreFinite
  <2>2. ASSUME NEW t \in Topics, Save(t)
        PROVE  IsFiniteSet(tasks')
    <3>1. tasks' \subseteq (tasks \union {TaskOf(t, "log")}) \union {TaskOf(t, "location")}
      BY <2>2 DEF Save, NewTasks, TaskOf
    <3>2. IsFiniteSet((tasks \union {TaskOf(t, "log")}) \union {TaskOf(t, "location")})
      BY FS_AddElement DEF GoroutinesAreFinite
    <3> QED
      BY <3>1, <3>2, FS_Subset
  <2>3. tasks' \subseteq tasks \/ \E t \in Topics : Save(t)
    BY StepCases, AcceptsEffect, ProducerEffect, EndOfAttemptEffect
       DEF Subscribe, SubscribeFails, Poll, Begin, RunTask, FailTask, Crash, vars
  <2> QED
    BY <2>1, <2>2, <2>3
<1> QED
  BY <1>1, <1>2 DEF GoroutinesAreFinite

LEMMA PlacedIsNat ==
    ASSUME TypeOK, GoroutinesAreFinite, NEW id \in Ids
    PROVE  /\ IsFiniteSet(LocationTasks(id)) /\ Cardinality(LocationTasks(id)) \in Nat
           /\ Len(locations[id]) \in Nat
<1>1. IsFiniteSet(LocationTasks(id)) /\ Cardinality(LocationTasks(id)) \in Nat
  BY SubsetCounts DEF GoroutinesAreFinite, LocationTasks
<1>2. locations[id] \in Seq(Values)
  BY DEF TypeOK
<1> QED
  BY <1>1, <1>2, LenProperties

(* A location row is paid for by the goroutine that writes it; moving the  *)
(* rows of a campaign adds none.                                           *)
LEMMA RunTaskPlaces ==
    ASSUME TypeOK, TypeOK', OffsetsAreValid, TasksHaveRows, NEW task \in tasks,
           RunTask(task), NEW id \in Ids
    PROVE  \/ Len(locations'[id]) = Len(locations[id])
           \/ task \in LocationTasks(id) /\ Len(locations'[id]) = Len(locations[id]) + 1
<1> DEFINE m == MessageOf(task)
<1>1. task.topic \in Topics /\ m.id \in Ids
  BY RunTaskEffect
<1>2. locations[id] \in Seq(Values) /\ locations'[id] \in Seq(Values)
  BY DEF TypeOK
<1>3. CASE m.id # id
  BY <1>3, RunTaskEffect
<1>4. CASE task.kind = "log"
  BY <1>4 DEF RunTask
<1>5. CASE m.id = id /\ task.kind = "location"
  <2>1. locations' = [locations EXCEPT ![m.id] = Moved(task, m)]
    BY <1>5 DEF RunTask, MessageOf
  <2>2. locations'[id] = Moved(task, m)
    BY <1>1, <1>5, <2>1 DEF TypeOK
  <2>3. CASE task.topic = Create
    <3>1. locations'[id] = Append(locations[id], m.location)
      BY <1>5, <2>2, <2>3 DEF Moved
    <3>2. Len(Append(locations[id], m.location)) = Len(locations[id]) + 1
      BY <1>2
    <3> QED
      BY <1>5, <2>3, <3>1, <3>2 DEF LocationTasks
  <2>4. CASE task.topic # Create
    <3>1. locations'[id] = [i \in DOMAIN locations[id] |-> m.location]
      BY <1>5, <2>2, <2>4 DEF Moved
    <3>2. DOMAIN locations'[id] = DOMAIN locations[id]
      BY <3>1
    <3> QED
      BY <1>2, <3>2, LenProperties
  <2> QED
    BY <2>3, <2>4
<1> QED
  BY <1>3, <1>4, <1>5 DEF TypeOK, Task

(* Only saving a create sets a goroutine to work on its location.          *)
LEMMA LocationTasksGrowBySave ==
    ASSUME TypeOK, OffsetsAreValid, TasksHaveRows, [Next]_vars, NEW id \in Ids
    PROVE  \/ LocationTasks(id)' \subseteq LocationTasks(id)
           \/ /\ Save(Create) /\ Current(Create).id = id
              /\ LocationTasks(id)' \subseteq LocationTasks(id) \union {TaskOf(Create, "location")}
<1>1. ASSUME NEW task \in LocationTasks(id)'
      PROVE  \/ task \in LocationTasks(id)
             \/ /\ Save(Create) /\ Current(Create).id = id
                /\ task = TaskOf(Create, "location")
  <2>1. /\ task \in tasks' /\ task.topic = Create /\ task.kind = "location"
        /\ topic'[task.topic][task.offset].id = id
    BY <1>1 DEF LocationTasks, MessageOf
  <2>2. Create \in Topics
    BY DEF Topics
  <2>3. CASE task \in tasks
    <3>1. topic'[task.topic][task.offset] = topic[task.topic][task.offset]
      BY <2>1, <2>2, <2>3, MessagesStay DEF TasksHaveRows
    <3> QED
      BY <2>1, <2>3, <3>1 DEF LocationTasks, MessageOf
  <2>4. ASSUME NEW t \in Topics, Save(t), task \in NewTasks(t)
        PROVE  Save(Create) /\ Current(Create).id = id /\ task = TaskOf(Create, "location")
    <3>1. t = Create /\ task = TaskOf(Create, "location")
      BY <2>1, <2>4 DEF NewTasks, TaskOf
    <3>2. topic' = topic
      BY <2>4 DEF Save, log
    <3> QED
      BY <2>1, <2>4, <3>1, <3>2 DEF TaskOf, Current
  <2>5. tasks' \subseteq tasks \/ \E t \in Topics : Save(t) /\ tasks' = tasks \union NewTasks(t)
    BY StepCases, AcceptsEffect, ProducerEffect, EndOfAttemptEffect
       DEF Subscribe, SubscribeFails, Poll, Begin, Save, RunTask, FailTask, Crash, vars
  <2> QED
    BY <2>1, <2>3, <2>4, <2>5
<1> QED
  BY <1>1

LEMMA PlacedGrowsBySave ==
    ASSUME TypeOK, TypeOK', OffsetsAreValid, TasksHaveRows, GoroutinesAreFinite,
           [Next]_vars, NEW id \in Ids
    PROVE  /\ Placed(id) \in Nat /\ Placed(id)' \in Nat
           /\ \/ Placed(id)' <= Placed(id)
              \/ Save(Create) /\ Current(Create).id = id /\ Placed(id)' <= Placed(id) + 1
<1> DEFINE T == LocationTasks(id)
<1>1. IsFiniteSet(T) /\ Cardinality(T) \in Nat /\ Len(locations[id]) \in Nat
  BY PlacedIsNat
<1>2. Len(locations'[id]) \in Nat
  <2>1. locations'[id] \in Seq(Values)
    BY DEF TypeOK
  <2> QED
    BY <2>1, LenProperties
<1>3. T' \subseteq T \union {TaskOf(Create, "location")}
  BY LocationTasksGrowBySave
<1>4. Cardinality(T') \in Nat /\ Cardinality(T') <= Cardinality(T) + 1
  BY <1>1, <1>3, OneMoreCounts
<1>5. T' \subseteq T => Cardinality(T') <= Cardinality(T)
  BY <1>1, SubsetCounts
<1>6. /\ Placed(id) = Len(locations[id]) + Cardinality(T)
      /\ Placed(id)' = Len(locations'[id]) + Cardinality(T')
  BY DEF Placed
<1>7. ASSUME NEW task \in tasks, RunTask(task)
      PROVE  Placed(id)' <= Placed(id)
  <2>1. tasks' = tasks \ {task} /\ topic' = topic
    BY <1>7 DEF RunTask, log
  <2>2. T' \subseteq T \ {task}
    BY <2>1 DEF LocationTasks, MessageOf
  <2>3. CASE Len(locations'[id]) = Len(locations[id])
    BY <1>1, <1>4, <1>5, <1>6, <2>2, <2>3
  <2>4. CASE task \in T /\ Len(locations'[id]) = Len(locations[id]) + 1
    <3>1. Cardinality(T') + 1 <= Cardinality(T)
      BY <1>1, <2>2, <2>4, OneLessCounts
    <3> QED
      BY <1>1, <1>4, <1>6, <2>4, <3>1
  <2> HIDE DEF T
  <2> QED
    BY <1>7, <2>3, <2>4, RunTaskPlaces DEF T
<1>8. CASE locations' = locations
  <2>1. CASE T' \subseteq T
    BY <1>1, <1>2, <1>4, <1>5, <1>6, <1>8, <2>1
  <2>2. CASE Save(Create) /\ Current(Create).id = id
    BY <1>1, <1>2, <1>4, <1>6, <1>8, <2>2
  <2> QED
    BY <2>1, <2>2, LocationTasksGrowBySave
<1>9. locations' = locations \/ \E task \in tasks : RunTask(task)
  BY StepCases, AcceptsEffect, ProducerEffect, EndOfAttemptEffect
     DEF tables, Subscribe, SubscribeFails, Poll, Begin, Save, FailTask, Crash, vars
<1>10. Placed(id) \in Nat /\ Placed(id)' \in Nat
  BY <1>1, <1>2, <1>4, <1>6
<1> HIDE DEF T
<1> QED
  BY <1>7, <1>8, <1>9, <1>10
-----------------------------------------------------------------------------
(* The tries.  A create message pays for MaxRetries locations once its     *)
(* consumer has passed it, or left the loop at it; before that, for as     *)
(* many as the consumer has started to write.                              *)
Passed(id) == {o \in DOMAIN topic[Create] : topic[Create][o].id = id /\ o < offset[Create]}

AtMessageOf(id) == offset[Create] \in DOMAIN topic[Create] /\ Current(Create).id = id

Tried ==
    CASE pc[Create] \in {"decoding", "saving"} -> attempt[Create] - 1
      [] pc[Create] = "waiting" -> attempt[Create]
      [] pc[Create] = "polling" -> 0
      [] pc[Create] \in {"opening", "stopped"} -> MaxRetries

Tries(id) == IF AtMessageOf(id) THEN Tried ELSE 0

Ceiling(id) == MaxRetries * Cardinality(Passed(id)) + Tries(id)

TriesCover == \A id \in Ids : Placed(id) <= Ceiling(id)

LEMMA CreateIsTopic == Create \in Topics /\ Update \in Topics /\ Create # Update
BY DEF Topics, Create, Update

LEMMA TriedIsBounded ==
    /\ TypeOK => Tried \in 0 .. 3
    /\ TypeOK' => Tried' \in 0 .. 3
<1>1. ASSUME TypeOK
      PROVE  Tried \in 0 .. 3
  <2>1. pc[Create] \in States /\ attempt[Create] \in 1 .. 3
    BY <1>1, CreateIsTopic DEF TypeOK, MaxRetries
  <2> QED
    BY <2>1 DEF Tried, States, MaxRetries
<1>2. ASSUME TypeOK'
      PROVE  Tried' \in 0 .. 3
  <2>1. pc'[Create] \in States /\ attempt'[Create] \in 1 .. 3
    BY <1>2, CreateIsTopic DEF TypeOK, MaxRetries
  <2> QED
    BY <2>1 DEF Tried, States, MaxRetries
<1> QED
  BY <1>1, <1>2

(* What a consumer of creates passes stays passed, and what it has tried   *)
(* grows while it is at a message.                                         *)
OffsetStays ==
    /\ offset'[Create] = offset[Create]
    /\ Tried <= Tried'
    /\ Save(Create) => Tried + 1 <= Tried'

LEMMA TriedGrows ==
    ASSUME TypeOK, TypeOK', OffsetsAreValid, HeadIsNext, FailureIsRolledBack, [Next]_vars
    PROVE  \/ OffsetStays
           \/ offset[Create] < offset'[Create] /\ ~Save(Create)
           \/ /\ offset[Create] <= offset'[Create] /\ ~Save(Create)
              /\ offset[Create] \notin DOMAIN topic[Create]
<1>1. Tried \in 0 .. 3 /\ Tried' \in 0 .. 3
  BY TriedIsBounded
<1>2. /\ pc \in [Topics -> States] /\ attempt \in [Topics -> 1 .. 3]
      /\ offset \in [Topics -> Nat \ {0}] /\ offset[Create] \in Nat
  BY CreateIsTopic DEF TypeOK, MaxRetries
<1>3. CASE UNCHANGED <<pc[Create], offset[Create], attempt[Create]>>
  <2>1. Tried' = Tried
    BY <1>3 DEF Tried
  <2>2. ~Save(Create)
    BY <1>2, <1>3, CreateIsTopic DEF Save
  <2> QED
    BY <1>1, <1>3, <2>1, <2>2 DEF OffsetStays
<1>4. CASE Subscribe(Create)
  <2>1. /\ offset'[Create] = Len(topic[Create]) + 1
        /\ DOMAIN topic[Create] = 1 .. Len(topic[Create]) /\ Len(topic[Create]) \in Nat
    BY <1>2, <1>4, CreateIsTopic, OffsetsAreFinite DEF Subscribe, StartOffset
  <2>2. offset[Create] <= Len(topic[Create]) + 1 /\ ~Save(Create)
    BY <1>4, CreateIsTopic DEF HeadIsNext, Subscribe, Save
  <2> QED
    BY <1>2, <2>1, <2>2
<1>5. CASE SubscribeFails(Create) \/ Poll(Create) \/ Begin(Create)
  <2>1. /\ offset' = offset /\ ~Save(Create)
        /\ \/ pc[Create] = "opening" /\ pc'[Create] = "stopped"
           \/ pc[Create] = "polling" /\ pc'[Create] = "decoding" /\ attempt'[Create] = 1
           \/ /\ pc[Create] = "decoding" /\ pc'[Create] = "saving"
              /\ attempt'[Create] = attempt[Create]
    BY <1>2, <1>5, CreateIsTopic DEF SubscribeFails, Poll, Begin, Save
  <2>2. Tried <= Tried'
    <3>1. attempt[Create] \in 1 .. 3
      BY <1>2, CreateIsTopic
    <3>2. CASE pc[Create] = "opening" /\ pc'[Create] = "stopped"
      BY <3>2 DEF Tried, MaxRetries
    <3>3. CASE pc[Create] = "polling" /\ pc'[Create] = "decoding" /\ attempt'[Create] = 1
      BY <3>3 DEF Tried
    <3>4. CASE /\ pc[Create] = "decoding" /\ pc'[Create] = "saving"
               /\ attempt'[Create] = attempt[Create]
      BY <3>1, <3>4 DEF Tried
    <3> QED
      BY <2>1, <3>2, <3>3, <3>4
  <2> QED
    BY <2>1, <2>2 DEF OffsetStays
<1>6. CASE Save(Create)
  <2>1. /\ offset' = offset /\ attempt'[Create] = attempt[Create]
        /\ pc[Create] = "saving" /\ pc'[Create] = "waiting"
    BY <1>2, <1>6, CreateIsTopic DEF Save
  <2>2. Tried = attempt[Create] - 1 /\ Tried' = attempt[Create]
    BY <2>1 DEF Tried
  <2>3. attempt[Create] \in 1 .. 3
    BY <1>2, CreateIsTopic
  <2> QED
    BY <2>1, <2>2, <2>3 DEF OffsetStays
<1>7. CASE EndOfAttempt(Create)
  <2>1. AtWork(Create) /\ ~Save(Create)
    <3>1. AtWork(Create) /\ pc'[Create] \in {"decoding", "polling"}
      BY <1>7, CreateIsTopic, EndOfAttemptEffect DEF Ends
    <3> QED
      BY <1>2, <3>1, CreateIsTopic DEF Save
  <2>2. \/ Retry(Create) /\ attempt[Create] < MaxRetries
        \/ \E result \in {"stored", "dropped"} : Finish(Create, result)
    BY <1>7 DEF EndOfAttempt, DecodeFails, BeginFails, SaveFails, GiveUp, CommitFails,
       Commit, Retry
  <2>3. CASE \E result \in {"stored", "dropped"} : Finish(Create, result)
    <3>1. offset'[Create] = offset[Create] + 1
      BY <1>2, <2>3, CreateIsTopic DEF Finish
    <3> QED
      BY <1>2, <2>1, <3>1
  <2>4. CASE Retry(Create) /\ attempt[Create] < MaxRetries
    <3>1. attempt[Create] \in 1 .. 3
      BY <1>2, CreateIsTopic
    <3>2. /\ offset' = offset /\ attempt'[Create] = attempt[Create] + 1
          /\ pc'[Create] = "decoding"
      BY <1>2, <2>4, <3>1, CreateIsTopic DEF Retry, MaxRetries
    <3>3. Tried' = attempt[Create]
      BY <3>1, <3>2 DEF Tried
    <3>4. Tried <= attempt[Create]
      BY <2>1, <3>1 DEF Tried, AtWork
    <3> QED
      BY <2>1, <3>2, <3>3, <3>4 DEF OffsetStays
  <2> QED
    BY <2>2, <2>3, <2>4
<1>8. CASE Crash
  <2>1. offset' = offset /\ pc'[Create] = "opening"
    BY <1>8, CreateIsTopic DEF Crash
  <2>2. Tried' = 3 /\ ~Save(Create)
    <3>1. Tried' = 3
      BY <2>1 DEF Tried, MaxRetries
    <3> QED
      BY <1>2, <2>1, <3>1, CreateIsTopic DEF Save
  <2> QED
    BY <1>1, <2>1, <2>2 DEF OffsetStays
<1>9. ASSUME NEW u \in Topics \ {Create},
             \/ Subscribe(u) \/ SubscribeFails(u) \/ Poll(u) \/ Begin(u) \/ Save(u)
             \/ EndOfAttempt(u)
      PROVE  UNCHANGED <<pc[Create], offset[Create], attempt[Create]>>
  <2>1. CASE EndOfAttempt(u)
    BY <2>1, CreateIsTopic, EndOfAttemptEffect DEF Ends
  <2>2. CASE Subscribe(u) \/ SubscribeFails(u) \/ Poll(u) \/ Begin(u) \/ Save(u)
    BY <1>2, <2>2, CreateIsTopic DEF Subscribe, SubscribeFails, Poll, Begin, Save
  <2> QED
    BY <1>9, <2>1, <2>2
<1>10. CASE Accepts \/ Producer \/ (\E task \in tasks : RunTask(task) \/ FailTask(task))
            \/ UNCHANGED vars
  BY <1>3, <1>10, AcceptsEffect, ProducerEffect DEF RunTask, FailTask, consumers, vars
<1> QED
  BY <1>3, <1>4, <1>5, <1>6, <1>7, <1>8, <1>9, <1>10, StepCases

LEMMA PassedGrows ==
    ASSUME TypeOK, TypeOK', OffsetsAreValid, [Next]_vars, NEW id,
           offset[Create] <= offset'[Create]
    PROVE  /\ Cardinality(Passed(id)) \in Nat /\ Cardinality(Passed(id)') \in Nat
           /\ Cardinality(Passed(id)) <= Cardinality(Passed(id)')
           /\ AtMessageOf(id) /\ offset[Create] < offset'[Create]
                 => Cardinality(Passed(id)) + 1 <= Cardinality(Passed(id)')
<1>1. IsFiniteSet(Passed(id)')
  <2>1. topic'[Create] \in Seq(Message)
    BY CreateIsTopic DEF TypeOK
  <2>2. Len(topic'[Create]) \in Nat /\ DOMAIN topic'[Create] = 1 .. Len(topic'[Create])
    BY <2>1, LenProperties
  <2>3. IsFiniteSet(DOMAIN topic'[Create])
    BY <2>2, FS_Interval
  <2> QED
    BY <2>3, FS_Subset DEF Passed
<1>2. DOMAIN topic[Create] \subseteq Nat /\ offset[Create] \in Nat /\ offset'[Create] \in Nat
  <2>1. DOMAIN topic[Create] \subseteq Nat
    BY CreateIsTopic, OffsetsAreFinite
  <2> QED
    BY <2>1, CreateIsTopic DEF TypeOK
<1>3. \A o \in DOMAIN topic[Create] :
         o \in DOMAIN topic'[Create] /\ topic'[Create][o] = topic[Create][o]
  BY CreateIsTopic, MessagesStay
<1>4. Passed(id) \subseteq Passed(id)'
  BY <1>2, <1>3 DEF Passed
<1>5. CASE AtMessageOf(id) /\ offset[Create] < offset'[Create]
  <2>1. offset[Create] \in Passed(id)'
    BY <1>3, <1>5 DEF Passed, AtMessageOf, Current
  <2>2. offset[Create] \notin Passed(id)
    BY <1>2 DEF Passed
  <2> QED
    BY <1>1, <1>4, <2>1, <2>2, OneLessCounts
<1> QED
  BY <1>1, <1>4, <1>5, SubsetCounts
LEMMA CeilingGrows ==
    ASSUME TypeOK, TypeOK', OffsetsAreValid, HeadIsNext, FailureIsRolledBack, [Next]_vars,
           NEW id
    PROVE  /\ Ceiling(id) \in Nat /\ Ceiling(id)' \in Nat
           /\ Ceiling(id) <= Ceiling(id)'
           /\ Save(Create) /\ Current(Create).id = id => Ceiling(id) + 1 <= Ceiling(id)'
<1>1. Tried \in 0 .. 3 /\ Tried' \in 0 .. 3
  BY TriedIsBounded
<1>2. /\ Tries(id) \in 0 .. 3 /\ Tries(id)' \in 0 .. 3
      /\ ~AtMessageOf(id) => Tries(id) = 0
      /\ AtMessageOf(id) => Tries(id) = Tried
      /\ AtMessageOf(id)' => Tries(id)' = Tried'
  BY <1>1 DEF Tries
<1>3. /\ Ceiling(id) = 3 * Cardinality(Passed(id)) + Tries(id)
      /\ Ceiling(id)' = 3 * Cardinality(Passed(id)') + Tries(id)'
  BY DEF Ceiling, MaxRetries
<1>4. offset[Create] \in Nat /\ offset'[Create] \in Nat
  BY CreateIsTopic DEF TypeOK
<1>5. CASE OffsetStays
  <2>1. /\ Cardinality(Passed(id)) \in Nat /\ Cardinality(Passed(id)') \in Nat
        /\ Cardinality(Passed(id)) <= Cardinality(Passed(id)')
    BY <1>4, <1>5, PassedGrows DEF OffsetStays
  <2>2. AtMessageOf(id) => AtMessageOf(id)'
    BY <1>5, CreateIsTopic, MessagesStay DEF OffsetStays, AtMessageOf, Current
  <2>3. Tries(id) <= Tries(id)'
    BY <1>1, <1>2, <1>5, <2>2 DEF OffsetStays
  <2>4. ASSUME Save(Create), Current(Create).id = id
        PROVE  Tries(id) + 1 <= Tries(id)'
    <3>1. AtMessageOf(id)
      BY <2>4, CreateIsTopic, CurrentIsMessage DEF AtMessageOf, Save, AtWork
    <3> QED
      BY <1>1, <1>2, <1>5, <2>2, <2>4, <3>1 DEF OffsetStays
  <2> QED
    BY <1>2, <1>3, <2>1, <2>3, <2>4
<1>6. CASE offset[Create] < offset'[Create] /\ ~Save(Create)
  <2>1. /\ Cardinality(Passed(id)) \in Nat /\ Cardinality(Passed(id)') \in Nat
        /\ Cardinality(Passed(id)) <= Cardinality(Passed(id)')
        /\ AtMessageOf(id) => Cardinality(Passed(id)) + 1 <= Cardinality(Passed(id)')
    BY <1>4, <1>6, PassedGrows
  <2> QED
    BY <1>2, <1>3, <1>6, <2>1
<1>7. CASE /\ offset[Create] <= offset'[Create] /\ ~Save(Create)
           /\ offset[Create] \notin DOMAIN topic[Create]
  <2>1. /\ Cardinality(Passed(id)) \in Nat /\ Cardinality(Passed(id)') \in Nat
        /\ Cardinality(Passed(id)) <= Cardinality(Passed(id)')
        /\ Tries(id) = 0
    BY <1>2, <1>7, PassedGrows DEF AtMessageOf
  <2> QED
    BY <1>2, <1>3, <1>7, <2>1
<1> QED
  BY <1>5, <1>6, <1>7, TriedGrows

(* The ceiling is what AttemptsAreBounded allows.                          *)
LEMMA CeilingIsAllowed ==
    ASSUME TypeOK, OffsetsAreValid, NEW id
    PROVE  /\ Ceiling(id) \in Nat
           /\ Ceiling(id) <= MaxRetries * Cardinality({o \in DOMAIN topic[Create] :
                                                         topic[Create][o].id = id})
<1> DEFINE All == {o \in DOMAIN topic[Create] : topic[Create][o].id = id}
<1>1. IsFiniteSet(All)
  BY CreateIsTopic, OffsetsAreFinite, FS_Subset
<1>2. Passed(id) \subseteq All /\ offset[Create] \notin Passed(id)
  BY CreateIsTopic, OffsetsAreFinite DEF Passed, TypeOK
<1>3. Tries(id) \in 0 .. 3
  BY TriedIsBounded DEF Tries
<1>4. /\ Cardinality(Passed(id)) \in Nat /\ Cardinality(All) \in Nat
      /\ Cardinality(Passed(id)) <= Cardinality(All)
  BY <1>1, <1>2, SubsetCounts
<1>5. Ceiling(id) = 3 * Cardinality(Passed(id)) + Tries(id)
  BY DEF Ceiling, MaxRetries
<1>6. ASSUME AtMessageOf(id)
      PROVE  Ceiling(id) <= MaxRetries * Cardinality(All)
  <2>1. offset[Create] \in All
    BY <1>6 DEF AtMessageOf, Current
  <2>2. Cardinality(Passed(id)) + 1 <= Cardinality(All)
    BY <1>1, <1>2, <2>1, OneLessCounts
  <2> HIDE DEF All
  <2>3. Ceiling(id) <= 3 * Cardinality(All)
    BY <1>3, <1>4, <1>5, <2>2
  <2> QED
    BY <2>3 DEF All, MaxRetries
<1>7. ASSUME ~AtMessageOf(id)
      PROVE  Ceiling(id) <= MaxRetries * Cardinality(All)
  <2>1. Tries(id) = 0
    BY <1>7 DEF Tries
  <2> HIDE DEF All
  <2>2. Ceiling(id) <= 3 * Cardinality(All)
    BY <1>4, <1>5, <2>1
  <2> QED
    BY <2>2 DEF All, MaxRetries
<1>8. Ceiling(id) \in Nat
  BY <1>3, <1>4, <1>5
<1> QED
  BY <1>6, <1>7, <1>8

LEMMA InitIsFinite ==
    ASSUME Init
    PROVE  /\ GoroutinesAreFinite
           /\ \A id \in Ids : Placed(id) = 0
<1>1. outbox = {} /\ tasks = {} /\ \A id \in Ids : locations[id] = << >>
  BY DEF Init
<1>2. \A id \in Ids : LocationTasks(id) = {} /\ Len(locations[id]) = 0
  BY <1>1 DEF LocationTasks
<1>3. Cardinality({}) = 0 /\ IsFiniteSet({})
  BY FS_EmptySet
<1>4. \A id \in Ids : Placed(id) = 0
  <2> SUFFICES ASSUME NEW id \in Ids
               PROVE  Placed(id) = 0
    OBVIOUS
  <2>1. LocationTasks(id) = {} /\ Len(locations[id]) = 0
    BY <1>2
  <2>2. Cardinality(LocationTasks(id)) = 0
    BY <1>3, <2>1
  <2> QED
    BY <2>1, <2>2 DEF Placed
<1> QED
  BY <1>1, <1>3, <1>4 DEF GoroutinesAreFinite

THEOREM GoroutinesFinite == Spec => []GoroutinesAreFinite
<1>1. Init => GoroutinesAreFinite
  BY InitIsFinite
<1>2. WritePathInvariant /\ GoroutinesAreFinite /\ [Next]_vars => GoroutinesAreFinite'
  BY GoroutinesStayFinite DEF WritePathInvariant
<1> QED
  BY <1>1, <1>2, InvariantHolds, PTL DEF Spec

(* MaxRetries bounds the tries of each message, across given-up attempts   *)
(* whose goroutines still write, restarts and resends: a campaign has at   *)
(* most one location from each try of each of its create messages.         *)
THEOREM TriesAreBounded == Spec => []AttemptsAreBounded
<1>1. Init => TriesCover
  <2> SUFFICES ASSUME Init, NEW id \in Ids
               PROVE  Placed(id) <= Ceiling(id)
    BY DEF TriesCover
  <2>1. WritePathInvariant /\ Placed(id) = 0
    BY InitEstablishesInvariant, InitIsFinite
  <2>2. Cardinality(Passed(id)) = 0
    <3>1. Passed(id) = {}
      BY CreateIsTopic DEF Init, Passed
    <3> QED
      BY <3>1, FS_EmptySet
  <2>3. Tries(id) \in 0 .. 3
    BY <2>1, TriedIsBounded DEF Tries, WritePathInvariant
  <2> QED
    BY <2>1, <2>2, <2>3 DEF Ceiling, MaxRetries
<1>2. /\ WritePathInvariant /\ WritePathInvariant' /\ GoroutinesAreFinite /\ HeadIsNext
      /\ TriesCover /\ [Next]_vars
      => TriesCover'
  <2> SUFFICES ASSUME WritePathInvariant, WritePathInvariant', GoroutinesAreFinite,
                      HeadIsNext, TriesCover, [Next]_vars, NEW id \in Ids
               PROVE  Placed(id)' <= Ceiling(id)'
    BY DEF TriesCover
  <2>1. /\ Placed(id) \in Nat /\ Placed(id)' \in Nat
        /\ \/ Placed(id)' <= Placed(id)
           \/ Save(Create) /\ Current(Create).id = id /\ Placed(id)' <= Placed(id) + 1
    BY PlacedGrowsBySave DEF WritePathInvariant
  <2>2. /\ Ceiling(id) \in Nat /\ Ceiling(id)' \in Nat
        /\ Ceiling(id) <= Ceiling(id)'
        /\ Save(Create) /\ Current(Create).id = id => Ceiling(id) + 1 <= Ceiling(id)'
    BY CeilingGrows DEF WritePathInvariant
  <2>3. Placed(id) <= Ceiling(id)
    BY DEF TriesCover
  <2> QED
    BY <2>1, <2>2, <2>3
<1>3. WritePathInvariant /\ GoroutinesAreFinite /\ TriesCover => AttemptsAreBounded
  <2> SUFFICES ASSUME TypeOK, OffsetsAreValid, GoroutinesAreFinite, TriesCover,
                      NEW id \in Ids
               PROVE  Len(locations[id])
                         <= MaxRetries * Cardinality({o \in DOMAIN topic[Create] :
                                                         topic[Create][o].id = id})
    BY DEF WritePathInvariant, AttemptsAreBounded
  <2>1. Len(locations[id]) \in Nat /\ Cardinality(LocationTasks(id)) \in Nat
    BY PlacedIsNat
  <2>2. Len(locations[id]) <= Placed(id) /\ Placed(id) <= Ceiling(id)
    BY <2>1 DEF Placed, TriesCover
  <2> DEFINE bound == MaxRetries * Cardinality({o \in DOMAIN topic[Create] :
                                                   topic[Create][o].id = id})
  <2>3. Ceiling(id) <= bound
    BY CeilingIsAllowed
  <2>4. bound \in Nat
    <3> DEFINE All == {o \in DOMAIN topic[Create] : topic[Create][o].id = id}
    <3>1. IsFiniteSet(All)
      BY CreateIsTopic, OffsetsAreFinite, FS_Subset
    <3>2. Cardinality(All) \in Nat
      BY <3>1, FS_CardinalityType
    <3> HIDE DEF All
    <3>3. MaxRetries * Cardinality(All) \in Nat
      BY <3>2 DEF MaxRetries
    <3> QED
      BY <3>3 DEF All
  <2>5. Placed(id) \in Nat /\ Ceiling(id) \in Nat
    <3>1. Placed(id) \in Nat
      BY <2>1 DEF Placed
    <3>2. Ceiling(id) \in Nat
      BY CeilingIsAllowed
    <3> QED
      BY <3>1, <3>2
  <2> HIDE DEF bound
  <2>6. Len(locations[id]) <= bound
    BY <2>1, <2>2, <2>3, <2>4, <2>5
  <2> QED
    BY <2>6 DEF bound
<1> QED
  BY <1>1, <1>2, <1>3, InvariantHolds, HeadsAreNext, GoroutinesFinite, PTL DEF Spec
-----------------------------------------------------------------------------
(* The copies: the events of a create that may still be saved, once each.  *)
(* Accepting a create makes the first, every other one is a failure's: an  *)
(* event sent twice, or an attempt that failed after it saved.             *)
Unsent(id) == {e \in outbox : e.topic = Create /\ e.message.id = id}

WillBeSaved(o) ==
    \/ offset[Create] < o
    \/ /\ offset[Create] = o
       /\ pc[Create] \in {"polling", "decoding", "saving"} \/ failed[Create]

Unsaved(id) == {o \in DOMAIN topic[Create] : topic[Create][o].id = id /\ WillBeSaved(o)}

Copies(id) == Cardinality(Unsent(id)) + Cardinality(Unsaved(id))

Created(id) == IF id <= accepted THEN 1 ELSE 0

RowCount(id) == IF Exists(id) THEN 1 ELSE 0

CopiesCover ==
    \A id \in Ids :
        /\ Placed(id) + Copies(id) <= Created(id) + faults
        /\ RowCount(id) + Copies(id) <= Created(id) + faults

LEMMA UnsentAreFinite ==
    ASSUME GoroutinesAreFinite, NEW id
    PROVE  IsFiniteSet(Unsent(id)) /\ Cardinality(Unsent(id)) \in Nat
BY FS_Subset, FS_CardinalityType DEF GoroutinesAreFinite, Unsent

LEMMA UnsavedAreFinite ==
    ASSUME TypeOK, OffsetsAreValid, NEW id
    PROVE  IsFiniteSet(Unsaved(id)) /\ Cardinality(Unsaved(id)) \in Nat
BY CreateIsTopic, OffsetsAreFinite, FS_Subset, FS_CardinalityType DEF Unsaved

(* How the copies of a campaign change, in each kind of step.              *)
LessToSave(id) == Unsent(id)' \subseteq Unsent(id) /\ Unsaved(id)' \subseteq Unsaved(id)

OneMoreToSave(id, o) ==
    /\ Unsent(id)' \subseteq Unsent(id)
    /\ Unsaved(id)' \subseteq Unsaved(id) \union {o}

LEMMA AppendedIsUnsaved ==
    ASSUME TypeOK, OffsetsAreValid, NEW e \in outbox, Appended(e),
           UNCHANGED consumers, NEW id
    PROVE  /\ Unsaved(id)' \subseteq Unsaved(id) \union {Len(topic[Create]) + 1}
           /\ e \notin Unsent(id) => Unsaved(id)' \subseteq Unsaved(id)
<1>1. \A o : WillBeSaved(o)' <=> WillBeSaved(o)
  BY DEF WillBeSaved, consumers
<1>2. ASSUME NEW o \in Unsaved(id)', o \notin Unsaved(id)
      PROVE  o = Len(topic[Create]) + 1 /\ e \in Unsent(id)
  <2>1. /\ o \in DOMAIN topic'[Create] /\ topic'[Create][o].id = id /\ WillBeSaved(o)
    BY <1>1, <1>2 DEF Unsaved
  <2>2. o \notin DOMAIN topic[Create]
    BY <1>2, <2>1, CreateIsTopic, AppendedEffect DEF Unsaved
  <2>3. e.topic = Create /\ topic'[Create][o] = e.message
    BY <2>1, <2>2, CreateIsTopic, AppendedEffect
  <2>4. topic'[Create] = Append(topic[Create], e.message)
    BY <2>3, CreateIsTopic DEF Appended, TypeOK
  <2>5. topic[Create] \in Seq(Message) /\ e.message \in Message
    BY CreateIsTopic DEF TypeOK, Envelope
  <2>6. /\ DOMAIN topic'[Create] = 1 .. Len(topic[Create]) + 1
        /\ DOMAIN topic[Create] = 1 .. Len(topic[Create]) /\ Len(topic[Create]) \in Nat
    BY <2>4, <2>5
  <2> QED
    BY <2>1, <2>2, <2>3, <2>6 DEF Unsent
<1> QED
  BY <1>2

LEMMA ProducerCopies ==
    ASSUME TypeOK, OffsetsAreValid, GoroutinesAreFinite, Producer, NEW id
    PROVE  Copies(id)' + faults <= Copies(id) + faults'
<1>1. /\ IsFiniteSet(Unsent(id)) /\ Cardinality(Unsent(id)) \in Nat
      /\ IsFiniteSet(Unsaved(id)) /\ Cardinality(Unsaved(id)) \in Nat
      /\ faults \in Nat
  BY UnsentAreFinite, UnsavedAreFinite DEF TypeOK
<1>2. /\ Copies(id) = Cardinality(Unsent(id)) + Cardinality(Unsaved(id))
      /\ Copies(id)' = Cardinality(Unsent(id)') + Cardinality(Unsaved(id)')
  BY DEF Copies
<1>3. UNCHANGED consumers /\ Unsent(id)' \subseteq Unsent(id)
  <2>1. UNCHANGED consumers /\ outbox' \subseteq outbox
    BY ProducerEffect
  <2> QED
    BY <2>1 DEF Unsent
<1>4. Cardinality(Unsent(id)') \in Nat /\ Cardinality(Unsent(id)') <= Cardinality(Unsent(id))
  BY <1>1, <1>3, SubsetCounts
<1>5. ASSUME NEW e \in outbox, Appended(e)
      PROVE  /\ Cardinality(Unsaved(id)') \in Nat
             /\ Cardinality(Unsaved(id)') <= Cardinality(Unsaved(id)) + 1
             /\ e \notin Unsent(id) => Cardinality(Unsaved(id)') <= Cardinality(Unsaved(id))
  <2>1. /\ Unsaved(id)' \subseteq Unsaved(id) \union {Len(topic[Create]) + 1}
        /\ e \notin Unsent(id) => Unsaved(id)' \subseteq Unsaved(id)
    BY <1>3, <1>5, AppendedIsUnsaved
  <2> QED
    BY <1>1, <2>1, SubsetCounts, OneMoreCounts
<1>6. CASE Publish
  <2>1. PICK e \in outbox : Appended(e) /\ outbox' = outbox \ {e} /\ faults' = faults
    BY <1>6 DEF Publish
  <2>2. CASE e \in Unsent(id)
    <3>1. Unsent(id)' \subseteq Unsent(id) \ {e}
      BY <2>1 DEF Unsent
    <3>2. Cardinality(Unsent(id)') + 1 <= Cardinality(Unsent(id))
      BY <1>1, <2>2, <3>1, OneLessCounts
    <3> QED
      BY <1>1, <1>2, <1>4, <1>5, <2>1, <3>2
  <2>3. CASE e \notin Unsent(id)
    BY <1>1, <1>2, <1>4, <1>5, <2>1, <2>3
  <2> QED
    BY <2>2, <2>3
<1>7. CASE PublishUnacknowledged
  <2>1. PICK e \in outbox : Appended(e) /\ faults' = faults + 1
    BY <1>7 DEF PublishUnacknowledged, Fault
  <2> QED
    BY <1>1, <1>2, <1>4, <1>5, <2>1
<1>8. CASE PublishFails
  <2>1. UNCHANGED <<topic, consumers>> /\ faults' = faults + 1
    BY <1>8 DEF PublishFails, Fault, log
  <2>2. Unsaved(id)' = Unsaved(id)
    BY <2>1 DEF Unsaved, WillBeSaved, consumers
  <2>3. Cardinality(Unsaved(id)') = Cardinality(Unsaved(id))
    BY <2>2
  <2> QED
    BY <1>1, <1>2, <1>4, <2>1, <2>3
<1> QED
  BY <1>6, <1>7, <1>8 DEF Producer
(* Of the consumer's steps, a failure brings one message back to be saved, *)
(* the others bring none, and a save takes the one it is at.               *)
SavesNoMore ==
    /\ \A o \in DOMAIN topic[Create] : WillBeSaved(o)' => WillBeSaved(o)
    /\ faults <= faults'
    /\ Save(Create) => ~WillBeSaved(offset[Create])'

SavesOneMore ==
    /\ \A o \in DOMAIN topic[Create] : WillBeSaved(o)' => WillBeSaved(o) \/ o = offset[Create]
    /\ faults' = faults + 1
    /\ ~Save(Create)

LEMMA ConsumersSave ==
    ASSUME TypeOK, TypeOK', OffsetsAreValid, FailureIsRolledBack, [Next]_vars
    PROVE  \/ Accepts \/ Producer
           \/ /\ topic' = topic /\ outbox' \subseteq outbox /\ accepted' = accepted
              /\ SavesNoMore \/ SavesOneMore
<1>1. /\ pc \in [Topics -> States] /\ offset \in [Topics -> Nat \ {0}]
      /\ failed \in [Topics -> BOOLEAN] /\ faults \in Nat
      /\ DOMAIN topic[Create] = 1 .. Len(topic[Create]) /\ Len(topic[Create]) \in Nat
  <2>1. DOMAIN topic[Create] = 1 .. Len(topic[Create]) /\ Len(topic[Create]) \in Nat
    BY CreateIsTopic, OffsetsAreFinite
  <2> QED
    BY <2>1 DEF TypeOK
<1>2. ASSUME ~Accepts, ~Producer
      PROVE  topic' = topic /\ outbox' \subseteq outbox /\ accepted' = accepted
  BY <1>2, StepCases, EndOfAttemptEffect
     DEF requests, log, Subscribe, SubscribeFails, Poll, Begin, Save, RunTask, FailTask,
         Crash, vars
<1>3. faults \in Nat /\ (faults' = faults \/ faults' = faults + 1)
  BY <1>1, FaultsGrow
<1>4. CASE UNCHANGED <<pc[Create], offset[Create], failed[Create]>>
  <2>1. \A o : WillBeSaved(o)' <=> WillBeSaved(o)
    BY <1>4 DEF WillBeSaved
  <2>2. ~Save(Create)
    BY <1>1, <1>4, CreateIsTopic DEF Save
  <2> QED
    BY <1>2, <1>3, <2>1, <2>2 DEF SavesNoMore
<1>5. CASE Subscribe(Create)
  <2>1. offset'[Create] = Len(topic[Create]) + 1 /\ ~Save(Create)
    BY <1>1, <1>5, CreateIsTopic DEF Subscribe, StartOffset, Save
  <2>2. \A o \in DOMAIN topic[Create] : ~WillBeSaved(o)'
    BY <1>1, <2>1 DEF WillBeSaved
  <2> QED
    BY <1>2, <1>3, <2>1, <2>2 DEF SavesNoMore
<1>6. CASE SubscribeFails(Create) \/ Poll(Create) \/ Begin(Create)
  <2>1. /\ offset' = offset /\ failed' = failed /\ ~Save(Create)
        /\ \/ pc'[Create] = "stopped"
           \/ /\ pc[Create] \in {"polling", "decoding"}
              /\ pc'[Create] \in {"decoding", "saving"}
    BY <1>1, <1>6, CreateIsTopic DEF SubscribeFails, Poll, Begin, Save
  <2>2. \A o : WillBeSaved(o)' => WillBeSaved(o)
    BY <2>1 DEF WillBeSaved
  <2> QED
    BY <1>2, <1>3, <2>1, <2>2 DEF SavesNoMore
<1>7. CASE Save(Create)
  <2>1. /\ offset' = offset /\ failed' = failed
        /\ pc[Create] = "saving" /\ pc'[Create] = "waiting"
    BY <1>1, <1>7, CreateIsTopic DEF Save
  <2>2. ~failed[Create]
    BY <2>1, CreateIsTopic DEF FailureIsRolledBack
  <2>3. offset[Create] \in Nat
    BY <1>1, CreateIsTopic
  <2>4. \A o : WillBeSaved(o)' => WillBeSaved(o)
    BY <2>1 DEF WillBeSaved
  <2>5. ~WillBeSaved(offset[Create])'
    BY <2>1, <2>2, <2>3 DEF WillBeSaved
  <2> QED
    BY <1>2, <1>3, <2>4, <2>5 DEF SavesNoMore
<1>8. CASE EndOfAttempt(Create)
  <2>1. AtWork(Create) /\ pc'[Create] \in {"decoding", "polling"} /\ ~Save(Create)
    <3>1. AtWork(Create) /\ pc'[Create] \in {"decoding", "polling"}
      BY <1>8, CreateIsTopic, EndOfAttemptEffect DEF Ends
    <3> QED
      BY <1>1, <3>1, CreateIsTopic DEF Save
  <2>2. ~failed'[Create]
    <3>1. failed'[Create] => pc'[Create] = "waiting"
      BY <1>1, <1>8, CreateIsTopic DEF EndOfAttempt, DecodeFails, BeginFails, SaveFails,
         GiveUp, CommitFails, Commit, AllWritten, FailureIsRolledBack
    <3> QED
      BY <2>1, <3>1
  <2>3. offset'[Create] = offset[Create] \/ offset'[Create] = offset[Create] + 1
    BY <1>8, CreateIsTopic, EndResolvesCurrent
  <2>4. CASE offset'[Create] = offset[Create] + 1
    <3>1. \A o \in DOMAIN topic[Create] : WillBeSaved(o)' => WillBeSaved(o)
      BY <1>1, <2>4, CreateIsTopic DEF WillBeSaved
    <3> QED
      BY <1>2, <1>3, <2>1, <3>1 DEF SavesNoMore
  <2>5. CASE offset'[Create] = offset[Create] /\ CommitFails(Create)
    <3>1. faults' = faults + 1
      BY <2>5 DEF CommitFails, Fault
    <3>2. \A o \in DOMAIN topic[Create] : WillBeSaved(o)' => WillBeSaved(o) \/ o = offset[Create]
      BY <2>5 DEF WillBeSaved
    <3> QED
      BY <1>2, <2>1, <3>1, <3>2 DEF SavesOneMore
  <2>6. CASE offset'[Create] = offset[Create] /\ ~CommitFails(Create) /\ ~Commit(Create)
    <3>1. pc[Create] \in {"decoding", "saving"} \/ failed[Create]
      BY <1>8, <2>6 DEF EndOfAttempt, DecodeFails, BeginFails, SaveFails, GiveUp
    <3>2. \A o \in DOMAIN topic[Create] : WillBeSaved(o)' => WillBeSaved(o)
      BY <2>6, <3>1 DEF WillBeSaved
    <3> QED
      BY <1>2, <1>3, <2>1, <3>2 DEF SavesNoMore
  <2>7. Commit(Create) => offset'[Create] = offset[Create] + 1
    BY <1>1, CreateIsTopic DEF Commit, Finish
  <2> QED
    BY <1>1, <2>3, <2>4, <2>5, <2>6, <2>7
<1>9. CASE Crash
  <2>1. offset' = offset /\ pc'[Create] = "opening" /\ ~failed'[Create] /\ ~Save(Create)
    BY <1>1, <1>9, CreateIsTopic DEF Crash, Save
  <2>2. \A o : WillBeSaved(o)' => WillBeSaved(o)
    BY <2>1 DEF WillBeSaved
  <2> QED
    BY <1>2, <1>3, <2>1, <2>2 DEF SavesNoMore
<1>10. ASSUME NEW task \in tasks, FailTask(task)
       PROVE  SavesOneMore
  <2>1. UNCHANGED <<pc, offset>> /\ faults' = faults + 1
    BY <1>10 DEF FailTask, Fault
  <2>2. \A o : WillBeSaved(o)' => WillBeSaved(o) \/ o = offset[Create]
    BY <2>1 DEF WillBeSaved
  <2>3. ~Save(Create)
    BY <1>1, <2>1, CreateIsTopic DEF Save
  <2> QED
    BY <2>1, <2>2, <2>3 DEF SavesOneMore
<1>11. ASSUME NEW u \in Topics \ {Create},
              \/ Subscribe(u) \/ SubscribeFails(u) \/ Poll(u) \/ Begin(u) \/ Save(u)
              \/ EndOfAttempt(u)
       PROVE  UNCHANGED <<pc[Create], offset[Create], failed[Create]>>
  <2>1. CASE EndOfAttempt(u)
    <3>1. UNCHANGED <<pc[Create], offset[Create]>>
      BY <2>1, CreateIsTopic, EndResolvesCurrent
    <3>2. failed'[Create] = failed[Create]
      BY <1>1, <2>1, CreateIsTopic
         DEF EndOfAttempt, DecodeFails, BeginFails, SaveFails, GiveUp, CommitFails, Commit
    <3> QED
      BY <3>1, <3>2
  <2>2. CASE Subscribe(u) \/ SubscribeFails(u) \/ Poll(u) \/ Begin(u) \/ Save(u)
    BY <1>1, <2>2, CreateIsTopic DEF Subscribe, SubscribeFails, Poll, Begin, Save
  <2> QED
    BY <1>11, <2>1, <2>2
<1>12. CASE (\E task \in tasks : RunTask(task)) \/ UNCHANGED vars
  BY <1>4, <1>12 DEF RunTask, consumers, vars
<1> QED
  BY <1>2, <1>4, <1>5, <1>6, <1>7, <1>8, <1>9, <1>10, <1>11, <1>12, StepCases
LEMMA AcceptCopies ==
    ASSUME TypeOK, OffsetsAreValid, GoroutinesAreFinite, Accepts, NEW id \in Ids
    PROVE  /\ Copies(id)' + Created(id) <= Copies(id) + Created(id)'
           /\ faults' = faults \/ faults' = faults + 1
<1>1. /\ IsFiniteSet(Unsent(id)) /\ Cardinality(Unsent(id)) \in Nat
      /\ IsFiniteSet(Unsaved(id)) /\ Cardinality(Unsaved(id)) \in Nat
      /\ accepted \in Nat /\ id \in Nat
  BY UnsentAreFinite, UnsavedAreFinite, WritePathAssumption DEF TypeOK, Ids
<1>2. UNCHANGED <<topic, consumers>>
  BY AcceptsEffect DEF log
<1>3. Unsaved(id)' = Unsaved(id)
  BY <1>2 DEF Unsaved, WillBeSaved, consumers
<1>4. /\ Copies(id) = Cardinality(Unsent(id)) + Cardinality(Unsaved(id))
      /\ Copies(id)' = Cardinality(Unsent(id)') + Cardinality(Unsaved(id))
  BY <1>3 DEF Copies
<1>5. accepted' = accepted + 1 /\ (faults' = faults \/ faults' = faults + 1)
  BY AcceptFaults DEF Accepts, AcceptCreate, AcceptUpdate, Accept
<1>6. \E e : /\ outbox' = outbox \union {e}
             /\ e.topic = Create => e.message.id = accepted + 1
  <2>1. CASE AcceptCreate
    <3>1. PICK c \in Creations :
             Accept(Create, [request |-> accepted + 1, id |-> accepted + 1,
                             columns |-> c.columns, tags |-> c.columns["tags"],
                             location |-> c.location, readable |-> c.readable])
      BY <2>1 DEF AcceptCreate
    <3> DEFINE m == [request |-> accepted + 1, id |-> accepted + 1,
                     columns |-> c.columns, tags |-> c.columns["tags"],
                     location |-> c.location, readable |-> c.readable]
               e == [topic |-> Create, message |-> m]
    <3>2. m.id = accepted + 1 /\ e.message = m
      OBVIOUS
    <3>3. outbox' = outbox \union {e}
      BY <3>1 DEF Accept
    <3> HIDE DEF m, e
    <3> QED
      BY <3>2, <3>3
  <2>2. CASE AcceptUpdate
    <3>1. PICK m : Accept(Update, m)
      BY <2>2 DEF AcceptUpdate
    <3> DEFINE e == [topic |-> Update, message |-> m]
    <3>2. e.topic # Create
      BY CreateIsTopic
    <3>3. outbox' = outbox \union {e}
      BY <3>1 DEF Accept
    <3> HIDE DEF e
    <3> QED
      BY <3>2, <3>3
  <2> QED
    BY <2>1, <2>2 DEF Accepts
<1>7. PICK e : /\ outbox' = outbox \union {e}
               /\ e.topic = Create => e.message.id = accepted + 1
  BY <1>6
<1>8. Unsent(id)' \subseteq Unsent(id) \union {e}
  BY <1>7 DEF Unsent
<1>9. /\ Cardinality(Unsent(id)') \in Nat
      /\ Cardinality(Unsent(id)') <= Cardinality(Unsent(id)) + 1
  BY <1>1, <1>8, OneMoreCounts
<1>10. CASE id = accepted + 1
  <2>1. Created(id) = 0 /\ Created(id)' = 1
    BY <1>1, <1>5, <1>10 DEF Created
  <2> QED
    BY <1>1, <1>4, <1>5, <1>9, <2>1
<1>11. CASE id # accepted + 1
  <2>1. Unsent(id)' \subseteq Unsent(id)
    BY <1>7, <1>11 DEF Unsent
  <2>2. Cardinality(Unsent(id)') <= Cardinality(Unsent(id))
    BY <1>1, <2>1, SubsetCounts
  <2>3. Created(id) \in {0, 1} /\ Created(id)' \in {0, 1} /\ Created(id) <= Created(id)'
    BY <1>1, <1>5 DEF Created
  <2> QED
    BY <1>1, <1>4, <1>5, <1>9, <2>2, <2>3
<1> QED
  BY <1>10, <1>11

LEMMA CopiesAreNat ==
    ASSUME TypeOK, OffsetsAreValid, GoroutinesAreFinite, NEW id
    PROVE  Copies(id) \in Nat /\ Created(id) \in {0, 1} /\ RowCount(id) \in {0, 1}
<1>1. Cardinality(Unsent(id)) \in Nat /\ Cardinality(Unsaved(id)) \in Nat
  BY UnsentAreFinite, UnsavedAreFinite
<1> QED
  BY <1>1 DEF Copies, Created, RowCount

LEMMA CopiesAreNatAfter ==
    ASSUME TypeOK', GoroutinesAreFinite', NEW id
    PROVE  Copies(id)' \in Nat /\ Created(id)' \in {0, 1} /\ RowCount(id)' \in {0, 1}
<1>1. Cardinality(Unsent(id)') \in Nat
  BY FS_Subset, FS_CardinalityType DEF GoroutinesAreFinite, Unsent
<1>2. Cardinality(Unsaved(id)') \in Nat
  <2>1. topic'[Create] \in Seq(Message)
    BY CreateIsTopic DEF TypeOK
  <2>2. Len(topic'[Create]) \in Nat /\ DOMAIN topic'[Create] = 1 .. Len(topic'[Create])
    BY <2>1, LenProperties
  <2>3. IsFiniteSet(DOMAIN topic'[Create])
    BY <2>2, FS_Interval
  <2> QED
    BY <2>3, FS_Subset, FS_CardinalityType DEF Unsaved
<1> QED
  BY <1>1, <1>2 DEF Copies, Created, RowCount

LEMMA CopiesGrow ==
    ASSUME TypeOK, TypeOK', OffsetsAreValid, FailureIsRolledBack,
           GoroutinesAreFinite, GoroutinesAreFinite', [Next]_vars, NEW id \in Ids
    PROVE  /\ Copies(id)' + Created(id) + faults <= Copies(id) + Created(id)' + faults'
           /\ Save(Create) /\ Current(Create).id = id
                 => Copies(id)' + 1 + Created(id) + faults
                       <= Copies(id) + Created(id)' + faults'
<1>1. /\ IsFiniteSet(Unsent(id)) /\ Cardinality(Unsent(id)) \in Nat
      /\ IsFiniteSet(Unsaved(id)) /\ Cardinality(Unsaved(id)) \in Nat
  BY UnsentAreFinite, UnsavedAreFinite
<1>2. /\ Copies(id) \in Nat /\ Created(id) \in {0, 1}
      /\ faults \in Nat /\ faults' \in Nat
  BY CopiesAreNat DEF TypeOK
<1>3. Copies(id)' \in Nat /\ Created(id)' \in {0, 1}
  BY CopiesAreNatAfter
<1>4. CASE Producer
  <2>1. Copies(id)' + faults <= Copies(id) + faults'
    BY <1>4, ProducerCopies
  <2>2. accepted' = accepted /\ ~Save(Create)
    <3>1. accepted' = accepted
      BY <1>4 DEF Producer, Publish, PublishUnacknowledged, PublishFails, requests
    <3>2. pc' = pc
      BY <1>4, ProducerEffect DEF consumers
    <3> QED
      BY <3>1, <3>2, CreateIsTopic DEF Save, TypeOK
  <2>3. Created(id)' = Created(id)
    BY <2>2 DEF Created
  <2> QED
    BY <1>2, <1>3, <2>1, <2>2, <2>3
<1>5. CASE Accepts
  <2>1. /\ Copies(id)' + Created(id) <= Copies(id) + Created(id)'
        /\ faults' = faults \/ faults' = faults + 1
    BY <1>5, AcceptCopies
  <2>2. ~Save(Create)
    <3>1. pc' = pc
      BY <1>5, AcceptsEffect DEF consumers
    <3> QED
      BY <3>1, CreateIsTopic DEF Save, TypeOK
  <2> QED
    BY <1>2, <1>3, <2>1, <2>2
<1>6. ASSUME topic' = topic, outbox' \subseteq outbox, accepted' = accepted,
             SavesNoMore \/ SavesOneMore
      PROVE  /\ Copies(id)' + Created(id) + faults <= Copies(id) + Created(id)' + faults'
             /\ Save(Create) /\ Current(Create).id = id
                   => Copies(id)' + 1 + Created(id) + faults
                         <= Copies(id) + Created(id)' + faults'
  <2>1. /\ Copies(id) = Cardinality(Unsent(id)) + Cardinality(Unsaved(id))
        /\ Copies(id)' = Cardinality(Unsent(id)') + Cardinality(Unsaved(id)')
        /\ Created(id)' = Created(id)
    BY <1>6 DEF Copies, Created
  <2>2. Unsent(id)' \subseteq Unsent(id)
    BY <1>6 DEF Unsent
  <2>3. /\ Cardinality(Unsent(id)') \in Nat
        /\ Cardinality(Unsent(id)') <= Cardinality(Unsent(id))
    BY <1>1, <2>2, SubsetCounts
  <2>4. CASE SavesOneMore
    <3>1. Unsaved(id)' \subseteq Unsaved(id) \union {offset[Create]}
      BY <1>6, <2>4 DEF Unsaved, SavesOneMore
    <3>2. /\ Cardinality(Unsaved(id)') \in Nat
          /\ Cardinality(Unsaved(id)') <= Cardinality(Unsaved(id)) + 1
      BY <1>1, <3>1, OneMoreCounts
    <3>3. faults' = faults + 1 /\ ~Save(Create)
      BY <2>4 DEF SavesOneMore
    <3> QED
      BY <1>1, <1>2, <2>1, <2>3, <3>2, <3>3
  <2>5. CASE SavesNoMore
    <3>1. Unsaved(id)' \subseteq Unsaved(id) /\ faults <= faults'
      BY <1>6, <2>5 DEF Unsaved, SavesNoMore
    <3>2. /\ Cardinality(Unsaved(id)') \in Nat
          /\ Cardinality(Unsaved(id)') <= Cardinality(Unsaved(id))
      BY <1>1, <3>1, SubsetCounts
    <3>3. ASSUME Save(Create), Current(Create).id = id
          PROVE  Cardinality(Unsaved(id)') + 1 <= Cardinality(Unsaved(id))
      <4>1. offset[Create] \in Unsaved(id)
        BY <3>3, CreateIsTopic, CurrentIsMessage
           DEF Save, AtWork, Unsaved, WillBeSaved, Current
      <4>2. offset[Create] \notin Unsaved(id)'
        <5>1. ~WillBeSaved(offset[Create])' /\ offset' = offset
          BY <2>5, <3>3 DEF SavesNoMore, Save
        <5> QED
          BY <5>1 DEF Unsaved, WillBeSaved
      <4> QED
        BY <1>1, <3>1, <4>1, <4>2, OneLessCounts
    <3>4. Copies(id)' + Created(id) + faults <= Copies(id) + Created(id)' + faults'
      BY <1>1, <1>2, <2>1, <2>3, <3>1, <3>2
    <3>5. ASSUME Save(Create), Current(Create).id = id
          PROVE  Copies(id)' + 1 + Created(id) + faults <= Copies(id) + Created(id)' + faults'
      BY <1>1, <1>2, <2>1, <2>3, <3>1, <3>2, <3>3, <3>5
    <3> QED
      BY <3>4, <3>5
  <2> QED
    BY <1>6, <2>4, <2>5
<1> QED
  BY <1>4, <1>5, <1>6, ConsumersSave

(* Only saving a create makes a row.                                       *)
LEMMA RowsAreMadeBySave ==
    ASSUME TypeOK, OffsetsAreValid, MessagesAreWellFormed, [Next]_vars, NEW id \in Ids
    PROVE  \/ RowCount(id)' <= RowCount(id)
           \/ Save(Create) /\ Current(Create).id = id /\ RowCount(id)' <= RowCount(id) + 1
<1>1. RowCount(id) \in {0, 1} /\ RowCount(id)' \in {0, 1}
  BY DEF RowCount
<1>2. CASE campaigns'[id] = campaigns[id]
  <2>1. RowCount(id)' = RowCount(id)
    BY <1>2 DEF RowCount, Exists
  <2> QED
    BY <1>1, <2>1
<1>3. ASSUME NEW t \in Topics, Save(t), Current(t).id = id
      PROVE  \/ RowCount(id)' <= RowCount(id)
             \/ Save(Create) /\ Current(Create).id = id /\ RowCount(id)' <= RowCount(id) + 1
  <2>1. CASE t = Create
    BY <1>1, <1>3, <2>1
  <2>2. CASE t = Update
    <3>1. Exists(id)
      <4>1. offset[t] \in DOMAIN topic[t]
        BY <1>3, CurrentIsMessage DEF Save, AtWork
      <4> QED
        BY <1>3, <2>2, <4>1 DEF MessagesAreWellFormed, WellFormed, Current
    <3>2. RowCount(id) = 1
      BY <3>1 DEF RowCount
    <3> QED
      BY <1>1, <3>2
  <2> QED
    BY <2>1, <2>2 DEF Topics
<1>4. (\E t \in Topics : Save(t) /\ Current(t).id = id) \/ campaigns'[id] = campaigns[id]
  <2>1. ASSUME NEW t \in Topics, Save(t), Current(t).id # id
        PROVE  campaigns'[id] = campaigns[id]
    BY <2>1 DEF Save, TypeOK
  <2>2. (\E t \in Topics : Save(t)) \/ campaigns' = campaigns
    BY StepCases, AcceptsEffect, ProducerEffect, EndOfAttemptEffect
       DEF tables, Subscribe, SubscribeFails, Poll, Begin, RunTask, FailTask, Crash, vars
  <2> QED
    BY <2>1, <2>2
<1> QED
  BY <1>2, <1>3, <1>4
LEMMA CopiesKeepCovering ==
    ASSUME WritePathInvariant, WritePathInvariant', GoroutinesAreFinite,
           GoroutinesAreFinite', CopiesCover, [Next]_vars
    PROVE  CopiesCover'
<1> USE DEF WritePathInvariant
<1> SUFFICES ASSUME NEW id \in Ids
             PROVE  /\ Placed(id)' + Copies(id)' <= Created(id)' + faults'
                    /\ RowCount(id)' + Copies(id)' <= Created(id)' + faults'
  BY DEF CopiesCover
<1>1. /\ Placed(id) \in Nat /\ Placed(id)' \in Nat
      /\ \/ Placed(id)' <= Placed(id)
         \/ Save(Create) /\ Current(Create).id = id /\ Placed(id)' <= Placed(id) + 1
  BY PlacedGrowsBySave
<1>2. /\ \/ RowCount(id)' <= RowCount(id)
         \/ Save(Create) /\ Current(Create).id = id /\ RowCount(id)' <= RowCount(id) + 1
  BY RowsAreMadeBySave
<1>3. /\ Copies(id)' + Created(id) + faults <= Copies(id) + Created(id)' + faults'
      /\ Save(Create) /\ Current(Create).id = id
            => Copies(id)' + 1 + Created(id) + faults <= Copies(id) + Created(id)' + faults'
  BY CopiesGrow
<1>4. /\ Copies(id) \in Nat /\ Created(id) \in {0, 1} /\ RowCount(id) \in {0, 1}
      /\ faults \in Nat /\ faults' \in Nat
  BY CopiesAreNat DEF TypeOK
<1>5. Copies(id)' \in Nat /\ Created(id)' \in {0, 1} /\ RowCount(id)' \in {0, 1}
  BY CopiesAreNatAfter
<1>6. /\ Placed(id) + Copies(id) <= Created(id) + faults
      /\ RowCount(id) + Copies(id) <= Created(id) + faults
  BY DEF CopiesCover
<1> QED
  BY <1>1, <1>2, <1>3, <1>4, <1>5, <1>6

THEOREM CopiesAreCovered == Spec => []CopiesCover
<1>1. Init => CopiesCover
  <2> SUFFICES ASSUME Init, NEW id \in Ids
               PROVE  /\ Placed(id) + Copies(id) <= Created(id) + faults
                      /\ RowCount(id) + Copies(id) <= Created(id) + faults
    BY DEF CopiesCover
  <2>1. Placed(id) = 0
    BY InitIsFinite
  <2>2. Unsent(id) = {} /\ Unsaved(id) = {} /\ RowCount(id) = 0 /\ faults = 0
    BY CreateIsTopic DEF Init, Unsent, Unsaved, RowCount, Exists
  <2>3. Copies(id) = 0
    BY <2>2, FS_EmptySet DEF Copies
  <2>4. Created(id) \in {0, 1}
    BY DEF Created
  <2> QED
    BY <2>1, <2>2, <2>3, <2>4
<1>2. /\ WritePathInvariant /\ WritePathInvariant' /\ GoroutinesAreFinite
      /\ GoroutinesAreFinite' /\ CopiesCover /\ [Next]_vars
      => CopiesCover'
  BY CopiesKeepCovering
<1> QED
  BY <1>1, <1>2, InvariantHolds, GoroutinesFinite, PTL DEF Spec

(* Only a failure makes a campaign have a second location: without one its *)
(* create is sent once, saved once, and adds one location.                 *)
THEOREM SecondLocationsAreFaults == Spec => []SecondLocationNeedsFault
<1>1. WritePathInvariant /\ GoroutinesAreFinite /\ CopiesCover => SecondLocationNeedsFault
  <2> SUFFICES ASSUME TypeOK, OffsetsAreValid, GoroutinesAreFinite, CopiesCover,
                      NEW id \in Ids
               PROVE  Len(locations[id]) <= 1 + faults
    BY DEF WritePathInvariant, SecondLocationNeedsFault
  <2>1. Len(locations[id]) \in Nat /\ Cardinality(LocationTasks(id)) \in Nat
    BY PlacedIsNat
  <2>2. Copies(id) \in Nat /\ Created(id) \in {0, 1} /\ faults \in Nat
    BY CopiesAreNat DEF TypeOK
  <2>3. Len(locations[id]) + Cardinality(LocationTasks(id)) + Copies(id)
           <= Created(id) + faults
    BY DEF CopiesCover, Placed
  <2> QED
    BY <2>1, <2>2, <2>3
<1> QED
  BY <1>1, InvariantHolds, GoroutinesFinite, CopiesAreCovered, PTL
-----------------------------------------------------------------------------
(* The updates.  The tags of an event are those of its columns, what is    *)
(* carried is at least what the message being saved names, and while       *)
(* nothing failed the row of the update a consumer waits for shows it.     *)
TagsAgree(m) == "tags" \in DOMAIN m.columns => m.columns["tags"] = m.tags

Shows(m) == \A c \in DOMAIN m.columns : campaigns[m.id][c] = m.columns[c]

EventsAgree ==
    /\ \A e \in outbox : TagsAgree(e.message)
    /\ \A t \in Topics : \A o \in DOMAIN topic[t] : TagsAgree(topic[t][o])

IsCarried(m) == \A c \in DOMAIN m.columns : c \in DOMAIN carried /\ carried[c] = m.columns[c]

UpdatesShow ==
    /\ EventsAgree
    /\ pc[Update] = "saving" => IsCarried(Current(Update))
    /\ faults = 0 /\ pc[Update] = "waiting" => Shows(Current(Update))
    /\ RestartKeepsUpdates

LEMMA EventsKeepAgreeing ==
    ASSUME TypeOK, OffsetsAreValid, EventsAgree, [Next]_vars
    PROVE  EventsAgree'
<1>1. \A e \in outbox' : TagsAgree(e.message)
  <2>1. CASE AcceptCreate
    <3>1. PICK c \in Creations :
             Accept(Create, [request |-> accepted + 1, id |-> accepted + 1,
                             columns |-> c.columns, tags |-> c.columns["tags"],
                             location |-> c.location, readable |-> c.readable])
      BY <2>1 DEF AcceptCreate
    <3> DEFINE m == [request |-> accepted + 1, id |-> accepted + 1,
                     columns |-> c.columns, tags |-> c.columns["tags"],
                     location |-> c.location, readable |-> c.readable]
    <3>2. m.columns = c.columns /\ m.tags = c.columns["tags"]
      OBVIOUS
    <3>3. outbox' = outbox \union {[topic |-> Create, message |-> m]}
      BY <3>1 DEF Accept
    <3> HIDE DEF m
    <3>4. TagsAgree(m)
      BY <3>2 DEF TagsAgree
    <3> QED
      BY <3>3, <3>4 DEF EventsAgree
  <2>2. CASE AcceptUpdate
    <3>1. PICK id \in Ids, c \in Changes :
             \E place \in MergedLocations(id, c), tags \in MergedTags(id, c) :
                Accept(Update,
                       [request |-> accepted + 1, id |-> id, columns |-> c.columns,
                        tags |-> tags, location |-> place, readable |-> c.readable])
      BY <2>2 DEF AcceptUpdate
    <3>2. PICK place \in MergedLocations(id, c), tags \in MergedTags(id, c) :
                Accept(Update,
                       [request |-> accepted + 1, id |-> id, columns |-> c.columns,
                        tags |-> tags, location |-> place, readable |-> c.readable])
      BY <3>1
    <3> DEFINE m == [request |-> accepted + 1, id |-> id, columns |-> c.columns,
                     tags |-> tags, location |-> place, readable |-> c.readable]
    <3>3. m.columns = c.columns /\ m.tags = tags
      OBVIOUS
    <3>4. outbox' = outbox \union {[topic |-> Update, message |-> m]}
      BY <3>2 DEF Accept
    <3> HIDE DEF m
    <3>5. TagsAgree(m)
      BY <3>2, <3>3 DEF TagsAgree, MergedTags
    <3> QED
      BY <3>4, <3>5 DEF EventsAgree
  <2>3. CASE outbox' \subseteq outbox
    BY <2>3 DEF EventsAgree
  <2>4. AcceptCreate \/ AcceptUpdate \/ outbox' \subseteq outbox
    BY StepCases, ProducerEffect, EndOfAttemptEffect
       DEF Accepts, requests, Subscribe, SubscribeFails, Poll, Begin, Save, RunTask,
           FailTask, Crash, vars
  <2> QED
    BY <2>1, <2>2, <2>3, <2>4
<1>2. \A t \in Topics : \A o \in DOMAIN topic'[t] : TagsAgree(topic'[t][o])
  <2>1. ASSUME NEW e \in outbox, Appended(e), NEW t \in Topics, NEW o \in DOMAIN topic'[t]
        PROVE  TagsAgree(topic'[t][o])
    <3>1. CASE o \in DOMAIN topic[t]
      BY <2>1, <3>1, AppendedEffect DEF EventsAgree
    <3>2. CASE o \notin DOMAIN topic[t]
      BY <2>1, <3>2, AppendedEffect DEF EventsAgree
    <3> QED
      BY <3>1, <3>2
  <2>2. UNCHANGED topic \/ \E e \in outbox : Appended(e)
    BY StepCases, AcceptsEffect, ProducerEffect, EndOfAttemptEffect
       DEF log, Subscribe, SubscribeFails, Poll, Begin, Save, RunTask, FailTask, Crash, vars
  <2>3. CASE UNCHANGED topic
    BY <2>3 DEF EventsAgree
  <2> QED
    BY <2>1, <2>2, <2>3
<1> QED
  BY <1>1, <1>2 DEF EventsAgree, TagsAgree

(* Beginning to save an update carries its columns, over whatever earlier  *)
(* messages left; nothing else is carried until the save.                  *)
LEMMA ColumnsAreCarried ==
    ASSUME TypeOK, OffsetsAreValid, pc[Update] = "saving" => IsCarried(Current(Update)),
           [Next]_vars, pc'[Update] = "saving"
    PROVE  IsCarried(Current(Update))'
<1>1. pc \in [Topics -> States]
  BY DEF TypeOK
<1>2. CASE Begin(Update)
  <2>1. carried' = Over(Current(Update).columns, carried) /\ Current(Update)' = Current(Update)
    BY <1>2 DEF Begin, Decoded, Carry, log, Current
  <2>2. \A c \in DOMAIN Current(Update).columns :
           c \in DOMAIN carried' /\ carried'[c] = Current(Update).columns[c]
    BY <2>1 DEF Over
  <2> QED
    BY <2>1, <2>2 DEF IsCarried
<1>3. CASE pc[Update] = "saving" /\ UNCHANGED <<carried, offset[Update]>>
  <2>1. offset[Update] \in DOMAIN topic[Update]
    BY <1>3, CreateIsTopic, CurrentIsMessage DEF AtWork
  <2>2. Current(Update)' = Current(Update)
    BY <1>3, <2>1, CreateIsTopic, MessagesStay DEF Current
  <2> QED
    BY <1>3, <2>2 DEF IsCarried
<1>4. ASSUME NEW u \in Topics,
             Subscribe(u) \/ SubscribeFails(u) \/ Poll(u) \/ Begin(u) \/ Save(u)
      PROVE  \/ Begin(Update)
             \/ pc[Update] = "saving" /\ UNCHANGED <<carried, offset[Update]>>
  BY <1>1, <1>4, CreateIsTopic
     DEF Topics, Subscribe, SubscribeFails, Poll, Begin, Save, Decoded, TypeOK
<1>5. ASSUME NEW u \in Topics, EndOfAttempt(u)
      PROVE  pc[Update] = "saving" /\ UNCHANGED <<carried, offset[Update]>>
  <2>1. u # Update /\ pc[Update] = "saving" /\ offset'[Update] = offset[Update]
    BY <1>5, CreateIsTopic, EndOfAttemptEffect DEF Ends
  <2>2. carried' = carried
    BY <1>5, <2>1 DEF EndOfAttempt, DecodeFails, BeginFails, SaveFails, GiveUp, CommitFails,
       Commit, Decoded
  <2> QED
    BY <2>1, <2>2
<1>6. CASE \/ Accepts \/ Producer \/ UNCHANGED vars
           \/ \E task \in tasks : RunTask(task) \/ FailTask(task)
  <2>1. UNCHANGED <<pc, offset, carried>>
    BY <1>6, AcceptsEffect, ProducerEffect DEF RunTask, FailTask, consumers, vars
  <2> QED
    BY <1>3, <2>1
<1>7. ~Crash
  BY CreateIsTopic DEF Crash
<1> QED
  BY <1>2, <1>3, <1>4, <1>5, <1>6, <1>7, StepCases
(* Where nothing failed, a create is saved once: before its row is there.  *)
LEMMA CreatesAreNew ==
    ASSUME TypeOK, OffsetsAreValid, GoroutinesAreFinite, CopiesCover, faults = 0,
           Save(Create)
    PROVE  ~Exists(Current(Create).id)
<1> DEFINE id == Current(Create).id
<1>1. offset[Create] \in DOMAIN topic[Create] /\ id \in Ids
  BY CreateIsTopic, CurrentIsMessage DEF Save, AtWork, Message
<1>2. offset[Create] \in Unsaved(id)
  BY <1>1 DEF Save, Unsaved, WillBeSaved, Current
<1> HIDE DEF id
<1>3. /\ IsFiniteSet(Unsaved(id)) /\ Cardinality(Unsaved(id)) \in Nat
      /\ Cardinality(Unsent(id)) \in Nat
  BY UnsavedAreFinite, UnsentAreFinite
<1>4. 1 <= Cardinality(Unsaved(id))
  BY <1>2, <1>3, OneLessCounts, FS_EmptySet, {} \subseteq Unsaved(id) \ {offset[Create]}
<1>5. /\ RowCount(id) \in {0, 1} /\ Created(id) \in {0, 1}
      /\ RowCount(id) + Cardinality(Unsent(id)) + Cardinality(Unsaved(id)) <= Created(id)
  <2>1. RowCount(id) + Copies(id) <= Created(id) + faults
    BY <1>1 DEF CopiesCover
  <2>2. RowCount(id) \in {0, 1} /\ Created(id) \in {0, 1}
    BY DEF RowCount, Created
  <2> QED
    BY <1>3, <2>1, <2>2 DEF Copies
<1>6. RowCount(id) = 0
  BY <1>3, <1>4, <1>5
<1> QED
  BY <1>6 DEF RowCount, id

(* So the only step that changes a row is the save of one of its updates,  *)
(* after which the row shows that update.                                  *)
LEMMA OnlyUpdatesChangeRows ==
    ASSUME TypeOK, OffsetsAreValid, GoroutinesAreFinite, CopiesCover, faults = 0,
           [Next]_vars, NEW id \in Ids, Exists(id)
    PROVE  \/ campaigns'[id] = campaigns[id]
           \/ Save(Update) /\ Current(Update).id = id
<1>1. ASSUME NEW t \in Topics, Save(t)
      PROVE  campaigns'[id] = campaigns[id] \/ (t = Update /\ Current(t).id = id)
  <2>1. CASE Current(t).id # id
    BY <1>1, <2>1 DEF Save, TypeOK
  <2>2. CASE Current(t).id = id
    <3>1. t # Create
      BY <1>1, <2>2, CreatesAreNew
    <3> QED
      BY <2>2, <3>1 DEF Topics
  <2> QED
    BY <2>1, <2>2
<1>2. (\E t \in Topics : Save(t)) \/ campaigns' = campaigns
  BY StepCases, AcceptsEffect, ProducerEffect, EndOfAttemptEffect
     DEF tables, Subscribe, SubscribeFails, Poll, Begin, RunTask, FailTask, Crash, vars
<1> QED
  BY <1>1, <1>2

LEMMA SaveShows ==
    ASSUME TypeOK, OffsetsAreValid, MessagesAreWellFormed, EventsAgree,
           IsCarried(Current(Update)), Save(Update)
    PROVE  LET m == Current(Update)
           IN  \A c \in DOMAIN m.columns : campaigns'[m.id][c] = m.columns[c]
<1> DEFINE m == Current(Update)
<1>1. offset[Update] \in DOMAIN topic[Update] /\ m \in Message
  BY CreateIsTopic, CurrentIsMessage DEF Save, AtWork
<1>2. m.id \in Ids /\ m.columns \in Partial /\ Exists(m.id)
  <2>1. m.id \in Ids /\ m.columns \in Partial
    BY <1>1 DEF Message
  <2>2. WellFormed(Update, m)
    BY <1>1, CreateIsTopic DEF MessagesAreWellFormed, Current
  <2> QED
    BY <2>1, <2>2 DEF WellFormed
<1>3. TagsAgree(m)
  BY <1>1, CreateIsTopic DEF EventsAgree, Current
<1>4. \A c \in DOMAIN m.columns : c \in DOMAIN carried /\ carried[c] = m.columns[c]
  BY DEF IsCarried
<1>5. campaigns' = [campaigns EXCEPT ![m.id] = Written(Update, m)]
  BY DEF Save
<1> HIDE DEF m
<1>6. Written(Update, m) = [Over(carried, campaigns[m.id]) EXCEPT !["tags"] = m.tags]
  BY <1>2, CreateIsTopic DEF Written
<1>7. campaigns'[m.id] = [Over(carried, campaigns[m.id]) EXCEPT !["tags"] = m.tags]
  BY <1>2, <1>5, <1>6 DEF TypeOK
<1>8. \A c \in DOMAIN m.columns : campaigns'[m.id][c] = m.columns[c]
  <2> SUFFICES ASSUME NEW c \in DOMAIN m.columns
               PROVE  campaigns'[m.id][c] = m.columns[c]
    OBVIOUS
  <2>1. /\ c \in DOMAIN Over(carried, campaigns[m.id])
        /\ Over(carried, campaigns[m.id])[c] = m.columns[c]
    BY <1>4 DEF Over
  <2>2. CASE c = "tags"
    BY <1>3, <1>7, <2>1, <2>2 DEF TagsAgree
  <2>3. CASE c # "tags"
    BY <1>7, <2>1, <2>3
  <2> QED
    BY <2>2, <2>3
<1> QED
  BY <1>8 DEF m

LEMMA WaitingShows ==
    ASSUME WritePathInvariant, GoroutinesAreFinite, CopiesCover, UpdatesShow,
           [Next]_vars, faults = 0, pc'[Update] = "waiting"
    PROVE  Shows(Current(Update))'
<1> USE DEF WritePathInvariant, UpdatesShow
<1>1. CASE Save(Update)
  <2>1. LET m == Current(Update)
        IN  \A c \in DOMAIN m.columns : campaigns'[m.id][c] = m.columns[c]
    BY <1>1, SaveShows DEF Save
  <2>2. Current(Update)' = Current(Update)
    BY <1>1 DEF Save, log, Current
  <2> QED
    BY <2>1, <2>2 DEF Shows
<1>2. CASE GoesOnWaiting(Update)
  <2>1. offset[Update] \in DOMAIN topic[Update] /\ Current(Update) \in Message
    BY <1>2, CreateIsTopic, CurrentIsMessage DEF GoesOnWaiting, AtWork
  <2>2. Current(Update)' = Current(Update)
    BY <1>2, <2>1, CreateIsTopic, MessagesStay DEF GoesOnWaiting, Current
  <2>3. Current(Update).id \in Ids /\ Exists(Current(Update).id)
    BY <1>2, <2>1, CreateIsTopic DEF Message, GoesOnWaiting, WaitingIsAccountedFor
  <2>4. ~Save(Update)
    BY <1>2 DEF GoesOnWaiting, Save
  <2>5. campaigns'[Current(Update).id] = campaigns[Current(Update).id]
    BY <2>3, <2>4, OnlyUpdatesChangeRows
  <2>6. Shows(Current(Update))
    BY <1>2 DEF GoesOnWaiting
  <2> QED
    BY <2>2, <2>5, <2>6 DEF Shows
<1> QED
  BY <1>1, <1>2, CreateIsTopic, WaitingCases

LEMMA OffsetsGrow ==
    ASSUME TypeOK, OffsetsAreValid, HeadIsNext, [Next]_vars, NEW t \in Topics
    PROVE  offset[t] <= offset'[t]
<1>1. offset \in [Topics -> Nat \ {0}] /\ offset[t] \in Nat
  BY DEF TypeOK
<1>2. ASSUME NEW u \in Topics, Subscribe(u)
      PROVE  offset'[t] = offset[t] \/ offset'[t] = Len(topic[t]) + 1
  BY <1>1, <1>2 DEF Subscribe, StartOffset
<1>3. offset[t] <= Len(topic[t]) + 1 /\ Len(topic[t]) \in Nat
  BY OffsetsAreFinite DEF HeadIsNext
<1>4. ASSUME NEW u \in Topics, EndOfAttempt(u)
      PROVE  offset'[t] = offset[t] \/ offset'[t] = offset[t] + 1
  BY <1>4, EndResolvesCurrent
<1>5. \/ offset' = offset
      \/ \E u \in Topics : Subscribe(u) \/ EndOfAttempt(u)
  BY StepCases, AcceptsEffect, ProducerEffect
     DEF consumers, SubscribeFails, Poll, Begin, Save, RunTask, FailTask, Crash, vars
<1> QED
  BY <1>1, <1>2, <1>3, <1>4, <1>5

LEMMA StoredUpdatesKeepShowing ==
    ASSUME WritePathInvariant, HeadIsNext, GoroutinesAreFinite, CopiesCover, UpdatesShow,
           [Next]_vars, faults = 0, NEW o \in DOMAIN outcome'[Update], IsLatest(o)'
    PROVE  Shows(topic[Update][o])'
<1> USE DEF WritePathInvariant, UpdatesShow
<1>1. /\ outcome'[Update][o] = "stored"
      /\ \A p \in DOMAIN topic'[Update] :
            o < p /\ p <= offset'[Update] => topic'[Update][p].id # topic'[Update][o].id
  BY DEF IsLatest, Stored
<1>2. /\ o \in DOMAIN outcome[Update] /\ o \in DOMAIN topic[Update]
      /\ Stored(Update, o) \/ (Commit(Update) /\ o = offset[Update])
  BY <1>1, CreateIsTopic, OnlyCommitStores
<1>3. \A p \in DOMAIN topic[Update] :
         p \in DOMAIN topic'[Update] /\ topic'[Update][p] = topic[Update][p]
  BY CreateIsTopic, MessagesStay
<1> DEFINE m == topic[Update][o]
<1>4. m \in Message /\ m.id \in Ids /\ Exists(m.id)
  <2>1. topic[Update] \in Seq(Message)
    BY CreateIsTopic DEF TypeOK
  <2>2. m \in Message
    BY <1>2, <2>1
  <2>3. WellFormed(Update, m)
    BY <1>2, CreateIsTopic DEF MessagesAreWellFormed
  <2> QED
    BY <2>2, <2>3 DEF Message, WellFormed
<1>5. /\ DOMAIN topic[Update] = 1 .. Len(topic[Update]) /\ Len(topic[Update]) \in Nat
      /\ DOMAIN outcome[Update] = DOMAIN topic[Update]
      /\ Len(outcome[Update]) = Len(topic[Update])
      /\ offset[Update] \in Nat /\ offset'[Update] \in Nat /\ offset[Update] <= offset'[Update]
  <2>1. offset[Update] <= offset'[Update]
    BY CreateIsTopic, OffsetsGrow
  <2>2. offset'[Update] \in Nat
    <3>1. TypeOK'
      BY StepKeepsInvariant
    <3> QED
      BY <3>1, CreateIsTopic DEF TypeOK
  <2>3. Len(outcome[Update]) = Len(topic[Update])
    BY CreateIsTopic DEF OffsetsAreValid
  <2>4. offset[Update] \in Nat
    BY CreateIsTopic DEF TypeOK
  <2> QED
    BY <2>1, <2>2, <2>3, <2>4, CreateIsTopic, OffsetsAreFinite
<1>6. Shows(m)
  <2>1. CASE Stored(Update, o)
    <3>1. IsLatest(o)
      <4> SUFFICES ASSUME NEW p \in DOMAIN topic[Update], o < p, p <= offset[Update]
                   PROVE  topic[Update][p].id # topic[Update][o].id
        BY <2>1 DEF IsLatest
      <4>1. p <= offset'[Update]
        BY <1>5
      <4> QED
        BY <1>1, <1>2, <1>3, <4>1
    <3> QED
      BY <1>2, <3>1 DEF RestartKeepsUpdates, StoredUpdateHolds, Shows
  <2>2. CASE Commit(Update) /\ o = offset[Update]
    BY <2>2 DEF Commit, AllWritten, Current
  <2> QED
    BY <1>2, <2>1, <2>2
<1>7. campaigns'[m.id] = campaigns[m.id]
  <2> SUFFICES ASSUME Save(Update), Current(Update).id = m.id
               PROVE  FALSE
    BY <1>4, OnlyUpdatesChangeRows
  <2>1. AtWork(Update) /\ Listens(Update) /\ offset' = offset
    BY DEF Save, AtWork, Listens
  <2>2. offset[Update] \in DOMAIN topic[Update] /\ outcome[Update][offset[Update]] = "pending"
    BY <1>5, <2>1, CreateIsTopic, CurrentIsHead
  <2>3. outcome[Update][o] = "stored"
    BY <1>2 DEF Commit, AllWritten, Save, Stored
  <2>4. ~(offset[Update] <= o)
    BY <1>2, <1>5, <2>1, <2>3, CreateIsTopic DEF HeadIsNext
  <2>5. o < offset[Update]
    BY <1>2, <1>5, <2>4
  <2> QED
    BY <1>1, <1>2, <1>3, <1>5, <2>1, <2>2, <2>5 DEF Current
<1> QED
  BY <1>2, <1>3, <1>6, <1>7 DEF Shows
LEMMA UpdatesKeepShowing ==
    ASSUME WritePathInvariant, HeadIsNext, GoroutinesAreFinite, CopiesCover, UpdatesShow,
           [Next]_vars
    PROVE  UpdatesShow'
<1>1. EventsAgree'
  BY EventsKeepAgreeing DEF WritePathInvariant, UpdatesShow
<1>2. pc'[Update] = "saving" => IsCarried(Current(Update))'
  BY ColumnsAreCarried DEF WritePathInvariant, UpdatesShow
<1>3. faults' = 0 => faults = 0
  <2>1. faults \in Nat
    BY DEF WritePathInvariant, TypeOK
  <2> QED
    BY <2>1, FaultsGrow
<1>4. faults' = 0 /\ pc'[Update] = "waiting" => Shows(Current(Update))'
  BY <1>3, WaitingShows
<1>5. RestartKeepsUpdates'
  <2> SUFFICES ASSUME faults' = 0, NEW o \in DOMAIN outcome'[Update], IsLatest(o)'
               PROVE  Shows(topic[Update][o])'
    BY DEF RestartKeepsUpdates, StoredUpdateHolds, Shows
  <2> QED
    BY <1>3, StoredUpdatesKeepShowing
<1> QED
  BY <1>1, <1>2, <1>4, <1>5 DEF UpdatesShow

(* No restart takes a stored update back, and no late create and no column *)
(* left over from an earlier message undoes it: while no call fails, the   *)
(* row of a campaign shows the latest of its updates that was read.        *)
THEOREM RestartsKeepUpdates == Spec => []RestartKeepsUpdates
<1>1. Init => UpdatesShow
  <2> SUFFICES ASSUME Init
               PROVE  UpdatesShow
    OBVIOUS
  <2>1. EventsAgree
    BY DEF Init, EventsAgree
  <2>2. pc[Update] = "opening" /\ outcome[Update] = << >>
    BY CreateIsTopic DEF Init
  <2> QED
    BY <2>1, <2>2 DEF UpdatesShow, RestartKeepsUpdates, StoredUpdateHolds
<1>2. /\ WritePathInvariant /\ HeadIsNext /\ GoroutinesAreFinite /\ CopiesCover
      /\ UpdatesShow /\ [Next]_vars
      => UpdatesShow'
  BY UpdatesKeepShowing
<1>3. UpdatesShow => RestartKeepsUpdates
  BY DEF UpdatesShow
<1> QED
  BY <1>1, <1>2, <1>3, InvariantHolds, HeadsAreNext, GoroutinesFinite, CopiesAreCovered, PTL
     DEF Spec

(* Where no call can fail, a stored update shows until the next one of its *)
(* campaign is read.                                                       *)
THEOREM StoredUpdatesHold ==
    ASSUME MaxFaults = 0
    PROVE  Spec => []StoredUpdateHolds
<1>1. WritePathInvariant /\ RestartKeepsUpdates => StoredUpdateHolds
  <2> SUFFICES ASSUME WritePathInvariant, RestartKeepsUpdates
               PROVE  StoredUpdateHolds
    OBVIOUS
  <2>1. faults = 0
    BY DEF WritePathInvariant, TypeOK
  <2> QED
    BY <2>1 DEF RestartKeepsUpdates
<1> QED
  BY <1>1, InvariantHolds, RestartsKeepUpdates, PTL
=============================================================================

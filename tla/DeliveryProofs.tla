--------------------------- MODULE DeliveryProofs ---------------------------
(***************************************************************************)
(* CampaignWritePath implements OrderedDelivery, once for each topic.      *)
(*                                                                         *)
(* What a topic's consumer has passed is resolved, and what it has not is  *)
(* pending: so that the message it resolves is the first pending one.      *)
(***************************************************************************)
EXTENDS CampaignWritePathProofs

Listens(t) == pc[t] = "polling" \/ AtWork(t)

HeadIsNext ==
    \A t \in Topics :
        /\ offset[t] <= Len(topic[t]) + 1
        /\ \A o \in 1 .. Len(outcome[t]) : o < offset[t] => outcome[t][o] # "pending"
        /\ Listens(t) =>
              \A o \in 1 .. Len(outcome[t]) : offset[t] <= o => outcome[t][o] = "pending"

(* The steps of OrderedDelivery, for a topic of CampaignWritePath.         *)
IsPublished(t) ==
    \E m \in Ids :
        /\ Requests(t)' = Append(Requests(t), m)
        /\ outcome'[t] = Append(outcome[t], "pending")

IsResolvedNext(t) ==
    /\ \E result \in {"stored", "dropped"} :
          outcome'[t] = [outcome[t] EXCEPT ![offset[t]] = result]
    /\ Requests(t)' = Requests(t)

IsGivenUp(t) ==
    /\ outcome'[t] = [o \in DOMAIN outcome[t] |->
                        IF outcome[t][o] = "pending" THEN "skipped" ELSE outcome[t][o]]
    /\ Requests(t)' = Requests(t)

Stutters(t) == outcome'[t] = outcome[t] /\ Requests(t)' = Requests(t)
-----------------------------------------------------------------------------
(* Finish resolves the message its consumer is at, and goes on to the next *)
(* one; no end of an attempt does anything else to outcomes and offsets.   *)
LEMMA EndResolvesCurrent ==
    ASSUME TypeOK, OffsetsAreValid, NEW t \in Topics, EndOfAttempt(t)
    PROVE  /\ \A u \in Topics \ {t} : UNCHANGED <<outcome[u], offset[u], pc[u]>>
           /\ \/ UNCHANGED <<outcome[t], offset[t]>>
              \/ /\ IsResolvedNext(t)
                 /\ offset'[t] = offset[t] + 1
<1>1. AtWork(t) /\ topic' = topic /\ Ends(t, {"stored", "dropped"})
  BY EndOfAttemptEffect
<1>2. \/ UNCHANGED <<outcome, offset>>
      \/ \E result \in {"stored", "dropped"} : Finish(t, result)
  BY DEF EndOfAttempt, DecodeFails, BeginFails, SaveFails, GiveUp, CommitFails, Commit,
         Retry
<1>3. CASE UNCHANGED <<outcome, offset>>
  BY <1>1, <1>3 DEF Ends
<1>4. ASSUME NEW result \in {"stored", "dropped"}, Finish(t, result)
      PROVE  /\ \A u \in Topics \ {t} : UNCHANGED <<outcome[u], offset[u], pc[u]>>
             /\ IsResolvedNext(t) /\ offset'[t] = offset[t] + 1
  <2>1. outcome' = [outcome EXCEPT ![t] = [outcome[t] EXCEPT ![offset[t]] = result]]
    BY <1>4 DEF Finish
  <2>2. /\ outcome'[t] = [outcome[t] EXCEPT ![offset[t]] = result]
        /\ \A u \in Topics \ {t} : outcome'[u] = outcome[u]
    BY <2>1 DEF TypeOK
  <2>3. /\ offset'[t] = offset[t] + 1
        /\ \A u \in Topics \ {t} : offset'[u] = offset[u] /\ pc'[u] = pc[u]
    BY <1>4 DEF Finish, TypeOK
  <2> QED
    BY <1>1, <2>2, <2>3 DEF IsResolvedNext, Requests
<1> QED
  BY <1>2, <1>3, <1>4

(* An appended event appends its request, and a pending outcome.           *)
LEMMA AppendedIsPublished ==
    ASSUME TypeOK, OffsetsAreValid, NEW e \in outbox, Appended(e), NEW t \in Topics
    PROVE  IsPublished(t) \/ Stutters(t)
<1>1. e.topic \in Topics /\ e.message \in Message /\ e.message.request \in Ids
  BY DEF TypeOK, Envelope, Message
<1>2. CASE t # e.topic
  <2>1. topic'[t] = topic[t] /\ outcome'[t] = outcome[t]
    BY <1>2 DEF Appended, TypeOK
  <2> QED
    BY <2>1 DEF Stutters, Requests
<1>3. CASE t = e.topic
  <2>1. /\ topic'[t] = Append(topic[t], e.message)
        /\ outcome'[t] = Append(outcome[t], "pending")
    BY <1>1, <1>3 DEF Appended, TypeOK
  <2>2. PICK n \in Nat : n = Len(topic[t])
    BY DEF TypeOK
  <2>3. topic[t] \in Seq(Message) /\ DOMAIN topic[t] = 1 .. n
    BY <2>2 DEF TypeOK
  <2>4. /\ DOMAIN topic'[t] = 1 .. n + 1
        /\ \A o \in 1 .. n : topic'[t][o] = topic[t][o]
        /\ topic'[t][n + 1] = e.message
    BY <1>1, <2>1, <2>2, <2>3
  <2>5. \A o \in 1 .. n : topic[t][o].request \in Ids
    <3>1. \A o \in 1 .. n : topic[t][o] \in Message
      BY <2>2, <2>3, ElementOfSeq
    <3> QED
      BY <3>1 DEF Message
  <2>6. /\ Requests(t) = [o \in 1 .. n |-> topic[t][o].request]
        /\ Requests(t) \in Seq(Ids) /\ Len(Requests(t)) = n
    BY <2>3, <2>5 DEF Requests
  <2>7. Requests(t)' = [o \in 1 .. n + 1 |-> topic'[t][o].request]
    BY <2>4 DEF Requests
  <2>8. Append(Requests(t), e.message.request) =
           [o \in 1 .. n + 1 |-> IF o <= n THEN Requests(t)[o] ELSE e.message.request]
    BY <1>1, <2>6
  <2>9. \A o \in 1 .. n + 1 :
           topic'[t][o].request = IF o <= n THEN Requests(t)[o] ELSE e.message.request
    <3> TAKE o \in 1 .. n + 1
    <3>1. CASE o <= n
      BY <2>4, <2>6, <3>1
    <3>2. CASE ~(o <= n)
      <4>1. o = n + 1
        BY <3>2
      <4> QED
        BY <2>4, <3>2, <4>1
    <3> QED
      BY <3>1, <3>2
  <2> QED
    BY <1>1, <2>1, <2>7, <2>8, <2>9 DEF IsPublished
<1> QED
  BY <1>2, <1>3

(* Every step is one of OrderedDelivery, or none, for each topic.          *)
LEMMA StepsAreDelivery ==
    ASSUME TypeOK, OffsetsAreValid, [Next]_vars, NEW t \in Topics
    PROVE  \/ Stutters(t)
           \/ IsPublished(t)
           \/ AtWork(t) /\ IsResolvedNext(t)
           \/ IsGivenUp(t)
<1>1. CASE Producer
  <2>1. CASE UNCHANGED log
    BY <2>1 DEF log, Stutters, Requests
  <2>2. CASE \E e \in outbox : Appended(e)
    BY <2>2, AppendedIsPublished
  <2> QED
    BY <1>1, <2>1, <2>2, ProducerEffect
<1>2. ASSUME NEW u \in Topics, EndOfAttempt(u)
      PROVE  Stutters(t) \/ (AtWork(t) /\ IsResolvedNext(t))
  <2>1. topic' = topic /\ AtWork(u)
    BY <1>2, EndOfAttemptEffect
  <2> QED
    BY <1>2, <2>1, EndResolvesCurrent DEF Stutters, Requests
<1>3. ASSUME NEW u \in Topics, Subscribe(u)
      PROVE  Stutters(t) \/ IsGivenUp(t)
  <2>1. topic' = topic
    BY <1>3 DEF Subscribe
  <2>2. CASE u = t
    BY <1>3, <2>1, <2>2 DEF Subscribe, TypeOK, IsGivenUp, Requests
  <2>3. CASE u # t
    BY <1>3, <2>1, <2>3 DEF Subscribe, TypeOK, Stutters, Requests
  <2> QED
    BY <2>2, <2>3
<1>4. CASE UNCHANGED log
  BY <1>4 DEF log, Stutters, Requests
<1>5. \/ Producer
      \/ \E u \in Topics : Subscribe(u) \/ EndOfAttempt(u)
      \/ UNCHANGED log
  BY StepCases, AcceptsEffect DEF SubscribeFails, Poll, Begin, Save, RunTask, FailTask,
     Crash, vars, log
<1> QED
  BY <1>1, <1>2, <1>3, <1>4, <1>5
-----------------------------------------------------------------------------
LEMMA HeadIsKept ==
    ASSUME TypeOK, OffsetsAreValid, HeadIsNext, [Next]_vars
    PROVE  HeadIsNext'
<1> SUFFICES ASSUME NEW t \in Topics
             PROVE  /\ offset'[t] <= Len(topic'[t]) + 1
                    /\ \A o \in 1 .. Len(outcome'[t]) :
                          o < offset'[t] => outcome'[t][o] # "pending"
                    /\ Listens(t)' =>
                          \A o \in 1 .. Len(outcome'[t]) :
                              offset'[t] <= o => outcome'[t][o] = "pending"
  BY DEF HeadIsNext
<1>1. /\ offset[t] \in Nat \ {0} /\ offset[t] <= Len(topic[t]) + 1
      /\ Len(outcome[t]) = Len(topic[t]) /\ Len(topic[t]) \in Nat
      /\ outcome[t] \in Seq(Outcomes)
      /\ \A o \in 1 .. Len(outcome[t]) : o < offset[t] => outcome[t][o] # "pending"
      /\ Listens(t) =>
            \A o \in 1 .. Len(outcome[t]) : offset[t] <= o => outcome[t][o] = "pending"
  BY DEF TypeOK, OffsetsAreValid, HeadIsNext
<1>2. CASE UNCHANGED <<topic[t], outcome[t], offset[t]>> /\ (Listens(t)' => Listens(t))
  BY <1>1, <1>2
<1>3. CASE Producer
  <2>1. UNCHANGED <<pc, offset>>
    BY <1>3, ProducerEffect DEF consumers
  <2>2. CASE UNCHANGED log
    BY <1>2, <2>1, <2>2 DEF log, Listens, AtWork
  <2>3. CASE \E e \in outbox : Appended(e)
    <3>1. PICK e \in outbox : Appended(e)
      BY <2>3
    <3>2. /\ Len(outcome'[t]) = Len(topic'[t])
          /\ Len(topic[t]) <= Len(topic'[t])
          /\ \A o \in DOMAIN topic[t] : outcome'[t][o] = outcome[t][o]
          /\ \A o \in DOMAIN topic'[t] \ DOMAIN topic[t] : outcome'[t][o] = "pending"
      BY <3>1, AppendedEffect
    <3>3. /\ DOMAIN topic[t] = 1 .. Len(topic[t])
          /\ DOMAIN topic'[t] = 1 .. Len(topic'[t]) /\ Len(topic'[t]) \in Nat
      <4>1. topic' \in [Topics -> Seq(Message)] /\ topic \in [Topics -> Seq(Message)]
        BY <3>1, AppendedTypes DEF TypeOK
      <4> QED
        BY <4>1
    <3>4. offset'[t] = offset[t] /\ (Listens(t)' <=> Listens(t))
      BY <2>1 DEF Listens, AtWork
    <3>5. \A o \in 1 .. Len(outcome'[t]) :
             \/ o \in 1 .. Len(outcome[t]) /\ outcome'[t][o] = outcome[t][o]
             \/ offset[t] <= o /\ outcome'[t][o] = "pending"
      BY <1>1, <3>2, <3>3
    <3>6. offset'[t] <= Len(topic'[t]) + 1
      BY <1>1, <3>2, <3>3, <3>4
    <3>7. \A o \in 1 .. Len(outcome'[t]) : o < offset'[t] => outcome'[t][o] # "pending"
      BY <1>1, <3>2, <3>3, <3>4, <3>5
    <3>8. Listens(t)' => \A o \in 1 .. Len(outcome'[t]) :
             offset'[t] <= o => outcome'[t][o] = "pending"
      BY <1>1, <3>4, <3>5
    <3> QED
      BY <3>6, <3>7, <3>8
  <2> QED
    BY <1>3, <2>2, <2>3, ProducerEffect
<1>4. ASSUME NEW u \in Topics, Subscribe(u)
      PROVE  /\ offset'[t] <= Len(topic'[t]) + 1
             /\ \A o \in 1 .. Len(outcome'[t]) :
                   o < offset'[t] => outcome'[t][o] # "pending"
             /\ Listens(t)' => \A o \in 1 .. Len(outcome'[t]) :
                   offset'[t] <= o => outcome'[t][o] = "pending"
  <2>1. CASE u # t
    <3>1. UNCHANGED <<topic[t], outcome[t], offset[t], pc[t]>>
      BY <1>4, <2>1 DEF Subscribe, TypeOK
    <3> QED
      BY <1>1, <3>1 DEF Listens, AtWork
  <2>2. CASE u = t
    <3>1. /\ topic' = topic
          /\ offset'[t] = Len(topic[t]) + 1
          /\ outcome'[t] = [o \in DOMAIN outcome[t] |->
                              IF outcome[t][o] = "pending" THEN "skipped" ELSE outcome[t][o]]
      BY <1>4, <2>2 DEF Subscribe, StartOffset, TypeOK
    <3>2. DOMAIN outcome[t] = 1 .. Len(outcome[t]) /\ Len(outcome'[t]) = Len(outcome[t])
      BY <1>1, <1>4, SubscribeEffect
    <3>3. \A o \in 1 .. Len(outcome[t]) : outcome'[t][o] # "pending" /\ o < offset'[t]
      BY <1>1, <3>1, <3>2
    <3> QED
      BY <1>1, <3>1, <3>2, <3>3
  <2> QED
    BY <2>1, <2>2
<1>5. ASSUME NEW u \in Topics, EndOfAttempt(u)
      PROVE  /\ offset'[t] <= Len(topic'[t]) + 1
             /\ \A o \in 1 .. Len(outcome'[t]) :
                   o < offset'[t] => outcome'[t][o] # "pending"
             /\ Listens(t)' => \A o \in 1 .. Len(outcome'[t]) :
                   offset'[t] <= o => outcome'[t][o] = "pending"
  <2>1. AtWork(u) /\ topic' = topic
    BY <1>5, EndOfAttemptEffect
  <2>2. Listens(t)' => Listens(t)
    BY <1>5, <2>1, EndResolvesCurrent DEF Listens, AtWork
  <2>3. CASE UNCHANGED <<outcome[t], offset[t]>>
    BY <1>1, <2>1, <2>2, <2>3
  <2>4. CASE u = t /\ IsResolvedNext(t) /\ offset'[t] = offset[t] + 1
    <3>1. PICK result \in {"stored", "dropped"} :
             outcome'[t] = [outcome[t] EXCEPT ![offset[t]] = result]
      BY <2>4 DEF IsResolvedNext
    <3>2. offset[t] \in 1 .. Len(outcome[t])
      BY <1>1, <2>1, <2>4 DEF AtWork, OffsetsAreValid
    <3>3. /\ Len(outcome'[t]) = Len(outcome[t])
          /\ \A o \in 1 .. Len(outcome[t]) :
                outcome'[t][o] = IF o = offset[t] THEN result ELSE outcome[t][o]
      BY <1>1, <3>1, <3>2
    <3>4. Listens(t)
      BY <2>1, <2>4 DEF Listens
    <3>5. offset'[t] <= Len(topic'[t]) + 1
      BY <1>1, <2>1, <2>4, <3>2
    <3>6. \A o \in 1 .. Len(outcome'[t]) : o < offset'[t] => outcome'[t][o] # "pending"
      <4> TAKE o \in 1 .. Len(outcome'[t])
      <4>1. CASE o = offset[t]
        BY <3>2, <3>3, <4>1
      <4>2. CASE o < offset[t]
        BY <1>1, <3>3, <4>2
      <4> QED
        BY <1>1, <2>4, <3>3, <4>1, <4>2
    <3>7. \A o \in 1 .. Len(outcome'[t]) : offset'[t] <= o => outcome'[t][o] = "pending"
      BY <1>1, <2>4, <3>3, <3>4
    <3> QED
      BY <3>5, <3>6, <3>7
  <2> QED
    BY <1>5, <2>3, <2>4, EndResolvesCurrent
<1>6. ASSUME NEW u \in Topics, SubscribeFails(u) \/ Poll(u) \/ Begin(u) \/ Save(u)
      PROVE  UNCHANGED <<topic[t], outcome[t], offset[t]>> /\ (Listens(t)' => Listens(t))
  BY <1>6 DEF SubscribeFails, Poll, Begin, Save, log, Listens, AtWork, TypeOK
<1>7. CASE Accepts \/ (\E task \in tasks : RunTask(task) \/ FailTask(task)) \/ UNCHANGED vars
  <2>1. UNCHANGED <<topic, outcome, offset, pc>>
    BY <1>7, AcceptsEffect DEF RunTask, FailTask, log, consumers, vars
  <2> QED
    BY <1>2, <2>1 DEF Listens, AtWork
<1>8. CASE Crash
  BY <1>2, <1>8 DEF Crash, log, Listens, AtWork
<1> QED
  BY <1>2, <1>3, <1>4, <1>5, <1>6, <1>7, <1>8, StepCases

THEOREM HeadsAreNext == Spec => []HeadIsNext
<1>1. Init => HeadIsNext
  BY DEF Init, HeadIsNext, Listens, AtWork
<1>2. WritePathInvariant /\ HeadIsNext /\ [Next]_vars => HeadIsNext'
  BY HeadIsKept DEF WritePathInvariant
<1> QED
  BY <1>1, <1>2, InvariantHolds, PTL DEF Spec
-----------------------------------------------------------------------------
(* What a consumer at work is at is the first pending message.             *)
LEMMA CurrentIsHead ==
    ASSUME TypeOK, OffsetsAreValid, HeadIsNext, NEW t \in Topics, AtWork(t)
    PROVE  /\ offset[t] \in DOMAIN outcome[t]
           /\ outcome[t][offset[t]] = "pending"
           /\ \A p \in 1 .. offset[t] - 1 : outcome[t][p] # "pending"
<1>1. /\ offset[t] \in Nat \ {0} /\ offset[t] <= Len(outcome[t])
      /\ Len(outcome[t]) \in Nat /\ DOMAIN outcome[t] = 1 .. Len(outcome[t])
  BY DEF TypeOK, OffsetsAreValid, AtWork
<1> QED
  BY <1>1 DEF HeadIsNext, Listens

LEMMA CreateStepsAreDelivery ==
    ASSUME TypeOK, OffsetsAreValid, HeadIsNext, [Next]_vars
    PROVE  [CreateDelivery!Next]_(CreateDelivery!vars)
<1>1. CASE Stutters(Create)
  BY <1>1 DEF Stutters, CreateDelivery!vars
<1>2. CASE IsPublished(Create)
  BY <1>2 DEF IsPublished, CreateDelivery!Next, CreateDelivery!Publish
<1>3. CASE AtWork(Create) /\ IsResolvedNext(Create)
  <2>1. Create \in Topics
    BY DEF Topics
  <2> QED
    BY <1>3, <2>1, CurrentIsHead DEF IsResolvedNext, CreateDelivery!Next,
       CreateDelivery!Resolve, CreateDelivery!IsHead, CreateDelivery!Pending
<1>4. CASE IsGivenUp(Create)
  BY <1>4 DEF IsGivenUp, CreateDelivery!Next, CreateDelivery!Resubscribe,
     CreateDelivery!Pending
<1> QED
  BY <1>1, <1>2, <1>3, <1>4, StepsAreDelivery DEF Topics

LEMMA UpdateStepsAreDelivery ==
    ASSUME TypeOK, OffsetsAreValid, HeadIsNext, [Next]_vars
    PROVE  [UpdateDelivery!Next]_(UpdateDelivery!vars)
<1>1. CASE Stutters(Update)
  BY <1>1 DEF Stutters, UpdateDelivery!vars
<1>2. CASE IsPublished(Update)
  BY <1>2 DEF IsPublished, UpdateDelivery!Next, UpdateDelivery!Publish
<1>3. CASE AtWork(Update) /\ IsResolvedNext(Update)
  <2>1. Update \in Topics
    BY DEF Topics
  <2> QED
    BY <1>3, <2>1, CurrentIsHead DEF IsResolvedNext, UpdateDelivery!Next,
       UpdateDelivery!Resolve, UpdateDelivery!IsHead, UpdateDelivery!Pending
<1>4. CASE IsGivenUp(Update)
  BY <1>4 DEF IsGivenUp, UpdateDelivery!Next, UpdateDelivery!Resubscribe,
     UpdateDelivery!Pending
<1> QED
  BY <1>1, <1>2, <1>3, <1>4, StepsAreDelivery DEF Topics

(* Each topic with its consumer is an ordered at-most-once delivery: the   *)
(* messages are resolved in the order in which the producer appended them, *)
(* each once, whatever fails, is sent twice or restarts.                   *)
THEOREM TopicsDeliverInOrder == Spec => MessagesAreDeliveredInOrder
<1>1. Init => CreateDelivery!Init /\ UpdateDelivery!Init
  BY DEF Init, CreateDelivery!Init, UpdateDelivery!Init, Requests, Topics
<1>2. WritePathInvariant /\ HeadIsNext /\ [Next]_vars
         => [CreateDelivery!Next]_(CreateDelivery!vars)
  BY CreateStepsAreDelivery DEF WritePathInvariant
<1>3. WritePathInvariant /\ HeadIsNext /\ [Next]_vars
         => [UpdateDelivery!Next]_(UpdateDelivery!vars)
  BY UpdateStepsAreDelivery DEF WritePathInvariant
<1> QED
  BY <1>1, <1>2, <1>3, InvariantHolds, HeadsAreNext, PTL
     DEF Spec, MessagesAreDeliveredInOrder, CreateDelivery!Spec, UpdateDelivery!Spec
=============================================================================

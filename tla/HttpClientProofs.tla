-------------------------- MODULE HttpClientProofs --------------------------
(***************************************************************************)
(* Proofs about HttpClient, for any timeout, number of retries, and waits. *)
(***************************************************************************)
EXTENDS HttpClient, TLAPS

(* What the properties rest on: only Tick moves the time, and not once the *)
(* deadline has come; a wait begins only while attempts are left.          *)
HttpTyped == call \in HttpCallType /\ attempt \in Nat /\ now \in Nat

AttemptsAreLeft ==
    /\ httpStage = "idle" => attempt = 0
    /\ httpStage = "doing" => attempt <= call.retries
    /\ httpStage = "waiting" => attempt < call.retries

NothingIsReturnedYet == httpStage # "returned" => returned = "none"

HttpInvariant ==
    HttpTyped /\ AttemptsAreLeft /\ NothingIsReturnedYet /\ ReturnsByDeadline
    /\ OutcomeIsJustified
-----------------------------------------------------------------------------
LEMMA HttpInitEstablishesInvariant ==
    ASSUME HttpInit
    PROVE  HttpInvariant
<1>1. HttpTyped
  BY HttpAssumption DEF HttpInit, HttpTyped
<1>2. AttemptsAreLeft /\ NothingIsReturnedYet
  BY DEF HttpInit, AttemptsAreLeft, NothingIsReturnedYet
<1>3. ReturnsByDeadline
  BY <1>1 DEF HttpInit, HttpTyped, HttpCallType, ReturnsByDeadline
<1>4. OutcomeIsJustified
  BY DEF HttpInit, OutcomeIsJustified
<1> QED
  BY <1>1, <1>2, <1>3, <1>4 DEF HttpInvariant

(* A step that returns leaves the time and the attempts alone, so that     *)
(* only what it returns has to be justified.                               *)
LEMMA ReturnKeepsInvariant ==
    ASSUME HttpInvariant, NEW res, Return(res),
           attempt <= call.retries \/ attempt = 0,
           res \in {"serverError", "connectError"} => attempt = call.retries,
           res \in {"deadline", "nothing"} => Expired,
           res = "unprocessed" => call.retries < 0
    PROVE  HttpInvariant'
<1>1. /\ httpStage' = "returned"
      /\ returned' = res
      /\ UNCHANGED <<call, attempt, now>>
  BY DEF Return
<1>2. (HttpTyped /\ AttemptsAreLeft /\ NothingIsReturnedYet /\ ReturnsByDeadline)'
  BY <1>1 DEF HttpInvariant, HttpTyped, AttemptsAreLeft, NothingIsReturnedYet,
              ReturnsByDeadline
<1>3. OutcomeIsJustified'
  BY <1>1 DEF OutcomeIsJustified, Expired
<1> QED
  BY <1>2, <1>3 DEF HttpInvariant

(* A step within the call: nothing is returned, the time goes on only      *)
(* before the deadline, an attempt is begun only if it is left.            *)
LEMMA StepWithinCallKeepsInvariant ==
    ASSUME HttpInvariant, UNCHANGED <<call, returned>>, httpStage # "returned",
           httpStage' \in {"doing", "waiting"}, attempt' \in Nat,
           now' = now \/ (now' = now + 1 /\ ~Expired),
           AttemptsAreLeft'
    PROVE  HttpInvariant'
<1>1. /\ call \in HttpCallType /\ now \in Nat
      /\ returned = "none"
      /\ call.timeout \in Nat /\ call.retries \in Int
  BY DEF HttpInvariant, HttpTyped, HttpCallType, NothingIsReturnedYet
<1>2. HttpTyped' /\ NothingIsReturnedYet'
  BY <1>1 DEF HttpTyped, NothingIsReturnedYet
<1>3. ReturnsByDeadline'
  BY <1>1 DEF HttpInvariant, ReturnsByDeadline, Expired
<1>4. OutcomeIsJustified'
  <2>1. attempt' <= call'.retries
    BY <1>1 DEF AttemptsAreLeft
  <2> QED
    BY <1>1, <2>1 DEF OutcomeIsJustified
<1> QED
  BY <1>2, <1>3, <1>4 DEF HttpInvariant

LEMMA HttpStepKeepsInvariant ==
    ASSUME HttpInvariant, [HttpNext]_httpVars
    PROVE  HttpInvariant'
<1>1. /\ HttpTyped /\ AttemptsAreLeft /\ NothingIsReturnedYet /\ OutcomeIsJustified
      /\ call.retries \in Int /\ attempt \in Nat
  BY DEF HttpInvariant, HttpTyped, HttpCallType
<1>2. CASE StartCall
  <2>1. httpStage = "idle" /\ attempt = 0
    BY <1>1, <1>2 DEF StartCall, AttemptsAreLeft
  <2>2. CASE Return("badRequest")
    BY <2>1, <2>2, ReturnKeepsInvariant
  <2>3. CASE call.retries < 0 /\ Return("unprocessed")
    BY <2>1, <2>3, ReturnKeepsInvariant
  <2>4. CASE call.retries >= 0 /\ httpStage' = "doing"
                /\ UNCHANGED <<call, attempt, now, began, wake, returned>>
    <3>1. AttemptsAreLeft'
      BY <1>1, <2>1, <2>4 DEF AttemptsAreLeft
    <3> QED
      BY <1>1, <2>1, <2>4, <3>1, StepWithinCallKeepsInvariant
  <2> QED
    BY <1>2, <2>2, <2>3, <2>4 DEF StartCall
<1>3. CASE DoReturns
  <2>1. httpStage = "doing" /\ attempt <= call.retries
    BY <1>1, <1>3 DEF DoReturns, AttemptsAreLeft
  <2>2. PICK res \in Attempted :
          IF Expired THEN Return(IF res = "connectError" THEN "deadline" ELSE "nothing")
          ELSE IF ShouldRetry(res)
               THEN /\ httpStage' = "waiting"
                    /\ UNCHANGED <<call, attempt, now, began, returned>>
               ELSE Return(res)
    BY <1>3 DEF DoReturns
  <2>3. CASE Expired
    <3>1. PICK lost \in {"deadline", "nothing"} : Return(lost)
      BY <2>2, <2>3
    <3> QED
      BY <2>1, <2>3, <3>1, ReturnKeepsInvariant
  <2>4. CASE ~Expired /\ ShouldRetry(res)
    <3>1. AttemptsAreLeft'
      BY <1>1, <2>2, <2>4 DEF AttemptsAreLeft, ShouldRetry
    <3> QED
      BY <1>1, <2>1, <2>2, <2>4, <3>1, StepWithinCallKeepsInvariant
  <2>5. CASE ~Expired /\ ~ShouldRetry(res)
    <3>1. res \in {"serverError", "connectError"} => attempt = call.retries
      BY <1>1, <2>1, <2>5 DEF ShouldRetry
    <3>2. Return(res)
      BY <2>2, <2>5
    <3>3. res \notin {"deadline", "nothing", "unprocessed"}
      BY DEF Attempted
    <3> QED
      BY <2>1, <3>1, <3>2, <3>3, ReturnKeepsInvariant
  <2> QED
    BY <2>3, <2>4, <2>5
<1>4. CASE NextAttempt
  <2>1. /\ httpStage = "waiting" /\ httpStage' = "doing"
        /\ attempt' = attempt + 1
        /\ UNCHANGED <<call, now, returned>>
    BY <1>4 DEF NextAttempt
  <2>2. AttemptsAreLeft'
    BY <1>1, <2>1 DEF AttemptsAreLeft
  <2> QED
    BY <1>1, <2>1, <2>2, StepWithinCallKeepsInvariant
<1>5. CASE GiveUpWaiting
  <2>1. Expired /\ Return("deadline") /\ attempt <= call.retries
    BY <1>1, <1>5 DEF GiveUpWaiting, AttemptsAreLeft
  <2> QED
    BY <2>1, ReturnKeepsInvariant
<1>6. CASE Tick
  <2>1. /\ httpStage \in {"doing", "waiting"} /\ ~Expired
        /\ now' = now + 1
        /\ UNCHANGED <<httpStage, call, attempt, returned>>
    BY <1>6 DEF Tick, WaitsOn, DoesOn
  <2>2. AttemptsAreLeft'
    BY <1>1, <2>1 DEF AttemptsAreLeft
  <2> QED
    BY <1>1, <2>1, <2>2, StepWithinCallKeepsInvariant
<1>7. CASE UNCHANGED httpVars
  BY <1>7 DEF httpVars, HttpInvariant, HttpTyped, AttemptsAreLeft, NothingIsReturnedYet,
              ReturnsByDeadline, OutcomeIsJustified, Expired
<1> QED
  BY <1>2, <1>3, <1>4, <1>5, <1>6, <1>7 DEF HttpNext

LEMMA HttpInvariantHolds == HttpSpec => []HttpInvariant
<1>1. HttpInit => HttpInvariant
  BY HttpInitEstablishesInvariant
<1>2. HttpInvariant /\ [HttpNext]_httpVars => HttpInvariant'
  BY HttpStepKeepsInvariant
<1> QED
  BY <1>1, <1>2, PTL DEF HttpSpec

(* However long its attempts and waits, a call that has a timeout is over  *)
(* by then.                                                                *)
THEOREM CallsReturnByDeadline == HttpSpec => []ReturnsByDeadline
<1>1. HttpInvariant => ReturnsByDeadline
  BY DEF HttpInvariant
<1> QED
  BY <1>1, HttpInvariantHolds, PTL

(* What a call returns is true of what it was asked for and of its         *)
(* attempts.                                                               *)
THEOREM OutcomesAreJustified == HttpSpec => []OutcomeIsJustified
<1>1. HttpInvariant => OutcomeIsJustified
  BY DEF HttpInvariant
<1> QED
  BY <1>1, HttpInvariantHolds, PTL
=============================================================================

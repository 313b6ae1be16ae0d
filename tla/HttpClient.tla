----------------------------- MODULE HttpClient -----------------------------
(***************************************************************************)
(* One GET of the HTTP client: attempts, the waits between them, and one   *)
(* deadline for all of them.  Time is counted from the call.               *)
(***************************************************************************)
EXTENDS Integers

CONSTANTS
    Calls,         \* the parameters a caller may give
    ClientTimeout  \* the timeout of http.Client, for each attempt

(* A timeout of zero is none.  A negative number of retries is no error.   *)
HttpCallType == [timeout: Nat, retries: Int, wait: Nat, maxWait: Nat]

ASSUME HttpAssumption ==
    /\ Calls \subseteq HttpCallType
    /\ ClientTimeout \in Nat \ {0}

Attempted == {"answered", "serverError", "connectError"}
HttpResults ==
    Attempted \union {"none", "nothing", "deadline", "unprocessed", "badRequest"}
HttpStages == {"idle", "doing", "waiting", "returned"}

VARIABLES
    httpStage,  \* where the call is
    call,       \* its parameters
    attempt,    \* the attempt it is at, from 0
    now,        \* the time since it began
    began,      \* when this attempt began
    wake,       \* when the next one is due
    returned    \* what it returned: a response, an error, or nil and nil

httpVars == <<httpStage, call, attempt, now, began, wake, returned>>

HttpInit ==
    /\ httpStage = "idle"
    /\ call \in Calls
    /\ attempt = 0
    /\ now = 0
    /\ began = 0
    /\ wake = 0
    /\ returned = "none"

(* ctx.Err() # nil.                                                        *)
Expired == call.timeout > 0 /\ now >= call.timeout

Return(res) ==
    /\ httpStage' = "returned"
    /\ returned' = res
    /\ UNCHANGED <<call, attempt, now, began, wake>>

(* http.NewRequest may refuse the URL.  The loop runs only for             *)
(* attempt <= retryCount.                                                  *)
StartCall ==
    /\ httpStage = "idle"
    /\ \/ Return("badRequest")
       \/ call.retries < 0 /\ Return("unprocessed")
       \/ /\ call.retries >= 0
          /\ httpStage' = "doing"
          /\ UNCHANGED <<call, attempt, now, began, wake, returned>>

(* Mutant: attempt+1 >= retryCount.                                        *)
LacksOneAttempt(res) == attempt + 1 < call.retries /\ res \in {"serverError", "connectError"}

ShouldRetry(res) == attempt < call.retries /\ res \in {"serverError", "connectError"}

WaitDuration ==
    IF call.wait * (attempt + 1) > call.maxWait THEN call.maxWait
    ELSE call.wait * (attempt + 1)

(* client.Do returns.  When the context is over, nil is returned with the  *)
(* error of this attempt, which is nil if a response came just then.       *)
DoReturns ==
    /\ httpStage = "doing"
    /\ \E res \in Attempted :
          IF Expired THEN Return(IF res = "connectError" THEN "deadline" ELSE "nothing")
          ELSE IF ShouldRetry(res)
               THEN /\ httpStage' = "waiting"
                    /\ wake' = now + WaitDuration
                    /\ UNCHANGED <<call, attempt, now, began, returned>>
               ELSE Return(res)

(* select: the wait is over, or the context is; both may be.               *)
NextAttempt ==
    /\ httpStage = "waiting"
    /\ now >= wake
    /\ httpStage' = "doing"
    /\ attempt' = attempt + 1
    /\ began' = now
    /\ UNCHANGED <<call, now, wake, returned>>

GiveUpWaiting ==
    /\ httpStage = "waiting"
    /\ Expired
    /\ Return("deadline")

(* Mutant: time.Sleep(waitDuration) instead of select.                     *)
SleepsOn == httpStage = "waiting" /\ now < wake

(* A wait lasts until select has a case that is ready, an attempt until    *)
(* the context, or the client's own timeout, ends it.                      *)
WaitsOn == httpStage = "waiting" /\ now < wake /\ ~Expired
DoesOn == httpStage = "doing" /\ now < began + ClientTimeout /\ ~Expired

Tick ==
    /\ WaitsOn \/ DoesOn
    /\ now' = now + 1
    /\ UNCHANGED <<httpStage, call, attempt, began, wake, returned>>

HttpNext == StartCall \/ DoReturns \/ NextAttempt \/ GiveUpWaiting \/ Tick

HttpSpec == HttpInit /\ [][HttpNext]_httpVars
-----------------------------------------------------------------------------
(* A call that was given a timeout is over when it has passed, however     *)
(* many attempts and waits it is made of.                                  *)
ReturnsByDeadline == call.timeout > 0 => now <= call.timeout

(* A failure is returned only by the last attempt that was asked for or at *)
(* the deadline, no more attempts are made than were asked for, the error  *)
(* after the loop is for those who asked for none, and only a response     *)
(* that came in the last instant is lost without an error.                 *)
OutcomeIsJustified ==
    /\ attempt <= call.retries \/ attempt = 0
    /\ returned \in {"serverError", "connectError"} => attempt = call.retries
    /\ returned \in {"deadline", "nothing"} => Expired
    /\ returned = "unprocessed" => call.retries < 0
=============================================================================

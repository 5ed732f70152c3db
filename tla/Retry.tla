-------------------------------- MODULE Retry --------------------------------
(***************************************************************************)
(* executeWithRetry as the Delivery client calls it: attempts of a task, the *)
(* decision after each failure, and the delay before the next attempt.       *)
(*                                                                           *)
(* maxRetries and retryBaseDelayMs are whatever numbers the environment holds: *)
(* the configuration schema says "number", neither whole nor positive, so     *)
(* both are counted in halves here, and so are the delays.                   *)
(***************************************************************************)
EXTENDS Integers, Sequences

CONSTANTS
    Halves,         \* the values of 2 * maxRetries
    BaseDelays,     \* the values of 2 * retryBaseDelayMs
    TimerMax        \* the longest a timer can run, in ms (2^31 - 1 in Node.js)

ASSUME HalvesAssumption == Halves \subseteq Int
ASSUME BaseDelaysAssumption == BaseDelays \subseteq Int
ASSUME TimerMaxAssumption == TimerMax \in Nat \ {0}

VARIABLES
    halves,         \* 2 * maxRetries of this call
    base,           \* 2 * baseDelayMs of this call
    pc,             \* "loop", "waiting", or how the call ended
    attempt,        \* the loop variable
    calls,          \* how often the task was started
    lastError,      \* what the last attempt failed with
    delays          \* the delays computed so far, in half milliseconds

vars == <<halves, base, pc, attempt, calls, lastError, delays>>

----------------------------------------------------------------------------
(* The decisions *)

(* How an attempt fails: a DeliveryHttpError by its status, the abort of the
   timeout, or anything else fetch or the JSON parser throws. *)
Errors == {"5xx", "429", "4xx", "AbortError", "other"}

(* Faulty variant: a 429 is taken for a client error. *)
ShouldRetryServerErrors(error) == error \notin {"4xx", "429"}

(* The client's predicate: of the HTTP errors only 5xx and 429 are retried. *)
ShouldRetry(error) == error # "4xx"

(* attempt <= maxRetries *)
LoopGoesOn(a) == 2 * a <= halves

(* Faulty variant: the loop's own bound is forgotten by one. *)
IsLastOffByOne(a) == 2 * a = halves + 2

(* attempt === maxRetries *)
IsLast(a) == 2 * a = halves

MaxDelay == 10 * base

Capped(delay) == IF delay < MaxDelay THEN delay ELSE MaxDelay

(* Math.random() * baseDelay, in half milliseconds: it has the sign of the base
   and stays short of it. *)
Jitters == {0} \cup (0 .. base - 1) \cup (base + 1 .. 0)

(* Faulty variant: the jitter is taken off, and grows with the delay. *)
DelayWithWideJitter(a, jitter) == Capped(base * 2^a - jitter * 2^a)

(* computeDelay *)
ComputeDelay(a, jitter) == Capped(base * 2^a + jitter)

(* How long wait really takes, in ms: setTimeout drops fractions, and makes 1 of
   what is less than that or more than a timer can run. *)
Timer(delay) == IF delay < 2 \/ delay > 2 * TimerMax THEN 1 ELSE delay \div 2

----------------------------------------------------------------------------
(* The loop *)

Init ==
    /\ halves \in Halves
    /\ base \in BaseDelays
    /\ attempt = 0
    /\ pc = "loop"
    /\ calls = 0
    /\ lastError = "none"
    /\ delays = << >>

(* The task settles well. *)
Succeed ==
    /\ pc = "loop" /\ LoopGoesOn(attempt)
    /\ calls' = calls + 1
    /\ pc' = "returned"
    /\ UNCHANGED <<halves, base, attempt, lastError, delays>>

(* The task fails: throw its error, or wait and try again. *)
FailWith(error) ==
    /\ pc = "loop" /\ LoopGoesOn(attempt)
    /\ calls' = calls + 1
    /\ lastError' = error
    /\ \/ /\ IsLast(attempt) \/ ~ShouldRetry(error)
          /\ pc' = "thrown"
          /\ UNCHANGED delays
       \/ /\ ~IsLast(attempt) /\ ShouldRetry(error)
          /\ \E jitter \in Jitters :
                delays' = Append(delays, ComputeDelay(attempt, jitter))
          /\ pc' = "waiting"
    /\ UNCHANGED <<halves, base, attempt>>

(* Faulty variant: no timer is set for a delay at the cap. *)
NextAttemptBelowCap ==
    /\ pc = "waiting" /\ delays[Len(delays)] < MaxDelay
    /\ attempt' = attempt + 1
    /\ pc' = "loop"
    /\ UNCHANGED <<halves, base, calls, lastError, delays>>

(* The delay is over. *)
NextAttempt ==
    /\ pc = "waiting"
    /\ attempt' = attempt + 1
    /\ pc' = "loop"
    /\ UNCHANGED <<halves, base, calls, lastError, delays>>

(* The loop ended without a throw: 'Retry logic reached an unexpected state'. *)
RunOut ==
    /\ pc = "loop" /\ ~LoopGoesOn(attempt)
    /\ pc' = "unexpected"
    /\ UNCHANGED <<halves, base, attempt, calls, lastError, delays>>

Next == Succeed \/ (\E error \in Errors : FailWith(error)) \/ NextAttempt \/ RunOut

Spec == Init /\ [][Next]_vars

(* The task settles (its timeout aborts it) and timers fire. *)
Fairness == WF_vars(Next)

FairSpec == Spec /\ Fairness

----------------------------------------------------------------------------
(* Properties *)

(* The call gives up on an error that may pass only after the retries it was
   given, to the number: floor(maxRetries) + 1 calls of the task. *)
GivesUpWhenExhausted ==
    (pc \in {"thrown", "unexpected"} /\ lastError # "4xx") =>
        calls = IF halves < 0 THEN 0 ELSE halves \div 2 + 1

(* With a whole number of retries the caller gets the error of the last attempt;
   only a fraction or a negative number ends in the "unexpected state", which
   hides that error, or never calls Delivery at all. *)
UnexpectedOnlyIfNotWhole ==
    pc = "unexpected" => halves % 2 = 1 \/ halves < 0

Between(d, x, y) == (x <= d /\ d <= y) \/ (y <= d /\ d <= x)

(* One wait lies between a call of the task and the next.  Its delay is between
   the plain exponential and the next one, both capped, also for a base delay that
   is zero, negative or a fraction; and no wait is shorter than the one before,
   unless the cap is more than a timer can run. *)
DelaysGrow ==
    /\ calls = Len(delays) + (IF pc \in {"returned", "thrown"} THEN 1 ELSE 0)
    /\ \A i \in 1..Len(delays) :
          Between(delays[i], Capped(base * 2^(i - 1)), Capped(base * 2^i))
    /\ MaxDelay <= 2 * TimerMax =>
          \A i \in 2..Len(delays) : Timer(delays[i - 1]) <= Timer(delays[i])

(* DESIGN.md's "exponential backoff + full jitter": a delay is drawn from zero to
   the exponential of its attempt, so none exceeds that. *)
FullJitter == \A i \in 1..Len(delays) : base >= 0 => delays[i] <= Capped(base * 2^(i - 1))

(* Every call ends. *)
Ends == <>(pc \in {"returned", "thrown", "unexpected"})
============================================================================

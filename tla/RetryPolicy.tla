---------------------------- MODULE RetryPolicy ----------------------------
(***************************************************************************)
(* deliveries/retry.py and the result half of deliveries/transport.py: how *)
(* a response is classified, whether another attempt is in the budget, and *)
(* how long the next one waits.  Durations are whole units of time; a      *)
(* jitter fraction in [0, 1] becomes any whole delay up to the ceiling.    *)
(***************************************************************************)
EXTENDS Integers

CONSTANTS
    BaseDelay,       \* worker_base_delay_seconds
    MaxDelay,        \* worker_max_delay_seconds
    RetryAfterCap,   \* worker_retry_after_cap_seconds
    None             \* Python's None, SQL's NULL

\* RetryPolicy.__post_init__ and Settings.validate_runtime_invariants.
ASSUME DelayAssumption ==
    /\ BaseDelay \in Nat \ {0}
    /\ MaxDelay \in Nat /\ MaxDelay >= BaseDelay
    /\ RetryAfterCap \in Nat \ {0}

ASSUME NoneAssumption ==
    /\ None \notin Int
    /\ None \notin {"succeeded", "retry", "terminal_failure"}

Dispositions == {"succeeded", "retry", "terminal_failure"}

Larger(a, b) == IF a >= b THEN a ELSE b
Smaller(a, b) == IF a <= b THEN a ELSE b

ValidStatusCode(code) == 100 <= code /\ code <= 599

RETRYABLE_STATUS_CODES == {408, 425, 429}

\* Only for a ValidStatusCode; the code raises ValueError for any other.
ClassifyStatusCode(code) ==
    CASE 200 <= code /\ code <= 299 -> "succeeded"
      [] code \in RETRYABLE_STATUS_CODES \/ code >= 500 -> "retry"
      [] OTHER -> "terminal_failure"

\* Mutant: the bound is inclusive.
HasAttemptRemainingInclusive(completed, maxAttempts) == completed <= maxAttempts

HasAttemptRemaining(completed, maxAttempts) == completed < maxAttempts

\* RetryPolicy.delay_seconds with every jitter fraction.
DelayCeiling(completed) == Smaller(MaxDelay, BaseDelay * 2^(completed - 1))
JitteredDelays(completed) == 0 .. DelayCeiling(completed)

(***************************************************************************)
(* A Retry-After header is a delta in seconds, a date (held here as its    *)
(* distance from the response's time), or text that is neither.            *)
(***************************************************************************)
\* Mutant: a date in the past is not clamped to zero.
ParseRetryAfterUnclamped(header) ==
    CASE header.kind = "date" -> Smaller(header.seconds, RetryAfterCap)
      [] header.kind = "delta" /\ header.seconds >= 0 ->
            Smaller(header.seconds, RetryAfterCap)
      [] OTHER -> None

ParseRetryAfter(header) ==
    CASE header.kind = "date" ->
            Smaller(Larger(header.seconds, 0), RetryAfterCap)
      [] header.kind = "delta" /\ header.seconds >= 0 ->
            Smaller(header.seconds, RetryAfterCap)
      [] OTHER -> None

\* What send_webhook returns when no usable response arrived.
TransportFailure == [disposition |-> "retry", retry_after |-> None]

\* What send_webhook returns for a response.
ResponseResult(code, header) ==
    LET disposition == ClassifyStatusCode(code)
    IN  [disposition |-> disposition,
         retry_after |-> IF disposition = "retry" THEN ParseRetryAfter(header)
                                                  ELSE None]

\* The delays finalize may schedule after a failed attempt.
RetryDelays(completed, retryAfter) ==
    {IF retryAfter = None THEN delay ELSE Larger(delay, retryAfter) :
        delay \in JitteredDelays(completed)}
=============================================================================

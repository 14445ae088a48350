----------------------------- MODULE RetryPolicy -----------------------------
(***************************************************************************)
(* What the retry policy decides about one failed operation                *)
(* (session/retry.rs).  Durations are whole ticks; a decision that the     *)
(* code draws at random is a member of a set.                              *)
(***************************************************************************)
EXTENDS DownloadError

CONSTANTS
  max_retries,          \* retries allowed after the first attempt
  base_delay, max_delay,
  max_retry_elapsed     \* limit on the whole operation, or None

ASSUME PolicyAssumption ==
  /\ max_retries \in Nat
  /\ base_delay \in Nat /\ max_delay \in Nat /\ base_delay <= max_delay
  /\ max_retry_elapsed = None \/ max_retry_elapsed \in Nat

(* Equal jitter: half of the capped exponential delay, the rest drawn at    *)
(* random.  A hint from the server replaces it.                             *)
RawDelay(retry_count) == Least(base_delay * 2 ^ Least(retry_count, 10), max_delay)
retry_backoff(hint, retry_count) ==
  IF hint # None
  THEN {hint}
  ELSE RawDelay(retry_count) \div 2 .. RawDelay(retry_count)

Stop(error) == [decision |-> "Stop", error |-> error]
Retry(retry_count, backoff) ==
  [decision |-> "Retry", retry_count |-> retry_count, backoff |-> backoff]

(* Mutants: a retry is not counted; a sleep may outlast the budget.         *)
decide_uncounted(retries_started, elapsed, error, hint, force_retry, immediate) ==
  IF (~force_retry /\ ~is_retryable(error)) \/ retries_started >= max_retries
  THEN {Stop(error)}
  ELSE {Retry(retries_started, backoff) : backoff \in retry_backoff(hint, retries_started + 1)}
decide_oversleeping(retries_started, elapsed, error, hint, force_retry, immediate) ==
  IF (~force_retry /\ ~is_retryable(error)) \/ retries_started >= max_retries
  THEN {Stop(error)}
  ELSE IF max_retry_elapsed # None /\ elapsed >= max_retry_elapsed
  THEN {Stop("RetryBudgetExceeded")}
  ELSE {Retry(retries_started + 1, backoff) :
          backoff \in retry_backoff(hint, retries_started + 1)}

(* Every decision decide_inner can make, elapsed ticks after the operation  *)
(* began and with retries_started retries behind it.                        *)
decide_inner(retries_started, elapsed, error, hint, force_retry, immediate) ==
  LET retry_count == retries_started + 1
      delays == IF immediate /\ retry_count = 1 /\ hint = None
                THEN {0}
                ELSE retry_backoff(hint, retry_count)
      Late(backoff) == /\ max_retry_elapsed # None
                       /\ elapsed + backoff > max_retry_elapsed
  IN IF (~force_retry /\ ~is_retryable(error)) \/ retries_started >= max_retries
     THEN {Stop(error)}
     ELSE IF max_retry_elapsed # None /\ elapsed >= max_retry_elapsed
     THEN {Stop("RetryBudgetExceeded")}
     ELSE {IF Late(backoff) THEN Stop("RetryBudgetExceeded") ELSE Retry(retry_count, backoff) :
             backoff \in delays}

decide(retries_started, elapsed, error, hint) ==
  decide_inner(retries_started, elapsed, error, hint, FALSE, FALSE)
decide_body_failure(retries_started, elapsed, error, hint) ==
  decide_inner(retries_started, elapsed, error, hint, FALSE, error = "Timeout")
decide_restart(retries_started, elapsed, error, hint) ==
  decide_inner(retries_started, elapsed, error, hint, TRUE, FALSE)
=============================================================================

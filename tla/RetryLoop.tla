------------------------------ MODULE RetryLoop ------------------------------
(***************************************************************************)
(* retry_with_backoff (session/retry.rs): an operation is tried, its       *)
(* failures go to the retry policy, and every wait also listens for a stop *)
(* request.  The stop channel is a tokio watch: the sender may be dropped, *)
(* after which no request can come but one already sent is still seen.     *)
(***************************************************************************)
EXTENDS RetryPolicy

CONSTANTS
  Failures,         \* the errors the operation may fail with
  Hints,            \* Retry-After values the server may send, None included
  MaxTime           \* bound: the clock

VARIABLES
  now,              \* ticks since the loop was entered
  pc,               \* check, op, sleep or done
  retries_started,
  attempts,         \* times the operation was started
  wake,             \* when the current sleep is over
  signal,           \* StopSignal in the watch
  seen,             \* the loop has marked the current signal as seen
  sender,           \* the handle that can send a stop request is alive
  listening,        \* the current attempt still selects on the watch
  served,           \* history: when the last attempt failed and the hint it got
  result

vars == <<now, pc, retries_started, attempts, wake, signal, seen, sender, listening,
          served, result>>

Init ==
  /\ now = 0 /\ pc = "check" /\ retries_started = 0 /\ attempts = 0 /\ wake = 0
  /\ signal = "Running" /\ seen = TRUE /\ sender = TRUE /\ listening = TRUE
  /\ served = [at |-> 0, hint |-> None]
  /\ result = None

(* stop_signal_error: the error a signal stands for.                        *)
stop_signal_error(s) ==
  CASE s = "Running" -> None [] s = "Cancel" -> "Cancelled" [] s = "Pause" -> "Paused"

Return(value) == pc' = "done" /\ result' = value
clockVars == <<now, attempts, wake, retries_started, served>>

(* The top of the loop reads the signal before it starts the operation.     *)
Check ==
  /\ pc = "check"
  /\ \/ /\ stop_signal_error(signal) # None
        /\ Return(stop_signal_error(signal))
        /\ UNCHANGED <<clockVars, seen, listening>>
     \/ /\ stop_signal_error(signal) = None
        /\ pc' = "op" /\ listening' = TRUE
        /\ attempts' = attempts + 1
        /\ UNCHANGED <<now, wake, retries_started, served, seen, result>>
  /\ UNCHANGED <<signal, sender>>

(* The biased select: an unseen signal goes first.                          *)
Changed ==
  /\ pc = "op" /\ listening /\ ~seen
  /\ seen' = TRUE
  /\ stop_signal_error(signal) # None
  /\ Return(stop_signal_error(signal))
  /\ UNCHANGED <<clockVars, signal, sender, listening>>

(* The sender is gone and nothing is unseen: only the operation is awaited. *)
Closed ==
  /\ pc = "op" /\ listening /\ seen /\ ~sender
  /\ listening' = FALSE
  /\ UNCHANGED <<clockVars, pc, signal, seen, sender, result>>

Succeed ==
  /\ pc = "op" /\ (listening => seen)
  /\ Return("Ok")
  /\ UNCHANGED <<clockVars, signal, seen, sender, listening>>

Fail ==
  /\ pc = "op" /\ (listening => seen)
  /\ \E error \in Failures, header \in Hints :
       LET hint == retry_after_secs(error, header)
       IN \E d \in decide(retries_started, now, error, hint) :
            /\ served' = [at |-> now, hint |-> hint]
            /\ \/ /\ d.decision = "Stop"
                  /\ Return(d.error)
                  /\ UNCHANGED <<retries_started, wake>>
               \/ /\ d.decision = "Retry"
                  /\ retries_started' = d.retry_count
                  /\ wake' = now + d.backoff
                  /\ pc' = "sleep"
                  /\ UNCHANGED result
  /\ UNCHANGED <<now, attempts, signal, seen, sender, listening>>

sleep_with_backoff ==
  /\ pc = "sleep"
  /\ \/ /\ stop_signal_error(signal) # None
        /\ seen' = TRUE
        /\ Return(stop_signal_error(signal))
     \/ /\ stop_signal_error(signal) = None
        /\ now >= wake
        /\ pc' = "check"
        /\ UNCHANGED <<seen, result>>
  /\ UNCHANGED <<clockVars, signal, sender, listening>>

Loop == Check \/ Changed \/ Closed \/ sleep_with_backoff

(* pause() and cancel() of the handle; dropping the handle.                 *)
UserStop ==
  /\ sender /\ pc # "done"
  /\ signal' \in {"Cancel", "Pause"} \ {signal}
  /\ seen' = FALSE
  /\ UNCHANGED <<clockVars, pc, sender, listening, result>>

DropHandle ==
  /\ sender
  /\ sender' = FALSE
  /\ UNCHANGED <<clockVars, pc, signal, seen, listening, result>>

Tick ==
  /\ now < MaxTime
  /\ now' = now + 1
  /\ UNCHANGED <<pc, retries_started, attempts, wake, signal, seen, sender, listening,
                 served, result>>

Next == Loop \/ Succeed \/ Fail \/ UserStop \/ DropHandle \/ Tick

Spec == Init /\ [][Next]_vars

-----------------------------------------------------------------------------
(* The policy bounds what an operation may cost, whatever fails and however *)
(* long each attempt takes: at most max_retries further attempts, no sleep  *)
(* that ends beyond max_retry_elapsed, none shorter than the server asked   *)
(* for or than half of the capped delay, and none longer than the cap       *)
(* unless the server asked for it.                                          *)
RetriesWithinPolicy ==
  /\ attempts <= max_retries + 1
  /\ pc = "sleep" =>
       /\ max_retry_elapsed # None => wake <= max_retry_elapsed
       /\ IF served.hint # None
          THEN wake - served.at = served.hint
          ELSE RawDelay(retries_started) <= 2 * (wake - served.at) + 1 /\ wake - served.at <= max_delay

=============================================================================

----------------------------- MODULE RateLimiter -----------------------------
(***************************************************************************)
(* rate_limiter.rs: the token bucket the workers of a download share.      *)
(* Time is counted in the time one token takes (1 / rate), so a second is  *)
(* `capacity` ticks and tokens stay whole numbers.  An iteration of the    *)
(* loop in acquire runs under the mutex and is one step; the sleep between *)
(* two iterations may end late, and a stopped worker drops its future.     *)
(***************************************************************************)
EXTENDS Integers, FiniteSetsExt

CONSTANTS
  Workers,
  capacity,             \* one second's worth of bytes
  MaxChunk, MaxTime     \* bounds: the size of a chunk, the clock

(* What the constants have to satisfy.                                      *)
LimitIsSet == capacity \in Nat \ {0}

VARIABLES
  now, tokens, last_refill,
  n, remaining,         \* per worker: the chunk it acquires for, what is missing
  wake,                 \* per worker: when its sleep is over
  mark, held, passed,   \* since an instant `mark`: what callers held then, bytes let through
  late                  \* some sleep ended late

vars == <<now, tokens, last_refill, n, remaining, wake, mark, held, passed, late>>

Active == {w \in Workers : n[w] > 0}
Due(w) == w \in Active /\ wake[w] <= now
Held == MapThenSumSet(LAMBDA w : n[w] - remaining[w], Workers)

Init ==
  /\ now = 0 /\ tokens = capacity /\ last_refill = 0
  /\ n = [w \in Workers |-> 0] /\ remaining = n /\ wake = n
  /\ mark = 0 /\ held = 0 /\ passed = 0 /\ late = FALSE

-----------------------------------------------------------------------------
(* The bucket now: at most one second's worth.                              *)
Refilled ==
  LET t == tokens + (now - last_refill) IN IF t < capacity THEN t ELSE capacity

(* A sleep for all that is missing, however much the bucket can hold.       *)
SleepForAll(missing) == missing

Sleep(missing) == IF missing < capacity THEN missing ELSE capacity

(* acquire is called for a chunk: the first iteration is due at once.       *)
Call(w, size) ==
  /\ w \notin Active
  /\ n' = [n EXCEPT ![w] = size] /\ remaining' = [remaining EXCEPT ![w] = size]
  /\ wake' = [wake EXCEPT ![w] = now]
  /\ UNCHANGED <<now, tokens, last_refill, mark, held, passed, late>>

(* One iteration: refill, take what there is, return or sleep.              *)
acquire(w) ==
  /\ Due(w)
  /\ last_refill' = now
  /\ LET consume == IF remaining[w] < Refilled THEN remaining[w] ELSE Refilled
         missing == remaining[w] - consume
     IN /\ tokens' = Refilled - consume
        /\ remaining' = [remaining EXCEPT ![w] = missing]
        /\ n' = IF missing = 0 THEN [n EXCEPT ![w] = 0] ELSE n
        /\ wake' = [wake EXCEPT ![w] = IF missing = 0 THEN 0 ELSE now + Sleep(missing)]
        /\ passed' = IF missing = 0 THEN passed + n[w] ELSE passed
  /\ UNCHANGED <<now, mark, held, late>>

(* BodyBudget::forward stops while it waits: the future is dropped, and     *)
(* what it already took is not given back.                                  *)
DropFuture(w) ==
  /\ w \in Active
  /\ n' = [n EXCEPT ![w] = 0] /\ remaining' = [remaining EXCEPT ![w] = 0]
  /\ wake' = [wake EXCEPT ![w] = 0]
  /\ UNCHANGED <<now, tokens, last_refill, mark, held, passed, late>>

Tick ==
  /\ now < MaxTime /\ now' = now + 1
  /\ late' = (late \/ \E w \in Workers : Due(w))
  /\ UNCHANGED <<tokens, last_refill, n, remaining, wake, mark, held, passed>>

(* Some instant from which the bytes let through are counted.               *)
Mark ==
  /\ mark = 0 /\ now > 0 /\ mark' = now
  /\ held' = Held /\ passed' = 0
  /\ UNCHANGED <<now, tokens, last_refill, n, remaining, wake, late>>

Next ==
  \/ \E w \in Workers :
       \/ \E size \in 1..MaxChunk : Call(w, size)
       \/ acquire(w)
       \/ DropFuture(w)
  \/ Tick
  \/ Mark

Spec == Init /\ [][Next]_vars

-----------------------------------------------------------------------------
(* RateLimiter: over every interval the bytes let through are at most one   *)
(* second's burst, plus the time passed, plus what callers had already      *)
(* taken when it began - however calls, late wakeups and stops interleave,  *)
(* and for chunks larger than the bucket too.                               *)
RateIsKept == passed <= capacity + (now - mark) + held

(* acquire sleeps for no more than the bucket holds: while a caller waits   *)
(* and sleeps end on time no token is lost to the bucket's limit, so the    *)
(* configured speed is also reached.                                        *)
RateIsReached ==
  (~late /\ \E w \in Active : wake[w] > now \/ (wake[w] = now /\ remaining[w] < n[w]))
    => tokens + (now - last_refill) <= capacity

(* acquire: over every interval the configured speed is neither exceeded    *)
(* beyond one burst nor lost while a caller waits.                          *)
LimitIsExact == RateIsKept /\ RateIsReached
=============================================================================

---------------------------- MODULE SpeedEstimate ----------------------------
(***************************************************************************)
(* EtaEstimator (eta.rs) and ProgressReporter (progress.rs): the transfer  *)
(* loops record byte counts, the estimator keeps the samples its window    *)
(* needs and derives the speed from them, and the reporter throttles what  *)
(* is published.  Counts fall back when a retry discards bytes, and the    *)
(* clock may stand still between two samples.                              *)
(* Speeds are fractions <<bytes, time>>; None stands for "not enough data".*)
(***************************************************************************)
EXTENDS Integers, Sequences

CONSTANTS
  None,
  window, min_span,             \* of EtaEstimator::new
  min_interval, min_bytes,      \* of ProgressReporter::new
  total_size,
  MaxGap, MaxTime               \* bounds: the time between samples, the clock

(* What the constants have to satisfy.                                      *)
WindowsAreOrdered == window \in Nat \ {0} /\ min_span \in 1..window

VARIABLES
  now,
  single,           \* which loop samples: stream_single or the multi monitor
  ended,            \* stream_single returned
  samples,          \* the estimator's deque
  history,          \* every sample since the count last fell back
  last_reported,    \* the reporter: count and time of its last report
  snapshot          \* what is published: count, speed and time left

vars == <<now, single, ended, samples, history, last_reported, snapshot>>

Sample(at, downloaded) == [at |-> at, downloaded |-> downloaded]
Last(s) == s[Len(s)]

Init ==
  /\ now = window /\ single \in BOOLEAN /\ ended = FALSE
  /\ \E d \in 0..total_size :
       /\ samples = <<Sample(now, d)>> /\ history = samples
       /\ last_reported = Sample(now, d)
       /\ snapshot = [downloaded |-> d, speed |-> None, eta |-> None]

-----------------------------------------------------------------------------
(* Trimming that drops a sample as soon as it leaves the window itself.     *)
trim_eagerly(s, t) ==
  LET keep == {i \in 1..Len(s) : i = Len(s) \/ s[i].at > t - window} IN
  SubSeq(s, CHOOSE i \in keep : \A j \in keep : i <= j, Len(s))

(* trim: the front goes while the sample after it is out of the window too. *)
trim(s, t) ==
  LET keep == {i \in 1..Len(s) : i = Len(s) \/ s[i + 1].at > t - window} IN
  SubSeq(s, CHOOSE i \in keep : \A j \in keep : i <= j, Len(s))

(* record: a count below the last one starts over; a clock that did not     *)
(* advance raises the last sample instead of adding one.                    *)
record(s, downloaded, t) ==
  IF downloaded < Last(s).downloaded THEN <<Sample(t, downloaded)>>
  ELSE IF t <= Last(s).at THEN [s EXCEPT ![Len(s)].downloaded = downloaded]
  ELSE trim(Append(s, Sample(t, downloaded)), t)

(* window_start: where the window begins, as a time and a byte count over   *)
(* a denominator; between two samples the count is interpolated.            *)
window_start(s) ==
  LET cutoff == Last(s).at - window
      before == {i \in 1..Len(s) : s[i].at <= cutoff}
  IN IF before = {} THEN [at |-> s[1].at, bytes |-> s[1].downloaded, over |-> 1]
     ELSE LET b == s[CHOOSE i \in before : \A j \in before : j <= i]
              a == s[1 + CHOOSE i \in before : \A j \in before : j <= i]
          IN IF b.at = cutoff THEN [at |-> b.at, bytes |-> b.downloaded, over |-> 1]
             ELSE [at |-> cutoff,
                   bytes |-> b.downloaded * (a.at - b.at)
                             + (a.downloaded - b.downloaded) * (cutoff - b.at),
                   over |-> a.at - b.at]

speed_bytes_per_sec(s) ==
  LET start == window_start(s)
      span == Last(s).at - start.at
  IN IF span < min_span THEN None
     ELSE <<Last(s).downloaded * start.over - start.bytes, span * start.over>>

(* estimate, for what remains: no answer below one byte per unit of time.   *)
eta_secs(s) ==
  LET speed == speed_bytes_per_sec(s)
      remaining == total_size - Last(s).downloaded
  IN IF remaining = 0 THEN <<0, 1>>
     ELSE IF speed = None THEN None
     ELSE IF speed[1] < speed[2] THEN None
     ELSE <<remaining * speed[2], speed[1]>>

should_report(downloaded) ==
  \/ downloaded - last_reported.downloaded >= min_bytes
  \/ now' - last_reported.at >= min_interval

force_report(downloaded, s) ==
  /\ last_reported' = Sample(now', downloaded)
  /\ snapshot' = [downloaded |-> downloaded,
                  speed |-> speed_bytes_per_sec(s), eta |-> eta_secs(s)]

-----------------------------------------------------------------------------
Pass == now' \in now..(now + MaxGap) /\ now' <= MaxTime

Record(downloaded) ==
  /\ Pass
  /\ samples' = record(samples, downloaded, now')
  /\ history' = IF downloaded < Last(history).downloaded THEN <<Sample(now', downloaded)>>
                ELSE IF now' = Last(history).at
                THEN [history EXCEPT ![Len(history)].downloaded = downloaded]
                ELSE Append(history, Sample(now', downloaded))
  /\ UNCHANGED <<single, ended>>

(* stream_single: a chunk is recorded and reported if that is due.          *)
Chunk(downloaded) ==
  /\ single /\ ~ended /\ downloaded > Last(samples).downloaded
  /\ Record(downloaded)
  /\ IF should_report(downloaded) THEN force_report(downloaded, samples')
     ELSE UNCHANGED <<last_reported, snapshot>>

(* stream_single returns: a stop, an error, or a chunk of which only a part *)
(* was forwarded; the count is current, speed and time left are the last    *)
(* ones computed.                                                           *)
Return(downloaded) ==
  /\ single /\ ~ended /\ ended' = TRUE
  /\ downloaded >= Last(samples).downloaded
  /\ Pass
  /\ force_report(downloaded, samples)
  /\ UNCHANGED <<single, samples, history>>

(* The monitor of a multi-connection download reports what it samples, on   *)
(* every tick; its count falls when a worker gives up what it received.     *)
sampled_progress_update(downloaded) ==
  /\ ~single
  /\ Record(downloaded)
  /\ force_report(downloaded, samples')

Next == \E d \in 0..total_size : Chunk(d) \/ Return(d) \/ sampled_progress_update(d)

Spec == Init /\ [][Next]_vars

-----------------------------------------------------------------------------
(* The count a full record gives for time t, over the denominator it uses.  *)
Known(t) ==
  LET b == CHOOSE i \in 1..Len(history) :
             history[i].at <= t /\ \A j \in i+1..Len(history) : history[j].at > t
      gap == IF b = Len(history) THEN 1 ELSE history[b + 1].at - history[b].at
      rise == IF b = Len(history) THEN 0
              ELSE history[b + 1].downloaded - history[b].downloaded
  IN [bytes |-> history[b].downloaded * gap + rise * (t - history[b].at), over |-> gap]

WindowSpeed ==
  LET from == IF history[1].at > Last(history).at - window THEN history[1].at
              ELSE Last(history).at - window
      span == Last(history).at - from
  IN IF span < min_span THEN None
     ELSE <<Last(history).downloaded * Known(from).over - Known(from).bytes,
            span * Known(from).over>>

SameSpeed(a, b) == IF a = None \/ b = None THEN a = b ELSE a[1] * b[2] = b[1] * a[2]

(* EtaEstimator and ProgressReporter: dropping old samples never changes    *)
(* the speed of the last window, whatever gaps, standstills and fallbacks   *)
(* the counts had; at most one kept sample is older than the window; and    *)
(* what is published trails the last sample by less than both thresholds;   *)
(* "no time left" is published only with the whole file.                    *)
EstimateIsWindowed ==
  /\ SameSpeed(speed_bytes_per_sec(samples), WindowSpeed)
  /\ \A i \in 2..Len(samples) : samples[i].at > Last(samples).at - window
  /\ Last(samples).downloaded - snapshot.downloaded < min_bytes
  /\ now - last_reported.at < min_interval
  /\ snapshot.eta = <<0, 1>> => snapshot.downloaded = total_size
=============================================================================

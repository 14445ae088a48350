--------------------------- MODULE RecoveryWindow ----------------------------
(***************************************************************************)
(* How a request is found slow (Observation, sample_baseline and recommend *)
(* of session/multi/worker.rs): reading time and wire bytes are sampled    *)
(* over a sliding window, compared with a baseline taken from finished and *)
(* live requests, and a request that stays low long enough is recovered.   *)
(*                                                                         *)
(* Time and bytes are counted in whole units.  "slow" is the ordinary      *)
(* detector and "tail" the faster one for the last requests; each has its  *)
(* own window, grace period and duration.  What the other requests show is *)
(* chosen anew for every sample, and so is whether the estimated benefit   *)
(* is large enough.                                                        *)
(***************************************************************************)
EXTENDS Integers, SequencesExt

CONSTANTS
  None,
  Window, Grace, Duration,   \* policy of each detector
  Absolute,                  \* low_speed_limit, or None
  Peers,                     \* what the other requests may show
  MaxFrame, MaxTime          \* bounds: bytes at a time, end of the run

Detector == {"slow", "tail"}

ASSUME WindowAssumption ==
  /\ \A k \in Detector : Window[k] \in Nat \ {0} /\ Grace[k] \in Nat /\ Duration[k] \in Nat
  /\ Window["tail"] <= Window["slow"]
  /\ Absolute \in Nat \cup {None}

VARIABLES
  now,
  o,               \* the Observation
  advice,          \* what the last sample led to
  sampled,         \* the ticker has fired in this unit of time
  read_time,       \* history: time really spent reading
  evidence_from    \* history: reading time at the end of the last long local wait

vars == <<now, o, advice, sampled, read_time, evidence_from>>

(* RateLimited, MemoryBlocked, ChannelBlocked and WriterBarrier differ only *)
(* in the total they are added to.                                          *)
Phase == {"Headers", "Reading", "Waiting"}
NoAdvice == [detectors |-> {}]

Init ==
  /\ now = 0
  /\ o = [phase |-> "Headers", phase_at |-> 0, blocked_since |-> 0, reading |-> 0,
          waiting |-> 0, wire |-> 0,
          samples |-> [k \in Detector |-> <<[at |-> 0, wire |-> 0]>>],
          slow_since |-> [k \in Detector |-> None]]
  /\ advice = NoAdvice
  /\ sampled = FALSE
  /\ read_time = 0
  /\ evidence_from = [k \in Detector |-> 0]

-----------------------------------------------------------------------------
(* Time is added to the phase it was spent in.  A local wait as long as a   *)
(* window makes its samples start again.                                    *)
LongWait(x, k) ==
  x.phase # "Reading" /\ x.blocked_since # None /\ now - x.blocked_since >= Window[k]

advance(x) ==
  LET elapsed == now - x.phase_at
  IN [x EXCEPT !.phase_at = now,
               !.reading = @ + (IF x.phase = "Reading" THEN elapsed ELSE 0),
               !.waiting = @ + (IF x.phase = "Reading" THEN 0 ELSE elapsed),
               !.samples = [k \in Detector |->
                 IF LongWait(x, k) THEN <<[at |-> x.reading, wire |-> x.wire]>> ELSE @[k]],
               !.slow_since = [k \in Detector |-> IF LongWait(x, k) THEN None ELSE @[k]]]

phase(x, p) ==
  [advance(x) EXCEPT
     !.phase = p,
     !.blocked_since = CASE p = "Reading" -> None
                         [] p # "Reading" /\ x.phase = "Reading" -> now
                         [] OTHER -> @]

(* The window starts at the newest sample that is a window old.             *)
sample(x, k) ==
  LET y == advance(x)
      all == Append(y.samples[k], [at |-> y.reading, wire |-> y.wire])
      Old(i) == y.reading - all[i].at >= Window[k]
      first == CHOOSE i \in 1 .. Len(all) - 1 :
                 /\ \A j \in 2 .. i : Old(j)
                 /\ i = Len(all) - 1 \/ ~Old(i + 1)
  IN IF y.phase # "Reading" THEN y
     ELSE [y EXCEPT !.samples[k] = SubSeq(all, first, Len(all))]

(* Bytes and reading time the window covers; it gives a rate once it is     *)
(* full.                                                                    *)
Measured(x, k) ==
  [bytes |-> x.wire - x.samples[k][1].wire, span |-> x.reading - x.samples[k][1].at]
HasRate(x, k) == x.phase = "Reading" /\ Measured(x, k).span >= Window[k]

-----------------------------------------------------------------------------
(* The median of what finished and live requests have shown, unless all the *)
(* live ones have become slow together.  isolated_ip_tail lets a request    *)
(* through whose address alone is slow.                                     *)
Positive(rates) == SelectSeq(rates, LAMBDA r : r > 0)
Median(rates) == SortSeq(rates, <)[Len(rates) \div 2 + 1]

(* Mutant: historical peaks are held against requests that slow together.   *)
baseline_of_peaks(history, live, isolated) ==
  LET rates == Positive(history \o live)
  IN IF Len(rates) < 2 THEN None ELSE Median(rates)

sample_baseline(history, live, isolated) ==
  LET rates == Positive(history \o live)
  IN IF Len(rates) < 2 THEN None
     ELSE IF /\ live # <<>>
             /\ \A i \in DOMAIN live : 2 * live[i] < Median(rates)
             /\ ~isolated
       THEN None
       ELSE Median(rates)

LowAbsolute(m) == Absolute # None /\ m.bytes < Absolute * m.span
LowRelative(m, baseline) == baseline # None /\ 4 * m.bytes < baseline * m.span

(* should_recover and should_recover_tail.  Only the ordinary detector has  *)
(* the absolute limit, and it alone keeps slow_since over a missing rate.   *)
IsLow(k, m, baseline) ==
  \/ LowRelative(m, baseline)
  \/ k = "slow" /\ LowAbsolute(m)

should_recover(x, k, baseline) ==
  LET y == sample(x, k)
      low == HasRate(y, k) /\ y.reading >= Grace[k] /\ IsLow(k, Measured(y, k), baseline)
      since == IF y.slow_since[k] = None THEN y.reading ELSE y.slow_since[k]
      healthy == baseline # None \/ (k = "slow" /\ Absolute # None /\ Absolute > 0)
  IN [obs |-> [y EXCEPT !.slow_since[k] =
                 IF low THEN since
                 ELSE IF k = "slow" /\ ~HasRate(y, k) THEN @ ELSE None],
      recover |-> low /\ y.reading - since >= Duration[k] /\ healthy]

-----------------------------------------------------------------------------
Tick ==
  /\ now < MaxTime
  /\ now' = now + 1
  /\ read_time' = read_time + (IF o.phase = "Reading" THEN 1 ELSE 0)
  /\ advice' = NoAdvice
  /\ sampled' = FALSE
  /\ UNCHANGED <<o, evidence_from>>

(* Data arrives, and the task goes through the phases of forwarding it.     *)
Receive ==
  /\ o.phase = "Reading"
  /\ \E n \in 1 .. MaxFrame : o' = [o EXCEPT !.wire = @ + n]
  /\ advice' = NoAdvice
  /\ UNCHANGED <<now, sampled, read_time, evidence_from>>

EnterPhase ==
  /\ \E p \in Phase \ {o.phase, "Headers"} : o' = phase(o, p)
  /\ evidence_from' = [k \in Detector |->
       IF LongWait(o, k) THEN o.reading ELSE evidence_from[k]]
  /\ advice' = NoAdvice
  /\ UNCHANGED <<now, sampled, read_time>>

(* The tail detector asks for its own baseline, and for none unless idle    *)
(* slots have nothing else to do.                                           *)
recommend ==
  /\ ~sampled
  /\ sampled' = TRUE
  /\ \E peers \in Peers, tail_eligible \in BOOLEAN :
       LET baseline == sample_baseline(peers.history, peers.live, peers.isolated)
           slow == should_recover(o, "slow", baseline)
           tail == should_recover(slow.obs, "tail", IF tail_eligible THEN baseline ELSE None)
           found == {k \in Detector : IF k = "slow" THEN slow.recover ELSE tail.recover}
       IN /\ o' = tail.obs
          /\ advice' \in {NoAdvice} \cup
               {[detectors |-> found, peers |-> peers,
                 absolute |-> slow.recover /\ LowAbsolute(Measured(slow.obs, "slow"))] :
                k \in found}
  /\ evidence_from' = [k \in Detector |->
       IF LongWait(o, k) THEN o.reading ELSE evidence_from[k]]
  /\ UNCHANGED <<now, read_time>>

Next == Tick \/ Receive \/ EnterPhase \/ recommend

Spec == Init /\ [][Next]_vars

-----------------------------------------------------------------------------
(* Bounds the search to the bytes that matter to the thresholds.            *)
FewBytes == o.wire <= 3

(* A request is given up only on evidence of its own.  It is reading; time  *)
(* it spent waiting for the writer, for memory or for the rate limit was    *)
(* not counted against it; since the last local wait as long as the window  *)
(* it has read for a full window and the required duration; and without an  *)
(* absolute limit some live request is more than twice as fast, unless none *)
(* is live or its address alone is slow.                                    *)
RecoverIsEarned ==
  /\ o.reading + (IF o.phase = "Reading" THEN now - o.phase_at ELSE 0) = read_time
  /\ o.reading + o.waiting = o.phase_at
  /\ \A k \in advice.detectors :
       /\ o.phase = "Reading"
       /\ o.reading >= Grace[k]
       /\ o.reading - evidence_from[k] >= Window[k] + Duration[k]
       /\ \/ advice.absolute
          \/ advice.peers.live = <<>> \/ advice.peers.isolated
          \/ \E i \in DOMAIN advice.peers.live :
               advice.peers.live[i] * Measured(o, k).span > 2 * Measured(o, k).bytes
=============================================================================

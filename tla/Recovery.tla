------------------------------ MODULE Recovery -------------------------------
(***************************************************************************)
(* The recovery coordinator of a multi-connection download (Execution in   *)
(* session/multi/worker.rs): connection slots, the queue of recovered      *)
(* ranges, retry lineages, the budget for extra traffic, hedged requests   *)
(* and the wakeups of idle workers.                                        *)
(*                                                                         *)
(* Evidence that a request is slow is the environment's choice             *)
(* (RecoveryWindow models how it is gathered), the writer acknowledges     *)
(* what it is sent (MultiSession models the barriers), and the cooldown    *)
(* and a server's Retry-After are flags that time takes away.              *)
(***************************************************************************)
EXTENDS Integers, FiniteSets, SequencesExt

CONSTANTS
  Worker,              \* worker tasks
  None,
  Slots,               \* slot_capacity: max_connections
  TotalSize, PieceSize,
  RequestCap,          \* recovery_request_cap: 0 when requests are not batched
  MinSegment,          \* min_segment_size
  ExtraLimit,          \* extra_limit: bytes that may be downloaded twice
  MAX_REQUEST_LEASES,
  MaxFrame,            \* bound: bytes of one body frame
  MaxFaults            \* bound: failed attempts and failed hedges

(* What the constants have to satisfy.                                      *)
RecoveryAssumption ==
  /\ {Slots, TotalSize, PieceSize, MinSegment, MAX_REQUEST_LEASES} \subseteq Nat \ {0}
  /\ {RequestCap, ExtraLimit} \subseteq Nat
  /\ TotalSize % PieceSize = 0

VARIABLES
  validator,           \* the object has a usable strong ETag
  missing, done,       \* bytes no lease holds; bytes completed
  pc, segment, queued, \* where each worker is, its lease, the leases behind it
  request_end,         \* end of the range its request asked for
  forwarded,           \* bytes of the segment handed to the writer
  read_ahead,          \* bytes received and not yet handed on
  lineage,             \* lineage of its request
  permit,              \* it holds a slot
  challenger,          \* bytes its hedged request has staged, or None
  reservation,         \* its Reservation, or None
  notified, deadline,  \* what may end its wait
  pending, recovered,  \* State.pending, State.recovered
  recoveries,          \* actions charged to each lineage
  reserved, consumed_extra, hedge,
  cooling,             \* less than COOLDOWN since last_action
  blocked,             \* now < blocked_until
  stopping,            \* the session is being torn down
  faults,              \* counter for the bound
  actions              \* history: recovery actions each missing byte was part of

tableVars == <<missing, done>>
requestVars == <<segment, queued, request_end, forwarded, read_ahead, lineage>>
waitVars == <<notified, deadline>>
queueVars == <<pending, recovered>>
budgetVars == <<reservation, reserved, consumed_extra>>
actionVars == <<recoveries, cooling, actions>>
vars == <<validator, tableVars, pc, requestVars, permit, challenger, waitVars, queueVars,
          budgetVars, actionVars, hedge, blocked, stopping, faults>>

Bytes == 0 .. TotalSize - 1
LineageId == 1 .. 2 * Cardinality(Worker) + TotalSize
NoSegment == [piece |-> 0, start |-> 0, end |-> 0]
Length(s) == s.end - s.start
BytesOf(s) == s.start .. s.end - 1
BytesOfAll(ss) == UNION {BytesOf(ss[i]) : i \in DOMAIN ss}
Least(a, b) == IF a < b THEN a ELSE b
Most(a, b) == IF a > b THEN a ELSE b
CeilDiv(a, b) == (a + b - 1) \div b
available_permits ==
  Slots - Cardinality({w \in Worker : permit[w]})
        - Cardinality({w \in Worker : challenger[w] # None \/ pc[w] = "hedging"})

Init ==
  /\ validator \in BOOLEAN
  /\ missing = Bytes
  /\ done = {}
  /\ pc = [w \in Worker |-> "inspect"]
  /\ segment = [w \in Worker |-> NoSegment]
  /\ queued = [w \in Worker |-> <<>>]
  /\ request_end = [w \in Worker |-> 0]
  /\ forwarded = [w \in Worker |-> 0]
  /\ read_ahead = [w \in Worker |-> 0]
  /\ lineage = [w \in Worker |-> None]
  /\ permit = [w \in Worker |-> FALSE]
  /\ challenger = [w \in Worker |-> None]
  /\ reservation = [w \in Worker |-> None]
  /\ notified = [w \in Worker |-> FALSE]
  /\ deadline = [w \in Worker |-> FALSE]
  /\ pending = <<>>
  /\ recovered = {}
  /\ recoveries = [l \in LineageId |-> 0]
  /\ reserved = 0
  /\ consumed_extra = 0
  /\ hedge = FALSE
  /\ cooling = FALSE
  /\ blocked = FALSE
  /\ stopping = FALSE
  /\ faults = 0
  /\ actions = [b \in Bytes |-> 0]

-----------------------------------------------------------------------------
(* Recovered ranges.  Whole pieces in a row form one range; a partial piece *)
(* is a range of its own, which may be cut further.                         *)
is_whole_piece_segment(s) == s.start % PieceSize = 0 /\ Length(s) = PieceSize

Follows(range, s) ==
  /\ ~range.split
  /\ is_whole_piece_segment(s)
  /\ Last(range.pieces).piece + 1 = s.piece
  /\ Last(range.pieces).end = s.start

from_segments(ss) ==
  FoldLeft(LAMBDA ranges, s :
             IF ranges # <<>> /\ Follows(Last(ranges), s)
               THEN Append(Front(ranges),
                           [Last(ranges) EXCEPT !.pieces = Append(@, s)])
               ELSE Append(ranges, [pieces |-> <<s>>, split |-> ~is_whole_piece_segment(s)]),
           <<>>, ss)

(* The part of a range that one request takes, and what is left of it.      *)
PrefixLen(ps, k) == FoldLeft(LAMBDA n, p : n + Length(p), 0, SubSeq(ps, 1, k))

TakePart(p, slots) ==
  LET share == Most(CeilDiv(Length(p), slots), MinSegment)
      cap_limited == RequestCap # 0 /\ share > RequestCap
      split == IF RequestCap = 0 THEN share ELSE Least(share, RequestCap)
  IN IF split >= Length(p) \/ (Length(p) - split < MinSegment /\ ~cap_limited)
       THEN [taken |-> <<p>>, left |-> <<>>]
       ELSE [taken |-> <<[p EXCEPT !.end = p.start + split]>>,
             left |-> <<[p EXCEPT !.start = p.start + split]>>]

TakeWhole(ps, slots) ==
  LET target == CeilDiv(PrefixLen(ps, Len(ps)), slots)
      Fits(k) == k = 1 \/ (PrefixLen(ps, k) <= RequestCap /\ PrefixLen(ps, k - 1) < target)
      n == CHOOSE k \in 1 .. Least(Len(ps), MAX_REQUEST_LEASES) :
             /\ \A j \in 1 .. k : Fits(j)
             /\ k = Least(Len(ps), MAX_REQUEST_LEASES) \/ ~Fits(k + 1)
  IN [taken |-> SubSeq(ps, 1, n), left |-> SubSeq(ps, n + 1, Len(ps))]

take_prefix(range, slots) ==
  IF range.split
    THEN [taken |-> TakePart(Head(range.pieces), slots).taken,
          left |-> TakePart(Head(range.pieces), slots).left \o Tail(range.pieces)]
    ELSE IF RequestCap = 0
      THEN [taken |-> <<Head(range.pieces)>>, left |-> Tail(range.pieces)]
      ELSE TakeWhole(range.pieces, slots)

(* recovered_batch_with_split remembers the lineage of every range.         *)
Record(records, ss, l) ==
  records \cup {[piece |-> s.piece, start |-> s.start, end |-> s.end,
                 remaining |-> Length(s), lineage |-> l] :
                s \in {x \in {ss[i] : i \in DOMAIN ss} :
                         \A r \in records : r.piece # x.piece \/ r.lineage # l}}

completed(records, s, l) ==
  {r \in {IF q.piece = s.piece /\ q.lineage = l
            THEN [q EXCEPT !.remaining = Most(0, @ - Length(s))]
            ELSE q : q \in records} : r.remaining > 0}

(* recover_segments queues the ranges and reclaims their leases while it    *)
(* holds the scheduler's lock.                                              *)
recover_segments(records, ss, l) ==
  /\ pending' = pending \o from_segments(ss)
  /\ recovered' = Record(records, ss, l)
  /\ missing' = missing \cup BytesOfAll(ss)

(* The lineage of a request is that of its first range: the one of the      *)
(* record that covers it, or a new one.                                     *)
Covering(s) ==
  {r \in recovered : r.piece = s.piece /\ r.start <= s.start /\ r.end >= s.end}
Used(l) ==
  \/ \E w \in Worker : lineage[w] = l
  \/ \E r \in recovered : r.lineage = l
Fresh == CHOOSE l \in LineageId : ~Used(l)
LineageOf(s) ==
  IF Covering(s) = {} THEN Fresh ELSE (CHOOSE r \in Covering(s) : TRUE).lineage

-----------------------------------------------------------------------------
(* Slots and wakeups.  notify_waiters reaches every worker that has         *)
(* registered, whether or not it is waiting yet; not so in the mutant.      *)
notify_parked ==
  notified' = [v \in Worker |-> notified[v] \/ pc[v] = "wait"]

notify_waiters ==
  notified' = [v \in Worker |-> notified[v] \/ pc[v] \in {"inspect", "decided", "wait"}]

Goto(w, where) == pc' = [pc EXCEPT ![w] = where]

(* The top of worker_loop registers for notifications before it inspects    *)
(* anything.                                                                *)
Loop(w) == Goto(w, "inspect")

(* The history is about bytes that are still to be completed.               *)
Forget == actions' = [b \in Bytes |-> IF b \in done' THEN 0 ELSE actions[b]]

(* A worker that has returned to the top of its loop.                       *)
ReleaseRequest(w) ==
  /\ segment' = [segment EXCEPT ![w] = NoSegment]
  /\ queued' = [queued EXCEPT ![w] = <<>>]
  /\ request_end' = [request_end EXCEPT ![w] = 0]
  /\ forwarded' = [forwarded EXCEPT ![w] = 0]
  /\ read_ahead' = [read_ahead EXCEPT ![w] = 0]
  /\ lineage' = [lineage EXCEPT ![w] = None]

(* Reservation::drop: the bound is given back and the cost is charged.      *)
Unreserved(w) ==
  IF reservation[w] = None THEN reserved ELSE reserved - reservation[w].bound
Charged(w, cost) ==
  IF reservation[w] = None THEN consumed_extra ELSE consumed_extra + cost
DropReservation(w, cost) ==
  /\ reserved' = Unreserved(w)
  /\ consumed_extra' = Charged(w, cost)
  /\ reservation' = [reservation EXCEPT ![w] = None]
CostSoFar(w) == IF reservation[w] = None THEN 0 ELSE reservation[w].cost

(* The attempt's futures are dropped: a challenger gives up its slot, its   *)
(* reservation and the hedge flag.                                          *)
DropChallenger(w) ==
  /\ challenger' = [challenger EXCEPT ![w] = None]
  /\ hedge' = (hedge /\ challenger[w] = None)
  /\ DropReservation(w, CostSoFar(w))

-----------------------------------------------------------------------------
(* worker_loop takes a range or waits.                                      *)
AllDone(w) ==
  /\ pc[w] = "inspect"
  /\ done = Bytes
  /\ Goto(w, "ended")
  /\ notified' = [notified EXCEPT ![w] = FALSE]
  /\ UNCHANGED <<validator, tableVars, requestVars, permit, challenger, deadline,
                 queueVars, budgetVars, actionVars, hedge, blocked, stopping, faults>>

Start(w, ss) ==
  /\ segment' = [segment EXCEPT ![w] = Head(ss)]
  /\ queued' = [queued EXCEPT ![w] = Tail(ss)]
  /\ request_end' = [request_end EXCEPT ![w] = Last(ss).end]
  /\ forwarded' = [forwarded EXCEPT ![w] = 0]
  /\ read_ahead' = [read_ahead EXCEPT ![w] = 0]
  /\ lineage' = [lineage EXCEPT ![w] = LineageOf(Head(ss))]
  /\ recoveries' = [l \in LineageId |-> IF Used(l) THEN recoveries[l] ELSE 0]
  /\ notified' = [notified EXCEPT ![w] = FALSE]
  /\ permit' = [permit EXCEPT ![w] = TRUE]
  /\ missing' = missing \ BytesOfAll(ss)
  /\ Goto(w, "attempt")

(* What worker_loop may assign.  assign_recovery_batch refuses a range that *)
(* is not free.                                                             *)
NextBatch(slots) == take_prefix(Head(pending), slots)
CanAssign ==
  /\ ~stopping
  /\ available_permits > 0
  /\ IF pending # <<>>
       THEN ~blocked /\ BytesOfAll(NextBatch(available_permits).taken) \subseteq missing
       ELSE missing # {}

AssignRecovered(w) ==
  /\ pc[w] = "inspect"
  /\ done # Bytes
  /\ CanAssign
  /\ pending # <<>>
  /\ LET t == NextBatch(available_permits)
     IN /\ Start(w, t.taken)
        /\ pending' = IF t.left = <<>> THEN Tail(pending)
                        ELSE <<[Head(pending) EXCEPT !.pieces = t.left]>> \o Tail(pending)
  /\ UNCHANGED <<validator, done, challenger, deadline, recovered, budgetVars, cooling,
                 actions, hedge, blocked, stopping, faults>>

(* assign_request: whole pieces in a row, or a part of one piece.           *)
PieceOf(b) == b \div PieceSize
Grants ==
  {ss \in {<<[piece |-> p, start |-> a, end |-> b]>> :
             p \in 0 .. TotalSize \div PieceSize - 1, a \in Bytes, b \in 1 .. TotalSize}
          \cup
          {[k \in 1 .. n |-> [piece |-> p + k - 1, start |-> (p + k - 1) * PieceSize,
                              end |-> (p + k) * PieceSize]] :
             p \in 0 .. TotalSize \div PieceSize - 1, n \in 2 .. MAX_REQUEST_LEASES} :
     /\ Head(ss).start < Head(ss).end
     /\ PieceOf(Head(ss).start) = Head(ss).piece /\ PieceOf(Head(ss).end - 1) = Head(ss).piece
     /\ BytesOfAll(ss) \subseteq missing
     /\ Head(ss).start % PieceSize = 0 \/ Head(ss).start - 1 \notin missing}

AssignOrdinary(w) ==
  /\ pc[w] = "inspect"
  /\ done # Bytes
  /\ CanAssign
  /\ pending = <<>>
  /\ \E ss \in Grants : Start(w, ss)
  /\ UNCHANGED <<validator, done, challenger, deadline, queueVars, budgetVars, cooling,
                 actions, hedge, blocked, stopping, faults>>

(* Nothing can be assigned.  A worker held back by Retry-After alone also   *)
(* sets itself a timer.                                                     *)
WaitForWork(w) ==
  /\ pc[w] = "inspect"
  /\ done # Bytes
  /\ ~CanAssign
  /\ Goto(w, "decided")
  /\ deadline' = [deadline EXCEPT ![w] = available_permits > 0 /\ pending # <<>> /\ blocked]
  /\ UNCHANGED <<validator, tableVars, requestVars, permit, challenger, notified,
                 queueVars, budgetVars, actionVars, hedge, blocked, stopping, faults>>

Park(w) ==
  /\ pc[w] = "decided"
  /\ Goto(w, "wait")
  /\ UNCHANGED <<validator, tableVars, requestVars, permit, challenger, waitVars, queueVars,
                 budgetVars, actionVars, hedge, blocked, stopping, faults>>

Wake(w) ==
  /\ pc[w] = "wait"
  /\ notified[w] \/ (deadline[w] /\ ~blocked)
  /\ Loop(w)
  /\ notified' = [notified EXCEPT ![w] = FALSE]
  /\ deadline' = [deadline EXCEPT ![w] = FALSE]
  /\ UNCHANGED <<validator, tableVars, requestVars, permit, challenger, queueVars,
                 budgetVars, actionVars, hedge, blocked, stopping, faults>>

-----------------------------------------------------------------------------
(* One attempt: the body of the request.  Only in the Reading phase, with   *)
(* every received byte handed on, is a request given up or its queue.       *)
Reading(w) == pc[w] = "attempt" /\ read_ahead[w] = 0 /\ forwarded[w] < Length(segment[w])

ReceiveFrame(w) ==
  /\ Reading(w)
  /\ \E n \in 1 .. MaxFrame :
       /\ segment[w].start + forwarded[w] + n <= request_end[w]
       /\ read_ahead' = [read_ahead EXCEPT ![w] = n]
  /\ UNCHANGED <<validator, tableVars, pc, segment, queued, request_end, forwarded, lineage,
                 permit, challenger, waitVars, queueVars, budgetVars, actionVars, hedge,
                 blocked, stopping, faults>>

Forward(w) ==
  /\ pc[w] = "attempt"
  /\ read_ahead[w] > 0 /\ forwarded[w] < Length(segment[w])
  /\ read_ahead' = [read_ahead EXCEPT ![w] = @ - 1]
  /\ forwarded' = [forwarded EXCEPT ![w] = @ + 1]
  /\ UNCHANGED <<validator, tableVars, pc, segment, queued, request_end, lineage, permit,
                 challenger, waitVars, queueVars, budgetVars, actionVars, hedge, blocked,
                 stopping, faults>>

(* The segment's bytes have all been forwarded; run_attempt returns.        *)
PrimaryDone(w) ==
  /\ pc[w] = "attempt"
  /\ forwarded[w] = Length(segment[w])
  /\ DropChallenger(w)
  /\ IF challenger[w] # None THEN notify_waiters ELSE UNCHANGED notified
  /\ Goto(w, "flush")
  /\ UNCHANGED <<validator, tableVars, requestVars, permit, deadline, queueVars,
                 actionVars, blocked, stopping, faults>>

(* Outcome::Complete, acknowledged by the writer.                           *)
CompleteSegment(w) ==
  /\ pc[w] = "flush"
  /\ done' = done \cup BytesOf(segment[w])
  /\ recovered' = completed(recovered, segment[w], lineage[w])
  /\ notify_waiters
  /\ IF queued[w] # <<>>
       THEN /\ segment' = [segment EXCEPT ![w] = Head(queued[w])]
            /\ queued' = [queued EXCEPT ![w] = Tail(@)]
            /\ forwarded' = [forwarded EXCEPT ![w] = 0]
            /\ Goto(w, "attempt")
            /\ UNCHANGED <<request_end, read_ahead, lineage, permit>>
       ELSE /\ ReleaseRequest(w)
            /\ permit' = [permit EXCEPT ![w] = FALSE]
            /\ Loop(w)
  /\ Forget
  /\ UNCHANGED <<validator, missing, challenger, deadline, pending, budgetVars,
                 recoveries, cooling, hedge, blocked, stopping, faults>>

(* Idle workers take over the segments queued behind the current one.       *)
HandOffSuffix(w) ==
  /\ Reading(w)
  /\ queued[w] # <<>>
  /\ ~blocked
  /\ recover_segments(recovered, queued[w], lineage[w])
  /\ queued' = [queued EXCEPT ![w] = <<>>]
  /\ notify_waiters
  /\ UNCHANGED <<validator, done, pc, segment, request_end, forwarded, read_ahead, lineage,
                 permit, challenger, deadline, budgetVars, actionVars, hedge, blocked,
                 stopping, faults>>

-----------------------------------------------------------------------------
(* A request is found slow.                                                 *)
cancellation_cost_bound(w) ==
  read_ahead[w] + (IF validator THEN 0 ELSE Length(segment[w]))

OtherGuardsPass == ~hedge /\ ~blocked /\ ~cooling
WithinBudget(bound) == bound <= ExtraLimit - (reserved + consumed_extra)
MAX_RECOVERIES == 2

reserve_result(w, bound, hedged) ==
  /\ OtherGuardsPass
  /\ WithinBudget(bound)
  /\ recoveries[lineage[w]] < MAX_RECOVERIES
  /\ recoveries' = [recoveries EXCEPT ![lineage[w]] = @ + 1]
  /\ reserved' = reserved + bound
  /\ reservation' = [reservation EXCEPT ![w] =
       [bound |-> bound, cost |-> IF hedged THEN 0 ELSE bound]]
  /\ hedge' = hedged
  /\ cooling' = TRUE
  /\ actions' = [b \in Bytes |->
       actions[b] + (IF b \in BytesOf(segment[w]) \cup BytesOfAll(queued[w]) THEN 1 ELSE 0)]

hedge_eligible(w) ==
  request_end[w] = segment[w].end /\ validator /\ missing = {}

Slow(w) == Reading(w) /\ challenger[w] = None

(* Cancel before resume.                                                    *)
SelectRecovery(w) ==
  /\ Slow(w)
  /\ ~(hedge_eligible(w) /\ available_permits > 0)
  /\ reserve_result(w, cancellation_cost_bound(w), FALSE)
  /\ Goto(w, "recover")
  /\ UNCHANGED <<validator, tableVars, requestVars, permit, challenger, waitVars, queueVars,
                 consumed_extra, blocked, stopping, faults>>

(* A hedge first takes a spare slot, then asks for its reservation.         *)
TakeHedgeSlot(w) ==
  /\ Slow(w)
  /\ hedge_eligible(w) /\ available_permits > 0
  /\ Goto(w, "hedging")
  /\ UNCHANGED <<validator, tableVars, requestVars, permit, challenger, waitVars,
                 queueVars, budgetVars, actionVars, hedge, blocked, stopping, faults>>

StartHedge(w) ==
  /\ pc[w] = "hedging"
  /\ reserve_result(w, Length(segment[w]), TRUE)
  /\ challenger' = [challenger EXCEPT ![w] = 0]
  /\ Goto(w, "attempt")
  /\ UNCHANGED <<validator, tableVars, requestVars, permit, waitVars, queueVars,
                 consumed_extra, blocked, stopping, faults>>

(* A hedge that only the budget refuses falls back to cancel-before-resume. *)
(* Its slot is given back without a notification.                           *)
RefuseHedge(w) ==
  /\ pc[w] = "hedging"
  /\ ~(/\ OtherGuardsPass
       /\ WithinBudget(Length(segment[w]))
       /\ recoveries[lineage[w]] < MAX_RECOVERIES)
  /\ \/ /\ ~WithinBudget(Length(segment[w]))
        /\ reserve_result(w, cancellation_cost_bound(w), FALSE)
        /\ Goto(w, "recover")
     \/ /\ ~(/\ OtherGuardsPass
             /\ ~WithinBudget(Length(segment[w]))
             /\ WithinBudget(cancellation_cost_bound(w))
             /\ recoveries[lineage[w]] < MAX_RECOVERIES)
        /\ Goto(w, "attempt")
        /\ UNCHANGED <<recoveries, reserved, reservation, hedge, cooling, actions>>
  /\ UNCHANGED <<validator, tableVars, requestVars, permit, challenger, waitVars, queueVars,
                 consumed_extra, blocked, stopping, faults>>

-----------------------------------------------------------------------------
(* The challenger stages the same range in a file of its own.               *)
stage(w) ==
  /\ pc[w] = "attempt"
  /\ challenger[w] # None
  /\ challenger[w] < Length(segment[w])
  /\ challenger' = [challenger EXCEPT ![w] = @ + 1]
  /\ reservation' = [reservation EXCEPT ![w].cost = challenger[w] + 1]
  /\ UNCHANGED <<validator, tableVars, pc, requestVars, permit, waitVars, queueVars,
                 reserved, consumed_extra, actionVars, hedge, blocked, stopping, faults>>

(* Its slot and the hedge flag go; a winner keeps its reservation.          *)
ChallengerWins(w) ==
  /\ pc[w] = "attempt"
  /\ challenger[w] # None
  /\ challenger[w] = Length(segment[w])
  /\ challenger' = [challenger EXCEPT ![w] = None]
  /\ hedge' = FALSE
  /\ notify_waiters
  /\ Goto(w, "staged")
  /\ UNCHANGED <<validator, tableVars, requestVars, permit, deadline, queueVars, budgetVars,
                 actionVars, blocked, stopping, faults>>

(* A failed challenger leaves the primary alone, unless the object changed. *)
ChallengerFails(w) ==
  /\ pc[w] = "attempt"
  /\ challenger[w] # None
  /\ faults < MaxFaults
  /\ faults' = faults + 1
  /\ DropChallenger(w)
  /\ notify_waiters
  /\ \/ /\ blocked' \in {blocked, TRUE}
        /\ UNCHANGED pc
     \/ /\ Goto(w, "fatal")
        /\ UNCHANGED blocked
  /\ UNCHANGED <<validator, tableVars, requestVars, permit, deadline, queueVars, actionVars,
                 stopping>>

PrimaryFails(w) ==
  /\ pc[w] = "attempt"
  /\ faults < MaxFaults
  /\ faults' = faults + 1
  /\ DropChallenger(w)
  /\ IF challenger[w] # None THEN notify_waiters ELSE UNCHANGED notified
  /\ \E outcome \in {"retry", "fatal"} : Goto(w, outcome)
  /\ UNCHANGED <<validator, tableVars, requestVars, permit, deadline, queueVars, actionVars,
                 blocked, stopping>>

-----------------------------------------------------------------------------
(* The writer has acknowledged the end of an attempt.  A retained prefix    *)
(* counts as completed; the rest goes on under the same lineage.            *)
Retains(w) ==
  /\ validator
  /\ forwarded[w] > 0 /\ forwarded[w] < Length(segment[w])
  /\ pc[w] \in {"recover", "retry"}
Prefix(w) == [segment[w] EXCEPT !.end = segment[w].start + forwarded[w]]
Rest(w) ==
  IF Retains(w) THEN [segment[w] EXCEPT !.start = segment[w].start + forwarded[w]]
                ELSE segment[w]
RecordsAfter(w) ==
  IF Retains(w) THEN completed(recovered, Prefix(w), lineage[w]) ELSE recovered
WastedBytes(w) == read_ahead[w] + (IF Retains(w) THEN 0 ELSE forwarded[w])
KeepPrefix(w) ==
  done' = IF Retains(w) THEN done \cup BytesOf(Prefix(w)) ELSE done

SettleRecovery(w) ==
  /\ pc[w] = "recover"
  /\ KeepPrefix(w)
  /\ recover_segments(RecordsAfter(w), <<Rest(w)>> \o queued[w], lineage[w])
  /\ DropReservation(w, WastedBytes(w))
  /\ ReleaseRequest(w)
  /\ permit' = [permit EXCEPT ![w] = FALSE]
  /\ notify_waiters
  /\ Loop(w)
  /\ Forget
  /\ UNCHANGED <<validator, challenger, deadline, recoveries, cooling, hedge, blocked, stopping,
                 faults>>

(* The worker keeps its lease and gives its slot away while it backs off.   *)
SettleRetry(w) ==
  /\ pc[w] = "retry"
  /\ KeepPrefix(w)
  /\ recover_segments(RecordsAfter(w), queued[w], lineage[w])
  /\ segment' = [segment EXCEPT ![w] = Rest(w)]
  /\ queued' = [queued EXCEPT ![w] = <<>>]
  /\ request_end' = [request_end EXCEPT ![w] = segment[w].end]
  /\ forwarded' = [forwarded EXCEPT ![w] = 0]
  /\ read_ahead' = [read_ahead EXCEPT ![w] = 0]
  /\ blocked' \in {blocked, TRUE}
  /\ permit' = [permit EXCEPT ![w] = FALSE]
  /\ notify_waiters
  /\ Goto(w, "backoff")
  /\ Forget
  /\ UNCHANGED <<validator, lineage, challenger, deadline, budgetVars, recoveries, cooling, hedge,
                 stopping, faults>>

(* sleep_with_backoff, then reacquire_slot.                                 *)
reacquire_slot(w) ==
  /\ pc[w] = "backoff"
  /\ available_permits > 0
  /\ permit' = [permit EXCEPT ![w] = TRUE]
  /\ Goto(w, "attempt")
  /\ UNCHANGED <<validator, tableVars, requestVars, challenger, waitVars, queueVars,
                 budgetVars, actionVars, hedge, blocked, stopping, faults>>

(* The winner of a hedge is copied to the writer under a renewed lease.     *)
CopyWinner(w) ==
  /\ pc[w] = "staged"
  /\ done' = done \cup BytesOf(segment[w])
  /\ recovered' = completed(recovered, segment[w], lineage[w])
  /\ DropReservation(w, WastedBytes(w))
  /\ ReleaseRequest(w)
  /\ permit' = [permit EXCEPT ![w] = FALSE]
  /\ notify_waiters
  /\ Loop(w)
  /\ Forget
  /\ UNCHANGED <<validator, missing, challenger, deadline, pending, recoveries, cooling, hedge,
                 blocked, stopping, faults>>

(* RetryDecision::Stop closes the scheduler, and the session aborts the     *)
(* other workers.                                                           *)
SettleStop(w) ==
  /\ pc[w] = "fatal"
  /\ stopping' = TRUE
  /\ missing' = missing \cup BytesOf(segment[w])
  /\ ReleaseRequest(w)
  /\ permit' = [permit EXCEPT ![w] = FALSE]
  /\ notify_waiters
  /\ Goto(w, "ended")
  /\ UNCHANGED <<validator, done, challenger, deadline, queueVars, budgetVars,
                 actionVars, hedge, blocked, faults>>

Abort(w) ==
  /\ stopping
  /\ pc[w] # "ended"
  /\ DropChallenger(w)
  /\ ReleaseRequest(w)
  /\ permit' = [permit EXCEPT ![w] = FALSE]
  /\ notify_waiters
  /\ Goto(w, "ended")
  /\ UNCHANGED <<validator, tableVars, deadline, queueVars, actionVars, blocked,
                 stopping, faults>>

CooldownEnds ==
  /\ cooling
  /\ cooling' = FALSE
  /\ UNCHANGED <<validator, tableVars, pc, requestVars, permit, challenger, waitVars,
                 queueVars, budgetVars, recoveries, actions, hedge, blocked, stopping, faults>>

BackoffEnds ==
  /\ blocked
  /\ blocked' = FALSE
  /\ UNCHANGED <<validator, tableVars, pc, requestVars, permit, challenger, waitVars,
                 queueVars, budgetVars, actionVars, hedge, stopping, faults>>

Terminated ==
  /\ \A w \in Worker : pc[w] = "ended"
  /\ UNCHANGED vars

Next ==
  \/ \E w \in Worker :
       \/ AllDone(w) \/ AssignRecovered(w) \/ AssignOrdinary(w)
       \/ WaitForWork(w) \/ Park(w) \/ Wake(w)
       \/ ReceiveFrame(w) \/ Forward(w) \/ PrimaryDone(w) \/ CompleteSegment(w)
       \/ HandOffSuffix(w) \/ SelectRecovery(w) \/ TakeHedgeSlot(w) \/ StartHedge(w)
       \/ RefuseHedge(w) \/ stage(w) \/ ChallengerWins(w) \/ ChallengerFails(w)
       \/ PrimaryFails(w) \/ SettleRecovery(w) \/ SettleRetry(w) \/ reacquire_slot(w)
       \/ CopyWinner(w) \/ SettleStop(w) \/ Abort(w)
  \/ CooldownEnds \/ BackoffEnds
  \/ Terminated

Spec == Init /\ [][Next]_vars

-----------------------------------------------------------------------------
(* Extra traffic stays within its budget.  What is reserved is the sum of   *)
(* the bounds of the actions in flight, no action costs more than its       *)
(* bound, and the two together never pass extra_limit, whichever way each   *)
(* action ends; the hedge flag is up exactly while a challenger runs.       *)
ExtraWithinBudget ==
  /\ reserved = MapThenSumSet(LAMBDA w : reservation[w].bound,
                              {w \in Worker : reservation[w] # None})
  /\ \A w \in Worker : reservation[w] # None => reservation[w].cost <= reservation[w].bound
  /\ reserved + consumed_extra <= ExtraLimit
  /\ hedge <=> (\E w \in Worker : challenger[w] # None)

(* No byte is part of more than two recovery actions: a lineage follows its *)
(* bytes through hand-overs, splits, retries and re-batching.               *)
ActionsAreCapped == \A b \in Bytes : actions[b] <= MAX_RECOVERIES

(* Queued recovery ranges are free and disjoint, so no worker is refused a  *)
(* range it has taken from the queue; and no byte is lost between the       *)
(* scheduler, the workers and the completed set.                            *)
PendingIsFree ==
  LET Queued(i) == BytesOfAll(pending[i].pieces)
      Held(w) == BytesOf(segment[w]) \cup BytesOfAll(queued[w])
  IN /\ \A i \in DOMAIN pending :
          /\ pending[i].pieces # <<>>
          /\ Queued(i) \subseteq missing
          /\ \A j \in DOMAIN pending : i # j => Queued(i) \cap Queued(j) = {}
     /\ stopping \/ missing \cup done \cup UNION {Held(w) : w \in Worker} = Bytes

(* A worker sleeps without a wakeup on its way only while the download is   *)
(* unfinished and another worker is on its feet, who will notify it.        *)
SleepersAreWoken ==
  \A w \in Worker :
    pc[w] = "wait" /\ ~notified[w] /\ ~deadline[w] /\ ~stopping =>
      /\ done # Bytes
      /\ \E v \in Worker : pc[v] \notin {"wait", "ended"} \/ notified[v] \/ deadline[v]

(* Recovery stays within its means, returns what it takes, and leaves no    *)
(* worker asleep.                                                           *)
RecoveryIsSound == ExtraWithinBudget /\ ActionsAreCapped /\ PendingIsFree /\ SleepersAreWoken
=============================================================================

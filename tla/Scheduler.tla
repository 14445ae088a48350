----------------------------- MODULE Scheduler ------------------------------
(***************************************************************************)
(* SchedulerState of scheduler.rs: the byte ranges of every piece and the  *)
(* leases workers hold on them.  Every method runs under the scheduler     *)
(* mutex, so each is one action; the callers (workers, recovery, the       *)
(* monitor) choose the method, the lease and the number of occupied        *)
(* request slots.                                                          *)
(*                                                                         *)
(* A RangeSet coalesces overlapping and adjacent ranges, so it is          *)
(* determined by the bytes it covers: it is modelled as that byte set and  *)
(* its ranges are the maximal runs.                                        *)
(***************************************************************************)
EXTENDS DynamicPlanner, FiniteSetsExt

CONSTANTS
  MaxConnections,     \* max_requests
  Modes,              \* the RangeSchedulingModes callers pass to assign_request
  MinSegmentSize,     \* min_segment_size; 0 turns splitting off
  RequestBatchSize,   \* request_batch_size; 0 turns batching off
  DynamicMinSplit,    \* dynamic_min_split_size
  DynamicMaxRequest,  \* dynamic_max_request_size
  MaxLeaseId          \* bound: leases issued before the model stops issuing

ASSUME SchedulerAssumption ==
  /\ MaxConnections \in Nat \ {0}
  /\ Modes \subseteq {"Fixed", "Dynamic"}
  /\ MinSegmentSize \in Nat
  /\ RequestBatchSize \in Nat
  /\ DynamicMinSplit \in Nat
  /\ DynamicMaxRequest \in Nat
  /\ MaxLeaseId \in Nat

VARIABLES
  completed,              \* piece_map: pieces whose completion bit is set
  pieces,                 \* keys of the runtime map: touched, not complete
  missing_ranges,         \* piece -> bytes nobody holds and nobody wrote
  active_leases,          \* the leases of all pieces
  has_completed_ranges,   \* touched pieces with an acknowledged part
  available_pieces,       \* bit set of pieces with a missing range
  active_lease_count,
  available_range_count,
  next_candidate,
  next_lease_id,
  stopped,
  acked                   \* ghost: piece -> bytes the writer acknowledged

vars == <<completed, pieces, missing_ranges, active_leases, has_completed_ranges,
          available_pieces, active_lease_count, available_range_count,
          next_candidate, next_lease_id, stopped, acked>>

Lease == {l \in [id : Nat, piece : Pieces, start : Nat, end : Nat] : l.start < l.end}

-----------------------------------------------------------------------------
(* RangeSet: the starts of its ranges, and its first range.                 *)
RangeStarts(bytes) == {b \in bytes : b - 1 \notin bytes}
RangeCount(ps, missing) ==
  Cardinality({x \in ps \X Bytes : x[2] \in RangeStarts(missing[x[1]])})

FirstRange(bytes) ==
  LET first == Min(bytes)
  IN [start |-> first,
      end |-> CHOOSE e \in first + 1 .. TotalSize :
                /\ first .. e - 1 \subseteq bytes
                /\ e \notin bytes]

(* PieceMap::first_missing, or 0 when nothing is missing.                   *)
FirstMissing(done) == IF done = Pieces THEN 0 ELSE Min(Pieces \ done)

(* SchedulerState::new over a fresh or a restored piece map.                *)
Init ==
  /\ completed \in SUBSET Pieces
  /\ pieces = {}
  /\ missing_ranges = [p \in Pieces |-> IF p \in completed THEN {} ELSE PieceBytes(p)]
  /\ active_leases = {}
  /\ has_completed_ranges = {}
  /\ available_pieces = Pieces \ completed
  /\ active_lease_count = 0
  /\ available_range_count = Cardinality(Pieces \ completed)
  /\ next_candidate = FirstMissing(completed)
  /\ next_lease_id = 1
  /\ stopped = FALSE
  /\ acked = [p \in Pieces |-> IF p \in completed THEN PieceBytes(p) ELSE {}]

-----------------------------------------------------------------------------
Ranges == {r \in [start : Bytes, end : 1 .. TotalSize] : r.start < r.end}

(* issue_lease for the pieces first .. last of a grant, a function from     *)
(* pieces to ranges.  RangeSet::remove refuses a range that is not wholly   *)
(* missing.                                                                 *)
IsMissing(p, r) == r \in Ranges /\ RangeBytes(r) \subseteq missing_ranges[p]

Issuable(first, last, grant) ==
  /\ ~stopped
  /\ first \in Pieces /\ last \in Pieces /\ first <= last
  /\ \A p \in first .. last : IsMissing(p, grant[p])

issue_lease(first, last, grant) ==
  LET ps == first .. last
  IN /\ Issuable(first, last, grant)
     /\ missing_ranges' = [p \in Pieces |-> IF p \in ps
                             THEN missing_ranges[p] \ RangeBytes(grant[p])
                             ELSE missing_ranges[p]]
     /\ active_leases' = active_leases \cup
          {[id |-> next_lease_id + (p - first), piece |-> p,
            start |-> grant[p].start, end |-> grant[p].end] : p \in ps}
     /\ next_lease_id' = next_lease_id + (last - first + 1)
     /\ pieces' = pieces \cup ps
     /\ active_lease_count' = active_lease_count + (last - first + 1)
     /\ available_range_count' = available_range_count
          - RangeCount(ps, missing_ranges) + RangeCount(ps, missing_ranges')
     /\ available_pieces' = (available_pieces \ ps)
          \cup {p \in ps : missing_ranges'[p] # {}}
     /\ UNCHANGED <<completed, has_completed_ranges, stopped, acked>>

Whole == [p \in Pieces |-> piece_range(p)]

(* The next available piece at or after next_candidate, wrapping around.    *)
CandidatePiece ==
  LET ahead == {p \in available_pieces : p >= next_candidate}
  IN Min(IF ahead # {} THEN ahead ELSE available_pieces)

(* A range is split only when there is less work than request slots, and    *)
(* never into parts shorter than min_segment_size.                          *)
assignment_range_for(r, max_active_leases, min_segment_size) ==
  LET work_units == active_lease_count + available_range_count
      len == r.end - r.start
      segment_len == MaxOf(div_ceil(len, max_active_leases - work_units + 1),
                           min_segment_size)
  IN IF \/ max_active_leases <= 1 \/ min_segment_size = 0
        \/ work_units >= max_active_leases
        \/ len <= min_segment_size
        \/ len - segment_len < min_segment_size
       THEN r
       ELSE [r EXCEPT !.end = r.start + segment_len]

(* Mutant: the batch takes one range too many from its peers.               *)
BatchEndStarvesPeer(first, occupied) ==
  LET left == available_range_count - 1
      reserved_for_peers == MaxConnections - (occupied + 1)
      Joins(p) ==
        /\ p - first < MAX_REQUEST_LEASES
        /\ left - (p - first - 1) >= reserved_for_peers
        /\ p \in available_pieces \ pieces
        /\ PieceEnd(p) - PieceStart(first) <= RequestBatchSize
  IN Max({e \in first .. piece_count - 1 : \A p \in first + 1 .. e : Joins(p)})

(* extend_batch_with_occupied: the pieces after the first that join its     *)
(* request, while enough ranges stay behind for the other request slots.    *)
BatchEnd(first, occupied) ==
  LET left == available_range_count - 1
      reserved_for_peers == MaxConnections - (occupied + 1)
      Joins(p) ==
        /\ p - first < MAX_REQUEST_LEASES
        /\ left - (p - first - 1) > reserved_for_peers
        /\ p \in available_pieces \ pieces
        /\ PieceEnd(p) - PieceStart(first) <= RequestBatchSize
  IN Max({e \in first .. piece_count - 1 : \A p \in first + 1 .. e : Joins(p)})

-----------------------------------------------------------------------------
CanIssue == /\ available_range_count # 0
            /\ next_lease_id <= MaxLeaseId

(* assign_to: the whole first range of the candidate piece.  Used for the   *)
(* request a probe response is handed to, and by the dynamic mode when no   *)
(* untouched piece is left.                                                 *)
assign_to ==
  \E p \in {CandidatePiece} :
    /\ issue_lease(p, p, [q \in {p} |-> FirstRange(missing_ranges[p])])
    /\ next_candidate' = (p + 1) % piece_count

AssignForProbe == CanIssue /\ assign_to

(* Only a request that starts with an untouched whole piece is extended.    *)
assign_fixed_request(occupied) ==
  /\ CanIssue
  /\ "Fixed" \in Modes
  /\ \E p \in {CandidatePiece} :
     \E r \in {assignment_range_for(FirstRange(missing_ranges[p]),
                 active_lease_count + (MaxConnections - occupied), MinSegmentSize)} :
     \E last \in {IF p \notin pieces /\ r = piece_range(p)
                    THEN BatchEnd(p, occupied) ELSE p} :
       /\ issue_lease(p, last, [Whole EXCEPT ![p] = r])
       /\ next_candidate' = (last + 1) % piece_count

(* Mutant: a piece that was touched still counts as a whole one.            *)
PlansTouchedPieces(occupied) ==
  /\ CanIssue
  /\ "Dynamic" \in Modes
  /\ \E plan \in {PlannedRequest(available_pieces, MaxConnections - occupied,
                                 DynamicMinSplit, DynamicMaxRequest)} :
       issue_lease(plan.first_piece, plan.end_piece - 1, Whole)
  /\ UNCHANGED next_candidate

assign_dynamic_request(occupied) ==
  LET untouched == available_pieces \ pieces
  IN /\ CanIssue
     /\ "Dynamic" \in Modes
     /\ \/ /\ untouched = {}
           /\ assign_to
        \/ /\ untouched # {}
           /\ \E plan \in {PlannedRequest(untouched, MaxConnections - occupied,
                                          DynamicMinSplit, DynamicMaxRequest)} :
                issue_lease(plan.first_piece, plan.end_piece - 1, Whole)
           /\ UNCHANGED next_candidate

(* A pending recovery range r covers consecutive pieces.                    *)
PieceOf(b) == b \div PieceSize
RecoveryGrant(r) ==
  [p \in Pieces |-> [start |-> MaxOf(r.start, PieceStart(p)),
                      end |-> MinOf(r.end, PieceEnd(p))]]

RecoverableRange(first, last) ==
  /\ next_lease_id <= MaxLeaseId
  /\ last - first < MAX_REQUEST_LEASES
  /\ first .. last \cap completed = {}

assign_recovery_batch(r) ==
  LET first == PieceOf(r.start)
      last == PieceOf(r.end - 1)
  IN /\ RecoverableRange(first, last)
     /\ issue_lease(first, last, RecoveryGrant(r))
     /\ UNCHANGED next_candidate

(* A member that is not available any more: the leases issued before it are *)
(* reclaimed again.  Their ids are spent, and the runtime map keeps an      *)
(* entry for each piece tried.                                              *)
RecoveryBatchRollback(r) ==
  LET first == PieceOf(r.start)
      last == PieceOf(r.end - 1)
      grant == RecoveryGrant(r)
  IN /\ RecoverableRange(first, last)
     /\ ~stopped
     /\ \E bad \in first .. last :
          /\ \A p \in first .. bad - 1 : IsMissing(p, grant[p])
          /\ ~IsMissing(bad, grant[bad])
          /\ next_lease_id' = next_lease_id + (bad - first)
          /\ pieces' = pieces \cup first .. bad
          /\ next_candidate' = IF bad = first THEN next_candidate
                                             ELSE MinOf(next_candidate, first)
     /\ UNCHANGED <<completed, missing_ranges, active_leases, has_completed_ranges,
                    available_pieces, active_lease_count, available_range_count,
                    stopped, acked>>

-----------------------------------------------------------------------------
(* Mutant: the lease keeps the confirmed prefix.                            *)
retain_prefixKeepsLease(l, confirmed_end) ==
  /\ confirmed_end > l.start /\ confirmed_end < l.end
  /\ has_completed_ranges' = has_completed_ranges \cup {l.piece}
  /\ acked' = [acked EXCEPT ![l.piece] = @ \cup (l.start .. confirmed_end - 1)]
  /\ UNCHANGED <<completed, pieces, missing_ranges, active_leases, available_pieces,
                 active_lease_count, available_range_count, next_candidate,
                 next_lease_id, stopped>>

(* retain_prefix: the writer has confirmed [start, confirmed_end).          *)
retain_prefix(l, confirmed_end) ==
  /\ confirmed_end > l.start /\ confirmed_end < l.end
  /\ active_leases' = (active_leases \ {l}) \cup {[l EXCEPT !.start = confirmed_end]}
  /\ has_completed_ranges' = has_completed_ranges \cup {l.piece}
  /\ acked' = [acked EXCEPT ![l.piece] = @ \cup (l.start .. confirmed_end - 1)]
  /\ UNCHANGED <<completed, pieces, missing_ranges, available_pieces,
                 active_lease_count, available_range_count, next_candidate,
                 next_lease_id, stopped>>

(* renew: the same range under a fresh identity.  It is not refused after a *)
(* stop.                                                                    *)
renew(l) ==
  /\ next_lease_id <= MaxLeaseId
  /\ l.piece \notin completed
  /\ active_leases' = (active_leases \ {l}) \cup {[l EXCEPT !.id = next_lease_id]}
  /\ next_lease_id' = next_lease_id + 1
  /\ UNCHANGED <<completed, pieces, missing_ranges, has_completed_ranges,
                 available_pieces, active_lease_count, available_range_count,
                 next_candidate, stopped, acked>>

(* Mutant: a piece counts as done while another lease on it is running.     *)
completeEarly(l) ==
  /\ active_leases' = active_leases \ {l}
  /\ active_lease_count' = active_lease_count - 1
  /\ acked' = [acked EXCEPT ![l.piece] = @ \cup RangeBytes(l)]
  /\ IF missing_ranges[l.piece] = {}
       THEN /\ completed' = completed \cup {l.piece}
            /\ pieces' = pieces \ {l.piece}
            /\ has_completed_ranges' = has_completed_ranges \ {l.piece}
       ELSE /\ has_completed_ranges' = has_completed_ranges \cup {l.piece}
            /\ UNCHANGED <<completed, pieces>>
  /\ UNCHANGED <<missing_ranges, available_pieces, available_range_count,
                 next_candidate, next_lease_id, stopped>>

(* complete: the piece is done once nothing of it is missing or leased.     *)
complete(l) ==
  LET piece_complete == /\ missing_ranges[l.piece] = {}
                        /\ \A m \in active_leases \ {l} : m.piece # l.piece
  IN /\ active_leases' = active_leases \ {l}
     /\ active_lease_count' = active_lease_count - 1
     /\ acked' = [acked EXCEPT ![l.piece] = @ \cup RangeBytes(l)]
     /\ IF piece_complete
          THEN /\ completed' = completed \cup {l.piece}
               /\ pieces' = pieces \ {l.piece}
               /\ has_completed_ranges' = has_completed_ranges \ {l.piece}
          ELSE /\ has_completed_ranges' = has_completed_ranges \cup {l.piece}
               /\ UNCHANGED <<completed, pieces>>
     /\ UNCHANGED <<missing_ranges, available_pieces, available_range_count,
                    next_candidate, next_lease_id, stopped>>

(* Mutant: a returned range is counted as a new one although it may join    *)
(* its neighbours.                                                          *)
ReclaimCountsRange(l) ==
  /\ missing_ranges' = [missing_ranges EXCEPT ![l.piece] = @ \cup RangeBytes(l)]
  /\ active_leases' = active_leases \ {l}
  /\ active_lease_count' = active_lease_count - 1
  /\ available_range_count' = available_range_count + 1
  /\ available_pieces' = available_pieces \cup {l.piece}
  /\ next_candidate' = MinOf(next_candidate, l.piece)
  /\ UNCHANGED <<completed, pieces, has_completed_ranges, next_lease_id, acked>>

ReclaimLease(l) ==
  /\ missing_ranges' = [missing_ranges EXCEPT ![l.piece] = @ \cup RangeBytes(l)]
  /\ active_leases' = active_leases \ {l}
  /\ active_lease_count' = active_lease_count - 1
  /\ available_range_count' = available_range_count
       - RangeCount({l.piece}, missing_ranges) + RangeCount({l.piece}, missing_ranges')
  /\ available_pieces' = available_pieces \cup {l.piece}
  /\ next_candidate' = MinOf(next_candidate, l.piece)
  /\ UNCHANGED <<completed, pieces, has_completed_ranges, next_lease_id, acked>>

reclaim(l) == ReclaimLease(l) /\ UNCHANGED stopped

stop_and_reclaim(l) == ReclaimLease(l) /\ stopped' = TRUE

-----------------------------------------------------------------------------
Next ==
  \/ AssignForProbe
  \/ \E occupied \in 0 .. MaxConnections - 1 :
       \/ assign_fixed_request(occupied)
       \/ assign_dynamic_request(occupied)
  \/ \E r \in Ranges : assign_recovery_batch(r) \/ RecoveryBatchRollback(r)
  \/ \E l \in active_leases :
       \/ \E confirmed_end \in Bytes : retain_prefix(l, confirmed_end)
       \/ renew(l)
       \/ complete(l)
       \/ reclaim(l)
       \/ stop_and_reclaim(l)

Spec == Init /\ [][Next]_vars

-----------------------------------------------------------------------------
LeasesOf(p) == {l \in active_leases : l.piece = p}
LeasedBytes(p) == UNION {RangeBytes(l) : l \in LeasesOf(p)}

(* Every variable has its type.                                             *)
TypeOK ==
  /\ completed \subseteq Pieces
  /\ pieces \subseteq Pieces
  /\ missing_ranges \in [Pieces -> SUBSET Bytes]
  /\ active_leases \subseteq Lease
  /\ has_completed_ranges \subseteq Pieces
  /\ available_pieces \subseteq Pieces
  /\ active_lease_count \in Int
  /\ available_range_count \in Int
  /\ next_candidate \in Pieces
  /\ next_lease_id \in Nat
  /\ stopped \in BOOLEAN
  /\ acked \in [Pieces -> SUBSET Bytes]

(* "Every byte has been acknowledged exactly once" (scheduler.rs, complete):*)
(* each byte of a piece is missing, or under exactly one lease, or          *)
(* acknowledged by the writer, and never two of these.                      *)
BytePartition ==
  \A p \in Pieces :
    /\ PieceBytes(p) = missing_ranges[p] \cup LeasedBytes(p) \cup acked[p]
    /\ missing_ranges[p] \cap LeasedBytes(p) = {}
    /\ missing_ranges[p] \cap acked[p] = {}
    /\ LeasedBytes(p) \cap acked[p] = {}
    /\ \A l, m \in LeasesOf(p) : l # m => RangeBytes(l) \cap RangeBytes(m) = {}

(* A completion bit, which the control file publishes, is set exactly when  *)
(* the writer has acknowledged every byte of the piece.                     *)
CompleteIffAcked ==
  \A p \in Pieces : p \in completed <=> acked[p] = PieceBytes(p)

(* The ledger of the download: well-formed state, every byte in one place,  *)
(* and completion bits that say what the writer acknowledged.               *)
LedgerIsSound == TypeOK /\ BytePartition /\ CompleteIffAcked

(* The incrementally maintained counters and the availability bit set agree *)
(* with the ranges they summarise: assignment decisions, the split rule and *)
(* has_available read only the summaries.                                   *)
SummariesAgree ==
  /\ active_lease_count = Cardinality(active_leases)
  /\ available_range_count = RangeCount(Pieces, missing_ranges)
  /\ available_pieces = {p \in Pieces : missing_ranges[p] # {}}

(* Lease ids identify one live lease, and every live id was handed out.     *)
LeaseIdsUnique ==
  /\ \A l, m \in active_leases : l.id = m.id => l = m
  /\ \A l \in active_leases : l.id < next_lease_id

(* control_hints lists as dirty every piece with leased bytes or            *)
(* acknowledged bytes that no completion bit covers.                        *)
dirty_piece_ids == {p \in pieces : LeasesOf(p) # {} \/ p \in has_completed_ranges}
DirtyHintsCoverPartialPieces ==
  dirty_piece_ids =
    {p \in Pieces \ completed : LeasedBytes(p) # {} \/ acked[p] # {}}

(* While ranges are missing and the scheduler has not been stopped, a       *)
(* worker with a free slot always gets a request, in either mode: no early  *)
(* return of the assignment path is taken.                                  *)
WorkIsAssignable ==
  (~stopped /\ (\E p \in Pieces : missing_ranges[p] # {}) /\ next_lease_id <= MaxLeaseId)
    => \A occupied \in 0 .. MaxConnections - 1 :
         /\ "Fixed" \in Modes => ENABLED assign_fixed_request(occupied)
         /\ "Dynamic" \in Modes => ENABLED assign_dynamic_request(occupied)

(* What assignment and checkpoints read instead of the ranges is right: the *)
(* summaries, the lease ids and the dirty hints.                            *)
BookkeepingAgrees == SummariesAgree /\ LeaseIdsUnique /\ DirtyHintsCoverPartialPieces

(* A completion bit is never withdrawn and an acknowledged byte is never    *)
(* handed out again.                                                        *)
ProgressIsKept ==
  [][/\ completed \subseteq completed'
     /\ \A p \in Pieces : acked[p] \subseteq acked'[p] \ LeasedBytes(p)']_vars

NewLeases == {l \in active_leases' : l.id >= next_lease_id}

(* assign_request with a batch (extend_batch_with_occupied) leaves a range  *)
(* for each request slot that is still free, so that no other worker idles  *)
(* because of it.                                                           *)
BatchLeavesPeersWork ==
  [][\A occupied \in 0 .. MaxConnections - 1 :
       (assign_fixed_request(occupied) /\ Cardinality(NewLeases) > 1)
         => available_range_count' >= MaxConnections - (occupied + 1)]_vars

(* The scheduler implements the abstract lease table: whatever summaries,   *)
(* candidates, splits and batches it uses, each call exchanges leases       *)
(* without duplicating or losing a byte.                                    *)
Table == INSTANCE LeaseTable WITH
  missing <- UNION {missing_ranges[p] : p \in Pieces},
  leases <- {[id |-> l.id, start |-> l.start, end |-> l.end] : l \in active_leases},
  acked <- UNION {acked[p] : p \in Pieces},
  next_lease <- next_lease_id,
  stopped <- stopped

(* Every method of SchedulerState is a step of the lease table, or none.    *)
ImplementsLeaseTable == Table!TableSpec
=============================================================================

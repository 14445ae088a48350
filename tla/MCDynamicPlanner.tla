-------------------------- MODULE MCDynamicPlanner --------------------------
(***************************************************************************)
(* Drives the dynamic planner over every set of untouched pieces, every    *)
(* number of free slots and several split and request limits.  A step      *)
(* plans one request: its pieces become touched and its slot is occupied.  *)
(***************************************************************************)
EXTENDS DynamicPlanner, FiniteSetsExt

CONSTANTS
  MaxSlots,       \* bound on free request slots
  MinSplits,      \* dynamic_min_split_size values tried
  MaxRequests     \* dynamic_max_request_size values tried

VARIABLES
  untouched,      \* available pieces without runtime state
  free_slots,     \* max_requests - occupied_requests
  min_split,      \* configured dynamic_min_split_size
  max_request     \* configured dynamic_max_request_size

vars == <<untouched, free_slots, min_split, max_request>>

Split == effective_dynamic_min_split_size(min_split)
Candidates == dynamic_candidates(untouched)
Plan == plan_dynamic_share(Candidates, free_slots, Split)
Request == PlannedRequest(untouched, free_slots, min_split, max_request)
Planned == Request.first_piece .. Request.end_piece - 1
CanPlan == untouched # {} /\ free_slots > 0

Init ==
  /\ untouched \in SUBSET Pieces
  /\ free_slots \in 0 .. MaxSlots
  /\ min_split \in MinSplits
  /\ max_request \in MaxRequests

PlanRequest ==
  /\ CanPlan
  /\ untouched' = untouched \ Planned
  /\ free_slots' = free_slots - 1
  /\ UNCHANGED <<min_split, max_request>>

Next == PlanRequest

Spec == Init /\ [][Next]_vars

-----------------------------------------------------------------------------
(* The pieces left of the served candidate behind the request.              *)
Rest == Max(Planned) + 1 .. Plan.candidate.end_piece - 1
LenOf(ps) == CandidateLen([first_piece |-> Min(ps), end_piece |-> Max(ps) + 1])

Shares == slot_counts(Candidates, free_slots, Split)

(* What a better allocation would look like: as many slots in total, no     *)
(* candidate above its split limit, and every share below the served one.   *)
Beats(slots) ==
  /\ MapThenSumSet(LAMBDA c : slots[c], Candidates)
       <= MapThenSumSet(LAMBDA c : Shares[c], Candidates)
  /\ \A c \in Candidates :
       /\ slots[c] <= max_dynamic_slots(c, Split)
       /\ CandidateLen(c) * Plan.candidate_slots < CandidateLen(Plan.candidate) * slots[c]

(* plan_dynamic_share's greedy loop is optimal: the request served next     *)
(* comes from the largest share, and no other way of spreading the same     *)
(* number of slots makes the largest share smaller.                         *)
GreedySharesOptimal ==
  CanPlan =>
    /\ \A c \in Candidates :
         CandidateLen(c) * Plan.candidate_slots <= CandidateLen(Plan.candidate) * Shares[c]
    /\ ~ \E slots \in [Candidates -> 1 .. MaxSlots] : Beats(slots)

(* dynamic_request_end never leaves less than the minimum split behind a    *)
(* request when the run can be split legally, and the request itself is     *)
(* only shorter than the minimum when the byte or the lease cap forces it.  *)
SplitsStayLegal ==
  (CanPlan /\ Rest # {} /\ dynamic_legal_split(Plan.candidate, Split)) =>
    /\ LenOf(Rest) >= Split
    /\ \/ LenOf(Planned) >= Split
       \/ LenOf(Planned) + PieceSize > MaxOf(max_request, PieceSize)
       \/ Cardinality(Planned) = MAX_REQUEST_LEASES

=============================================================================

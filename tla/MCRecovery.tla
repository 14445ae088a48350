----------------------------- MODULE MCRecovery -----------------------------
(***************************************************************************)
(* How slow requests are found and their ranges given to others, for TLC:  *)
(* the observation windows, the recovery of requests, and the scheduler in *)
(* both modes with its planner.  A behaviour is about one of them; the     *)
(* others keep their initial state.                                        *)
(***************************************************************************)
EXTENDS RecoveryWindow, TLC

CONSTANTS
  Worker

MCWindow == [k \in Detector |-> IF k = "slow" THEN 2 ELSE 1]
MCGrace == [k \in Detector |-> 2]
MCDuration == [k \in Detector |-> 1]

(* Too little to compare with; a fast live request; slow ones behind a fast *)
(* past; the same with a single slow address.                               *)
MCPeers ==
  {[history |-> <<>>, live |-> <<8>>, isolated |-> FALSE],
   [history |-> <<8>>, live |-> <<0, 8>>, isolated |-> FALSE],
   [history |-> <<8, 8>>, live |-> <<2, 2>>, isolated |-> FALSE],
   [history |-> <<8, 8>>, live |-> <<2, 2>>, isolated |-> TRUE]}

VARIABLES
  part,   \* the component this behaviour is about
  validator, missing, done, pc, segment, queued, request_end, forwarded,
  read_ahead, lineage, permit, challenger, reservation, notified, deadline,
  pending, recovered, recoveries, reserved, consumed_extra, hedge, cooling,
  blocked, stopping, faults, actions, completed, pieces, missing_ranges,
  active_leases, has_completed_ranges, available_pieces, active_lease_count,
  available_range_count, next_candidate, next_lease_id, stopped, acked,
  untouched, free_slots, min_split, max_request

Recovering == INSTANCE Recovery WITH
  Slots <- 2, TotalSize <- 4, PieceSize <- 2, RequestCap <- 4,
  MinSegment <- 1, ExtraLimit <- 3, MAX_REQUEST_LEASES <- 2, MaxFrame <- 2,
  MaxFaults <- 1

Scheduling == INSTANCE Scheduler WITH
  TotalSize <- 5, PieceSize <- 2, MAX_REQUEST_LEASES <- 3,
  MaxConnections <- 2, Modes <- {"Fixed", "Dynamic"}, MinSegmentSize <- 1,
  RequestBatchSize <- 5, DynamicMinSplit <- 0, DynamicMaxRequest <- 4,
  MaxLeaseId <- 3

Planner == INSTANCE MCDynamicPlanner WITH
  TotalSize <- 16, PieceSize <- 3, MAX_REQUEST_LEASES <- 3, MaxSlots <- 4,
  MinSplits <- {0, 4, 6, 7}, MaxRequests <- {1, 7, 16}

recoveryVars == <<
  validator, missing, done, pc, segment, queued, request_end, forwarded,
  read_ahead, lineage, permit, challenger, reservation, notified, deadline,
  pending, recovered, recoveries, reserved, consumed_extra, hedge, cooling,
  blocked, stopping, faults, actions>>
schedulerVars == <<
  completed, pieces, missing_ranges, active_leases, has_completed_ranges,
  available_pieces, active_lease_count, available_range_count, next_candidate,
  next_lease_id, stopped, acked>>
plannerVars == <<
  untouched, free_slots, min_split, max_request>>

ASSUME ConstantsAreLegal == Recovering!RecoveryAssumption

BenchInit ==
  /\ part \in {"window", "recovery", "scheduler", "planner"}
  /\ Init /\ Recovering!Init /\ Scheduling!Init /\ Planner!Init
  /\ part # "recovery" => validator
  /\ part # "scheduler" => completed = {}
  /\ part # "planner" => untouched = {} /\ free_slots = 0 /\ min_split = 0 /\ max_request = 1

(* Only the component that was chosen moves.                                *)
BenchNext ==
  /\ UNCHANGED part
  /\ \/ part = "window" /\ Next /\ UNCHANGED <<recoveryVars, schedulerVars, plannerVars>>
     \/ part = "recovery" /\ Recovering!Next /\ UNCHANGED <<vars, schedulerVars, plannerVars>>
     \/ part = "scheduler" /\ Scheduling!Next /\ UNCHANGED <<vars, recoveryVars, plannerVars>>
     \/ part = "planner" /\ Planner!Next /\ UNCHANGED <<vars, recoveryVars, schedulerVars>>

BenchVars == <<part, vars, recoveryVars, schedulerVars, plannerVars>>

BenchSpec == BenchInit /\ [][BenchNext]_BenchVars

BenchSymmetry == Permutations(Worker)

-----------------------------------------------------------------------------
(* Recovery: extra traffic keeps to its budget and its actions to their     *)
(* caps, a pending range is held by nobody, and no worker sleeps with       *)
(* nobody left to wake it.                                                  *)
RecoveryIsSound == part = "recovery" => Recovering!RecoveryIsSound

(* Scheduler: while ranges are missing, a worker with a free slot always    *)
(* gets a request, in either mode.                                          *)
WorkIsAssignable == part = "scheduler" => Scheduling!WorkIsAssignable

(* plan_dynamic_share: the next request comes from the largest share, and   *)
(* no other way of spreading the slots makes that share smaller.            *)
GreedySharesOptimal == part = "planner" => Planner!GreedySharesOptimal

(* dynamic_request_end: the rest is never shorter than the minimum split    *)
(* where the run can be split, and the request only when a cap forces it.   *)
SplitsStayLegal == part = "planner" => Planner!SplitsStayLegal
=============================================================================

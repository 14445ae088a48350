------------------------- MODULE MCSingleDownloads --------------------------
(***************************************************************************)
(* Downloads over one connection for TLC, with the retry loop and the      *)
(* check of range responses on their own.  A behaviour is about one of     *)
(* them; the others keep their initial state.                              *)
(***************************************************************************)
EXTENDS MCDownloadLifecycle

VARIABLES
  part,   \* the component this behaviour is about
  now, retry_pc, retry_retries_started, attempts, wake, retry_signal, seen,
  sender, listening, served, retry_result, mode, expected, status, meta

Retrying == INSTANCE RetryLoop WITH
  max_retries <- 2, base_delay <- 1, max_delay <- 3, max_retry_elapsed <- 6,
  Failures <- {"Timeout", "Http503", "OtherStatus"}, Hints <- {None, 1, 5},
  MaxTime <- 7, pc <- retry_pc, retries_started <- retry_retries_started,
  signal <- retry_signal, result <- retry_result

Ranges == INSTANCE MCRangeValidate WITH
  MaxSize <- 3

retryVars == <<
  now, retry_pc, retry_retries_started, attempts, wake, retry_signal, seen,
  sender, listening, served, retry_result>>
rangeVars == <<
  mode, expected, status, meta>>

BenchInit ==
  /\ part \in {"lifecycle", "retry", "range"}
  /\ Init /\ Retrying!Init /\ Ranges!Init
  /\ part # "lifecycle" => object = 1

(* Only the component that was chosen moves.                                *)
BenchNext ==
  /\ UNCHANGED part
  /\ \/ part = "lifecycle" /\ Next /\ UNCHANGED <<retryVars, rangeVars>>
     \/ part = "retry" /\ Retrying!Next /\ UNCHANGED <<vars, rangeVars>>
     \/ part = "range" /\ Ranges!Next /\ UNCHANGED <<vars, retryVars>>

BenchVars == <<part, vars, retryVars, rangeVars>>

(* The fairness of each component's own module, for the one that moves.   *)
BenchFairness ==
  /\ WF_vars(part = "lifecycle" /\ Task)
  /\ WF_vars(part = "lifecycle" /\ Single(WriterWrite))
  /\ SF_vars(part = "lifecycle" /\ Single(Arms))

BenchSpec == BenchInit /\ [][BenchNext]_BenchVars /\ BenchFairness

-----------------------------------------------------------------------------
(* RetryLoop: at most max_retries further attempts, no sleep that ends      *)
(* beyond max_retry_elapsed, and none shorter than the policy or the server *)
(* asks for.                                                                *)
RetriesWithinPolicy == part = "retry" => Retrying!RetriesWithinPolicy

(* RangeValidate: a range response is accepted exactly if a conforming      *)
(* server sends it.                                                         *)
AcceptsExactlyHonest == part = "range" => Ranges!AcceptsExactlyHonest
=============================================================================

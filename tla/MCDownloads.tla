---------------------------- MODULE MCDownloads -----------------------------
(***************************************************************************)
(* Multi-connection downloads for TLC: one session of two workers, and two *)
(* sessions of one worker with a crash.  A behaviour is about one of them; *)
(* the others keep their initial state.                                    *)
(***************************************************************************)
EXTENDS MultiSession, TLC

CONSTANTS
  Solo

VARIABLES
  part,   \* the component this behaviour is about
  crash_chan, crash_active_leases, crash_expected, crash_cache, crash_single,
  crash_permits, crash_file, crash_synced, crash_written_bytes, crash_acks,
  crash_flush_all_ack, crash_writer, crash_missing, crash_leases, crash_acked,
  crash_next_lease, crash_stopped, crash_wpc, crash_wlease, crash_wqueue,
  crash_wfwd, crash_wwhy, crash_received, crash_mpc, crash_snap,
  crash_aborting, crash_error, crash_signal, crash_result, crash_control,
  crash_control_past, crash_faults, crash_sessions, crash_crashes,
  crash_bits_at_stop, crash_unsaved

Crashing == INSTANCE MultiSession WITH
  Worker <- Solo, MaxSessions <- 2, MaxCrashes <- 1, MaxFaults <- 0,
  chan <- crash_chan, active_leases <- crash_active_leases,
  expected <- crash_expected, cache <- crash_cache, single <- crash_single,
  permits <- crash_permits, file <- crash_file, synced <- crash_synced,
  written_bytes <- crash_written_bytes, acks <- crash_acks,
  flush_all_ack <- crash_flush_all_ack, writer <- crash_writer,
  missing <- crash_missing, leases <- crash_leases, acked <- crash_acked,
  next_lease <- crash_next_lease, stopped <- crash_stopped, wpc <- crash_wpc,
  wlease <- crash_wlease, wqueue <- crash_wqueue, wfwd <- crash_wfwd,
  wwhy <- crash_wwhy, received <- crash_received, mpc <- crash_mpc,
  snap <- crash_snap, aborting <- crash_aborting, error <- crash_error,
  signal <- crash_signal, result <- crash_result, control <- crash_control,
  control_past <- crash_control_past, faults <- crash_faults,
  sessions <- crash_sessions, crashes <- crash_crashes,
  bits_at_stop <- crash_bits_at_stop, unsaved <- crash_unsaved

crashVars == <<
  crash_chan, crash_active_leases, crash_expected, crash_cache, crash_single,
  crash_permits, crash_file, crash_synced, crash_written_bytes, crash_acks,
  crash_flush_all_ack, crash_writer, crash_missing, crash_leases, crash_acked,
  crash_next_lease, crash_stopped, crash_wpc, crash_wlease, crash_wqueue,
  crash_wfwd, crash_wwhy, crash_received, crash_mpc, crash_snap,
  crash_aborting, crash_error, crash_signal, crash_result, crash_control,
  crash_control_past, crash_faults, crash_sessions, crash_crashes,
  crash_bits_at_stop, crash_unsaved>>

BenchInit ==
  /\ part \in {"workers", "crash"}
  /\ Init /\ Crashing!Init

(* Only the component that was chosen moves.                                *)
BenchNext ==
  /\ UNCHANGED part
  /\ \/ part = "workers" /\ Next /\ UNCHANGED <<crashVars>>
     \/ part = "crash" /\ Crashing!Next /\ UNCHANGED <<vars>>

BenchVars == <<part, vars, crashVars>>

BenchSpec == BenchInit /\ [][BenchNext]_BenchVars

BenchSymmetry == Permutations(Worker)

-----------------------------------------------------------------------------
(* MultiSession: at every moment a crash leaves a checkpoint whose pieces   *)
(* are on disk.                                                             *)
CrashCheckpointIsSafe == part = "crash" => Crashing!CheckpointIsSafe

=============================================================================

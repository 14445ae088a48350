----------------------------- MODULE MCSessions -----------------------------
(***************************************************************************)
(* A multi-connection session and the writer's pipeline, each of which has *)
(* to come to an end, for TLC.  A behaviour is about one of them; the      *)
(* others keep their initial state.                                        *)
(***************************************************************************)
EXTENDS Naturals

CONSTANTS
  NoLease, ChannelBuffer, Worker, NoControl

VARIABLES
  part,   \* the component this behaviour is about
  session_chan, session_active_leases, session_expected, session_cache,
  session_single, session_permits, session_file, session_synced,
  session_written_bytes, session_acks, session_flush_all_ack, session_writer,
  missing, leases, acked, next_lease, stopped, wpc, wlease, wqueue, wfwd,
  wwhy, received, mpc, snap, aborting, error, signal, result, control,
  control_past, faults, sessions, crashes, bits_at_stop, unsaved,
  pipeline_chan, pipeline_active_leases, pipeline_expected, pipeline_cache,
  pipeline_single, pipeline_permits, pipeline_file, pipeline_synced,
  pipeline_written_bytes, pipeline_acks, pipeline_flush_all_ack,
  pipeline_writer, pc, attempt, from, forwarded, held, waiters

Session == INSTANCE MultiSession WITH
  TotalSize <- 2, PieceSize <- 1, LeaseKey <- 1 .. 3, MemoryBudget <- 4,
  SingleBatch <- 2, Validator <- TRUE, MaxFaults <- 0, MaxSessions <- 1,
  MaxCrashes <- 0, chan <- session_chan,
  active_leases <- session_active_leases, expected <- session_expected,
  cache <- session_cache, single <- session_single,
  permits <- session_permits, file <- session_file, synced <- session_synced,
  written_bytes <- session_written_bytes, acks <- session_acks,
  flush_all_ack <- session_flush_all_ack, writer <- session_writer

Pipeline == INSTANCE WriterPipeline WITH
  TotalSize <- 6, PieceSize <- 5, MaxAttempts <- 2,
  LeaseKey <- {0, 1} \X (1 .. 2), MemoryBudget <- 4, SingleBatch <- 4,
  chan <- pipeline_chan, active_leases <- pipeline_active_leases,
  expected <- pipeline_expected, cache <- pipeline_cache,
  single <- pipeline_single, permits <- pipeline_permits,
  file <- pipeline_file, synced <- pipeline_synced,
  written_bytes <- pipeline_written_bytes, acks <- pipeline_acks,
  flush_all_ack <- pipeline_flush_all_ack, writer <- pipeline_writer

sessionVars == <<
  session_chan, session_active_leases, session_expected, session_cache,
  session_single, session_permits, session_file, session_synced,
  session_written_bytes, session_acks, session_flush_all_ack, session_writer,
  missing, leases, acked, next_lease, stopped, wpc, wlease, wqueue, wfwd,
  wwhy, received, mpc, snap, aborting, error, signal, result, control,
  control_past, faults, sessions, crashes, bits_at_stop, unsaved>>
pipelineVars == <<
  pipeline_chan, pipeline_active_leases, pipeline_expected, pipeline_cache,
  pipeline_single, pipeline_permits, pipeline_file, pipeline_synced,
  pipeline_written_bytes, pipeline_acks, pipeline_flush_all_ack,
  pipeline_writer, pc, attempt, from, forwarded, held, waiters>>

ASSUME ConstantsAreLegal == Session!SessionAssumption /\ Session!WriterAssumption /\ Pipeline!KeyAssumption

BenchInit ==
  /\ part \in {"session", "pipeline"}
  /\ Session!Init /\ Pipeline!Init

(* Only the component that was chosen moves.                                *)
BenchNext ==
  /\ UNCHANGED part
  /\ \/ part = "session" /\ Session!Next /\ UNCHANGED <<pipelineVars>>
     \/ part = "pipeline" /\ Pipeline!Next /\ UNCHANGED <<sessionVars>>

BenchVars == <<part, sessionVars, pipelineVars>>

(* The fairness of each component's own module, for the one that moves.   *)
BenchFairness ==
  /\ \A w \in Worker : SF_sessionVars(part = "session" /\ Session!WorkerStep(w))
  /\ WF_sessionVars(part = "session" /\ Session!WriterStep)
  /\ WF_sessionVars(part = "session" /\ Session!MonitorStep)
  /\ SF_sessionVars(part = "session" /\ (Session!StopBranch \/ Session!WorkerResult))
  /\ WF_pipelineVars(part = "pipeline" /\ Pipeline!WriterStep)
  /\ \A p \in Pipeline!Producer : WF_pipelineVars(part = "pipeline" /\ Pipeline!ProducerStep(p))

BenchSpec == BenchInit /\ [][BenchNext]_BenchVars /\ BenchFairness

-----------------------------------------------------------------------------
(* MultiSession: every session ends; no worker, monitor or writer waits for *)
(* another for ever.                                                        *)
SessionEnds == part = "session" => Session!SessionEnds

(* WriterPipeline: memory stays within the budget, data reaches the writer  *)
(* in order, and what is confirmed is in the file.                          *)
PipelineIsSound == part = "pipeline" => Pipeline!PipelineIsSound

(* WriterPipeline: no producer waits for ever on the budget, on the channel *)
(* or on an acknowledgement, and the writer ends.                           *)
PipelineDrains == part = "pipeline" => Pipeline!PipelineDrains
=============================================================================

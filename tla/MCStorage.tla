----------------------------- MODULE MCStorage ------------------------------
(***************************************************************************)
(* What a download leaves on disk, for TLC: the runs of a multi-connection *)
(* download, the checkpoint file, and the writer under a client that sends *)
(* any command.  A behaviour is about one of them; the others keep their   *)
(* initial state.                                                          *)
(***************************************************************************)
EXTENDS MCDownloadLifecycle

CONSTANTS
  LeaseKey, NoLease, ChannelBuffer

VARIABLES
  part,   \* the component this behaviour is about
  map, tmp, control_control, control_synced, past, snapshot, control_pc,
  saved, kept, loaded, saves, crashes, chan, active_leases, expected, cache,
  single, permits, buffers_file, buffers_synced, buffers_written_bytes, acks,
  flush_all_ack, buffers_writer, buffers_sent

Checkpoints == INSTANCE ControlFile WITH
  TotalSize <- 7, PieceSize <- 2, ByteWidth <- 3, MaxSaves <- 2,
  MaxCrashes <- 2, control <- control_control, synced <- control_synced,
  pc <- control_pc

Writing == INSTANCE MCWriter WITH
  TotalSize <- 4, PieceSize <- 2, MemoryBudget <- 5, SingleBatch <- 4,
  MaxCommands <- 5, file <- buffers_file, synced <- buffers_synced,
  written_bytes <- buffers_written_bytes, writer <- buffers_writer,
  sent <- buffers_sent

controlVars == <<
  map, tmp, control_control, control_synced, past, snapshot, control_pc,
  saved, kept, loaded, saves, crashes>>
buffersVars == <<
  chan, active_leases, expected, cache, single, permits, buffers_file,
  buffers_synced, buffers_written_bytes, acks, flush_all_ack, buffers_writer,
  buffers_sent>>

ASSUME ConstantsAreLegal == Checkpoints!ByteHasBits

BenchInit ==
  /\ part \in {"lifecycle", "control", "buffers"}
  /\ Init /\ Checkpoints!Init /\ Writing!Init
  /\ part # "lifecycle" => object = 1

(* Only the component that was chosen moves.                                *)
BenchNext ==
  /\ UNCHANGED part
  /\ \/ part = "lifecycle" /\ Next /\ UNCHANGED <<controlVars, buffersVars>>
     \/ part = "control" /\ Checkpoints!Next /\ UNCHANGED <<vars, buffersVars>>
     \/ part = "buffers" /\ Writing!Next /\ UNCHANGED <<vars, controlVars>>

BenchVars == <<part, vars, controlVars, buffersVars>>

BenchSpec == BenchInit /\ [][BenchNext]_BenchVars

-----------------------------------------------------------------------------
(* ControlFile: what load returns is one whole save, a save that returned   *)
(* Ok is there to be loaded, and the restored counters are those of the     *)
(* bits.                                                                    *)
CheckpointFileIsSound == part = "control" => Checkpoints!CheckpointFileIsSound

(* Writer: each permit backs buffered bytes of an active lease, and there   *)
(* is room for one more chunk.                                              *)
BuffersAreAccounted == part = "buffers" => Writing!BuffersAreAccounted
=============================================================================

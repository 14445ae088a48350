------------------------------ MODULE MCWriter -------------------------------
(***************************************************************************)
(* The writer under a client that sends any command at any time: the       *)
(* handlers have to keep their buffers and permits consistent by           *)
(* themselves, also for commands no session sends in this order.           *)
(***************************************************************************)
EXTENDS Writer

CONSTANT
  MaxCommands       \* bound: commands sent

VARIABLE sent

vars == <<writerVars, sent>>

Init == WriterInit /\ sent = 0

AnyCommand ==
  \E cmd \in Command :
    /\ sent < MaxCommands
    /\ cmd.op = "Data" => /\ cmd.offset + cmd.len <= TotalSize
                          /\ cmd.len <= max_chunk
                          /\ HeldPermits + cmd.len <= MemoryBudget
    /\ Send(cmd)
    /\ sent' = sent + 1
    /\ UNCHANGED <<active_leases, expected, cache, single, permits, file, synced,
                   written_bytes, acks, flush_all_ack, writer>>

Next ==
  \/ AnyCommand
  \/ /\ WriterNext \/ FinishWriting \/ FinishError
     /\ UNCHANGED sent

Spec == Init /\ [][Next]_vars

-----------------------------------------------------------------------------
(* The writer's buffers: each permit backs buffered bytes of an active lease*)
(* (or of the single stream), and there is always room for one more chunk.  *)
BuffersAreAccounted == RoomForOneChunk /\ PermitsMatchBuffers /\ BuffersBelongToActiveLeases
=============================================================================

---------------------------- MODULE MultiSession -----------------------------
(***************************************************************************)
(* One multi-connection download and its restarts: the workers             *)
(* (session/multi/worker.rs), the monitor loop and its checkpoints         *)
(* (session/multi.rs), the writer task, the range scheduler (as the lease  *)
(* table it implements), the output file and the control file.             *)
(*                                                                         *)
(* Bodies arrive byte by byte.  An attempt may end at every byte: it fails *)
(* and is retried or not, slow-transfer recovery cancels it, or a hedge    *)
(* has won.  The user may ask to stop (pause and cancel take the same      *)
(* path here), the disk may fail, and the machine may crash, at every step.*)
(***************************************************************************)
EXTENDS LeaseTable, Writer

CONSTANTS
  Worker,           \* one per connection
  NoControl,        \* there is no control file
  Validator,        \* the server sent a strong ETag: prefixes can be retained
  MaxFaults,        \* bound: interrupted attempts of one session
  MaxSessions,      \* bound: runs of the download
  MaxCrashes        \* bound: crashes

ASSUME SessionAssumption ==
  /\ Validator \in BOOLEAN
  /\ IsFiniteSet(LeaseKey) /\ LeaseKey = 1 .. Cardinality(LeaseKey)
  /\ IsFiniteSet(Worker) /\ Worker # {}
  /\ \A bits \in SUBSET Pieces : bits # NoControl

VARIABLES
  wpc,              \* where each worker is
  wlease,           \* its current segment
  wqueue,           \* the segments queued behind it in the same request
  wfwd,             \* bytes of the segment forwarded to the writer
  wwhy,             \* why its attempt ended early; "staged" while a hedge is copied
  received,         \* the progress counter
  mpc,              \* where the monitor is
  snap,             \* completion bits frozen for the save in progress
  aborting,         \* abort was called on every worker
  error,            \* download_error
  signal,           \* the stop signal of the handle
  result,           \* what run_multi_worker returned
  control,          \* completion bits in the control file, or NoControl
  control_past,     \* what a crash that loses unsynced renames may bring back
  faults, sessions, crashes,    \* counters for the bounds
  bits_at_stop,     \* history: bits set when the user asked to stop
  unsaved           \* history: the only save after a stop request failed

workerVars == <<wpc, wlease, wqueue, wfwd, wwhy>>
monitorVars == <<mpc, snap, aborting, error, result, unsaved>>
diskVars == <<control, control_past>>
stopVars == <<signal, bits_at_stop>>
boundVars == <<faults, sessions, crashes>>
vars == <<tableVars, writerVars, workerVars, received, monitorVars, stopVars, diskVars,
          boundVars>>

Length(l) == l.end - l.start
Ended == {"ok", "stopped", "failed", "aborted"}
WorkersEnded == \A w \in Worker : wpc[w] \in Ended
NoSegment == [id |-> 0, start |-> 0, end |-> 0]
PiecesBytes(ps) == UNION {PieceBytes(p) : p \in ps}
Bits(c) == IF c = NoControl THEN {} ELSE c
WriterFailed == writer \in {"io_error", "rejected"}

Init ==
  /\ TableInit({})
  /\ WriterInit
  /\ wpc = [w \in Worker |-> "loop"]
  /\ wlease = [w \in Worker |-> NoSegment]
  /\ wqueue = [w \in Worker |-> <<>>]
  /\ wfwd = [w \in Worker |-> 0]
  /\ wwhy = [w \in Worker |-> "none"]
  /\ received = 0
  /\ mpc = "loop"
  /\ snap = {}
  /\ aborting = FALSE
  /\ error = "none"
  /\ signal = "Running"
  /\ result = "none"
  /\ control = NoControl
  /\ control_past = {}
  /\ faults = 0
  /\ sessions = 1
  /\ crashes = 0
  /\ bits_at_stop = {}
  /\ unsaved = FALSE

-----------------------------------------------------------------------------
(* The steps of a worker.  A task that ends drops its locals; the bytes it  *)
(* forwarded and did not settle stay in the progress counter.               *)
Goto(w, where) == wpc' = [wpc EXCEPT ![w] = where]
EndWorker(w, how) ==
  /\ Goto(w, how)
  /\ wlease' = [wlease EXCEPT ![w] = NoSegment]
  /\ wqueue' = [wqueue EXCEPT ![w] = <<>>]
  /\ wwhy' = [wwhy EXCEPT ![w] = "none"]
Segments(w) == {wlease[w]} \cup {wqueue[w][i] : i \in DOMAIN wqueue[w]}
bufferVars == <<active_leases, expected, cache, single, permits, file, synced,
                written_bytes, flush_all_ack, writer>>
sessionVars == <<monitorVars, stopVars, diskVars, sessions, crashes>>

(* The ranges a request can get: part of a missing run of one piece, or     *)
(* several whole pieces in a row.                                           *)
Grants ==
  {r \in [start : Bytes, end : 1 .. TotalSize] :
     /\ r.start < r.end
     /\ RangeBytes(r) \subseteq missing
     /\ \/ \E p \in Pieces : RangeBytes(r) \subseteq PieceBytes(p)
        \/ r.start % PieceSize = 0 /\ (r.end = TotalSize \/ r.end % PieceSize = 0)}

(* The segments a request for r is cut into, one for each piece it touches. *)
Cut(r) ==
  LET first == r.start \div PieceSize
  IN [k \in 1 .. (r.end - 1) \div PieceSize - first + 1 |->
        [id |-> next_lease + k - 1,
         start |-> MaxOf(r.start, PieceStart(first + k - 1)),
         end |-> MinOf(r.end, PieceEnd(first + k - 1))]]

Assign(w) ==
  /\ wpc[w] = "loop"
  /\ ~stopped
  /\ \E r \in Grants :
       /\ next_lease + Len(Cut(r)) - 1 \in LeaseKey
       /\ next_lease' = next_lease + Len(Cut(r))
       /\ stopped' = stopped
       /\ Exchange({}, {Cut(r)[k] : k \in DOMAIN Cut(r)}, {})
       /\ wlease' = [wlease EXCEPT ![w] = Cut(r)[1]]
       /\ wqueue' = [wqueue EXCEPT ![w] = Tail(Cut(r))]
  /\ Goto(w, "begin")
  /\ UNCHANGED <<sessionVars, writerVars, wfwd, wwhy, received, faults>>

(* The top of the loop: everything is done, or a stop request is seen.      *)
LeaveLoop(w) ==
  /\ wpc[w] = "loop"
  /\ \/ acked = Bytes /\ EndWorker(w, "ok")
     \/ signal # "Running" /\ EndWorker(w, "stopped")
  /\ UNCHANGED <<sessionVars, tableVars, writerVars, wfwd, received, faults>>

begin_lease_and_wait(w) ==
  /\ wpc[w] = "begin"
  /\ Send(BeginLease(wlease[w].id))
  /\ Goto(w, "reading")
  /\ UNCHANGED <<sessionVars, tableVars, bufferVars, acks, wlease, wqueue, wfwd, wwhy,
                 received, faults>>

(* One byte of the body, or of the winning hedge's copy, is sent on.        *)
Forward(w) ==
  /\ wpc[w] = "reading"
  /\ wfwd[w] < Length(wlease[w])
  /\ HeldPermits < MemoryBudget
  /\ Send(Data(wlease[w].id, wlease[w].start + wfwd[w], 1))
  /\ wfwd' = [wfwd EXCEPT ![w] = @ + 1]
  /\ received' = received + 1
  /\ UNCHANGED <<sessionVars, tableVars, bufferVars, acks, wpc, wlease, wqueue, wwhy,
                 faults>>

(* A complete segment is flushed and, once the writer has acknowledged it,  *)
(* completed; the request goes on with the segment queued behind it.        *)
flush_lease_and_wait(w) ==
  /\ wpc[w] = "reading"
  /\ wfwd[w] = Length(wlease[w])
  /\ Send(FlushLease(wlease[w].id))
  /\ Goto(w, "flushing")
  /\ UNCHANGED <<sessionVars, tableVars, bufferVars, acks, wlease, wqueue, wfwd, wwhy,
                 received, faults>>


CompleteSegment(w) ==
  /\ wpc[w] = "flushing"
  /\ wlease[w].id \in acks
  /\ acks' = acks \ {wlease[w].id}
  /\ UNCHANGED <<next_lease, stopped>>
  /\ Exchange({wlease[w]}, {}, RangeBytes(wlease[w]))
  /\ wfwd' = [wfwd EXCEPT ![w] = 0]
  /\ wwhy' = [wwhy EXCEPT ![w] = "none"]
  /\ IF wqueue[w] = <<>>
       THEN /\ Goto(w, "loop")
            /\ wlease' = [wlease EXCEPT ![w] = NoSegment]
            /\ UNCHANGED wqueue
       ELSE /\ Goto(w, "begin")
            /\ wlease' = [wlease EXCEPT ![w] = Head(wqueue[w])]
            /\ wqueue' = [wqueue EXCEPT ![w] = Tail(@)]
  /\ UNCHANGED <<sessionVars, bufferVars, chan, received, faults>>

(* Idle workers take over the untouched segments of a stalled request.      *)
apply_suffix_handoff(w) ==
  /\ wpc[w] = "reading"
  /\ wwhy[w] # "staged"
  /\ wqueue[w] # <<>>
  /\ UNCHANGED <<next_lease, stopped>>
  /\ Exchange(Segments(w) \ {wlease[w]}, {}, {})
  /\ wqueue' = [wqueue EXCEPT ![w] = <<>>]
  /\ UNCHANGED <<sessionVars, writerVars, wpc, wlease, wfwd, wwhy, received, faults>>

(* An attempt ends early.  settle_prefix keeps a proper prefix for a retry  *)
(* or a recovery, and otherwise takes the bytes back out of the counter.    *)
Retains(w, why) ==
  /\ Validator
  /\ wfwd[w] > 0 /\ wfwd[w] < Length(wlease[w])
  /\ why \in {"retry", "recover"}

settle_prefix(w, why) ==
  /\ wwhy' = [wwhy EXCEPT ![w] = why]
  /\ IF Retains(w, why)
       THEN /\ Send(FlushLease(wlease[w].id))
            /\ Goto(w, "retaining")
            /\ UNCHANGED <<wfwd, received>>
       ELSE /\ Send(DiscardLease(wlease[w].id))
            /\ Goto(w, "discarding")
            /\ received' = received - wfwd[w]
            /\ wfwd' = [wfwd EXCEPT ![w] = 0]

Interrupt(w) ==
  /\ wpc[w] = "reading"
  /\ wwhy[w] # "staged"
  /\ \/ /\ faults < MaxFaults
        /\ faults' = faults + 1
        /\ \E why \in {"retry", "recover", "staged", "fatal"} : settle_prefix(w, why)
     \/ /\ signal # "Running"
        /\ UNCHANGED faults
        /\ settle_prefix(w, "stop")
  /\ UNCHANGED <<sessionVars, tableVars, bufferVars, acks, wlease, wqueue>>

(* The writer has acknowledged the flush or the discard.                    *)
Settled(w) ==
  /\ wpc[w] \in {"retaining", "discarding"}
  /\ wlease[w].id \in acks
  /\ acks' = acks \ {wlease[w].id}
  /\ wfwd' = [wfwd EXCEPT ![w] = 0]
  /\ UNCHANGED <<sessionVars, bufferVars, chan, received, faults>>

Prefix(w) == wlease[w].start .. wlease[w].start + wfwd[w] - 1

(* Cancel before resume: every segment goes back to the table.              *)
RecoverSegments(w) ==
  /\ Settled(w)
  /\ wwhy[w] = "recover"
  /\ UNCHANGED <<next_lease, stopped>>
  /\ Exchange(Segments(w), {}, Prefix(w))
  /\ wlease' = [wlease EXCEPT ![w] = NoSegment]
  /\ wqueue' = [wqueue EXCEPT ![w] = <<>>]
  /\ wwhy' = [wwhy EXCEPT ![w] = "none"]
  /\ Goto(w, "loop")

(* A retry and a won hedge go on with a renewed lease on the same range;    *)
(* the queued segments go back to the table.                                *)
RenewLease(w) ==
  LET renewed == [id |-> next_lease, start |-> wlease[w].start + wfwd[w],
                  end |-> wlease[w].end]
  IN /\ Settled(w)
     /\ wwhy[w] \in {"retry", "staged"}
     /\ next_lease \in LeaseKey
     /\ next_lease' = next_lease + 1
     /\ UNCHANGED stopped
     /\ Exchange(Segments(w), {renewed}, Prefix(w))
     /\ wlease' = [wlease EXCEPT ![w] = renewed]
     /\ wqueue' = [wqueue EXCEPT ![w] = <<>>]
     /\ IF wwhy[w] = "staged"
          THEN Goto(w, "begin") /\ UNCHANGED wwhy
          ELSE Goto(w, "backoff") /\ wwhy' = [wwhy EXCEPT ![w] = "none"]

(* RetryDecision::Stop closes the table before the error is published.      *)
StopAndReclaim(w) ==
  /\ Settled(w)
  /\ wwhy[w] \in {"fatal", "stop"}
  /\ UNCHANGED next_lease
  /\ stopped' = TRUE
  /\ Exchange({wlease[w]}, {}, {})
  /\ EndWorker(w, IF wwhy[w] = "stop" THEN "stopped" ELSE "failed")

(* sleep_with_backoff and reacquire_slot.                                   *)
EndBackoff(w) ==
  /\ wpc[w] = "backoff"
  /\ \/ Goto(w, "begin") /\ UNCHANGED <<tableVars, wlease, wqueue, wwhy>>
     \/ /\ signal # "Running"
        /\ UNCHANGED <<next_lease, stopped>>
        /\ Exchange({wlease[w]}, {}, {})
        /\ EndWorker(w, "stopped")
  /\ UNCHANGED <<sessionVars, writerVars, wfwd, received, faults>>

(* copy_to returns early without settling: a stop request, or an unreadable *)
(* staging file.                                                            *)
AbandonCopy(w) ==
  /\ wpc[w] = "reading"
  /\ wwhy[w] = "staged"
  /\ \/ signal # "Running" /\ EndWorker(w, "stopped") /\ UNCHANGED faults
     \/ faults < MaxFaults /\ faults' = faults + 1 /\ EndWorker(w, "failed")
  /\ UNCHANGED <<sessionVars, tableVars, writerVars, wfwd, received>>

(* The writer has failed: sends and acknowledgements fail with              *)
(* ChannelClosed.  Behind settle_prefix the lease is reclaimed.             *)
ChannelClosed(w) ==
  /\ WriterFailed
  /\ wlease[w].id \notin acks
  /\ \/ /\ \/ wpc[w] \in {"begin", "flushing"}
           \/ wpc[w] = "reading" /\ (wwhy[w] = "staged" \/ wfwd[w] = Length(wlease[w]))
        /\ UNCHANGED <<tableVars, wfwd, received>>
     \/ /\ \/ wpc[w] \in {"retaining", "discarding"}
           \/ wpc[w] = "reading" /\ wwhy[w] # "staged"
        /\ UNCHANGED <<next_lease, stopped>>
        /\ Exchange({wlease[w]}, {}, {})
        /\ received' = received - wfwd[w]
        /\ wfwd' = [wfwd EXCEPT ![w] = 0]
  /\ EndWorker(w, "failed")
  /\ UNCHANGED <<sessionVars, writerVars, faults>>

(* abort() takes effect at one of the task's awaits.                        *)
AbortLands(w) ==
  /\ aborting
  /\ wpc[w] \notin Ended
  /\ EndWorker(w, "aborted")
  /\ UNCHANGED <<sessionVars, tableVars, writerVars, wfwd, received, faults>>

WorkerStep(w) ==
  \/ Assign(w) \/ LeaveLoop(w)
  \/ begin_lease_and_wait(w) \/ Forward(w) \/ flush_lease_and_wait(w) \/ CompleteSegment(w)
  \/ RecoverSegments(w) \/ RenewLease(w) \/ StopAndReclaim(w) \/ EndBackoff(w)
  \/ ChannelClosed(w) \/ AbortLands(w)

Disturbance(w) == apply_suffix_handoff(w) \/ Interrupt(w) \/ AbandonCopy(w)

-----------------------------------------------------------------------------
(* The monitor and its checkpoints.  persist_multi_control_snapshot freezes *)
(* the completion bits, has the writer flush and sync everything, and then  *)
(* replaces the control file.                                               *)
transferVars == <<tableVars, workerVars, received>>

FreezeAutosave ==
  /\ mpc = "loop"
  /\ Cardinality(PiecesBytes(completed)) > Cardinality(PiecesBytes(Bits(control)))
  /\ snap' = completed
  /\ mpc' = "autosave"
  /\ UNCHANGED <<transferVars, writerVars, aborting, error, result, unsaved, stopVars,
                 diskVars, boundVars>>

(* The stop branch aborts the workers before it freezes the bits.           *)
StopBranch ==
  /\ mpc = "loop"
  /\ signal # "Running"
  /\ aborting' = TRUE
  /\ snap' = completed
  /\ mpc' = "stopsave"
  /\ UNCHANGED <<transferVars, writerVars, error, result, unsaved, stopVars, diskVars,
                 boundVars>>

flush_all_and_wait ==
  /\ \/ mpc = "autosave" /\ mpc' = "autosave_ack"
     \/ mpc = "stopsave" /\ mpc' = "stopsave_ack"
  /\ Send(FlushAll)
  /\ UNCHANGED <<transferVars, bufferVars, acks, snap, aborting, error, result, unsaved,
                 stopVars, diskVars, boundVars>>

SaveControl(bits) ==
  /\ control' = bits
  /\ control_past' = (control_past \cup {control}) \ {bits}

(* A failed autosave is tried again; a failed stop checkpoint is the        *)
(* download's result.                                                       *)
CheckpointDone(ok) ==
  \/ /\ mpc \in {"autosave", "autosave_ack"}
     /\ mpc' = "loop"
     /\ UNCHANGED error
  \/ /\ mpc \in {"stopsave", "stopsave_ack"}
     /\ mpc' = "drain"
     /\ error' = IF ok THEN "Stopped" ELSE "Failed"

(* Mutant: the bits are read after the writer's sync.                       *)
CheckpointAckedLateBits ==
  /\ flush_all_ack # NoOffset
  /\ flush_all_ack' = NoOffset
  /\ snap' = {}
  /\ \/ CheckpointDone(TRUE) /\ SaveControl(completed)
     \/ CheckpointDone(FALSE) /\ UNCHANGED diskVars
  /\ UNCHANGED <<transferVars, chan, active_leases, expected, cache, single, permits, file,
                 synced, written_bytes, acks, writer, aborting, result, unsaved, stopVars,
                 boundVars>>

CheckpointAcked ==
  /\ flush_all_ack # NoOffset
  /\ flush_all_ack' = NoOffset
  /\ snap' = {}
  /\ \/ CheckpointDone(TRUE) /\ SaveControl(snap)
     \/ CheckpointDone(FALSE) /\ UNCHANGED diskVars
  /\ UNCHANGED <<transferVars, chan, active_leases, expected, cache, single, permits, file,
                 synced, written_bytes, acks, writer, aborting, result, unsaved, stopVars,
                 boundVars>>

CheckpointLost ==
  /\ WriterFailed /\ flush_all_ack = NoOffset
  /\ CheckpointDone(FALSE)
  /\ snap' = {}
  /\ UNCHANGED <<transferVars, writerVars, aborting, result, unsaved, stopVars, diskVars,
                 boundVars>>

(* Mutant: a failed worker does not abort the others.                       *)
WorkerResultNoAbort ==
  /\ mpc = "loop"
  /\ mpc' = "drain"
  /\ \/ /\ \A w \in Worker : wpc[w] = "ok"
        /\ UNCHANGED <<error, aborting>>
     \/ \E w \in Worker :
          /\ \/ wpc[w] = "stopped" /\ error' = "WorkerStopped"
             \/ wpc[w] = "failed" /\ error' = "Failed"
          /\ UNCHANGED aborting
  /\ UNCHANGED <<transferVars, writerVars, snap, result, unsaved, stopVars, diskVars,
                 boundVars>>

(* Worker results end the loop: all are Ok, or the first error aborts the   *)
(* others.  The select is biased towards the stop branch, but a request may *)
(* arrive, and stop a worker, after that branch was polled.                 *)
WorkerResult ==
  /\ mpc = "loop"
  /\ mpc' = "drain"
  /\ \/ /\ \A w \in Worker : wpc[w] = "ok"
        /\ UNCHANGED <<error, aborting>>
     \/ \E w \in Worker :
          /\ \/ wpc[w] = "stopped" /\ error' = "WorkerStopped"
             \/ wpc[w] = "failed" /\ error' = "Failed"
          /\ aborting' = TRUE
  /\ UNCHANGED <<transferVars, writerVars, snap, result, unsaved, stopVars, diskVars,
                 boundVars>>

WriterStep ==
  /\ \/ WriterNext
     \/ mpc = "drain" /\ WorkersEnded /\ (FinishWriting \/ FinishError)
  /\ UNCHANGED <<transferVars, monitorVars, stopVars, diskVars, boundVars>>

(* The writer has been joined.  Its error is the result; after an error, a  *)
(* writer that closed is a durability barrier for one more save, whose own  *)
(* failure is only logged; a complete download deletes its control file.    *)
ReportError ==
  /\ error # "none"
  /\ result' = IF error = "Failed" THEN "Failed" ELSE "Stopped"
  /\ \/ SaveControl(completed) /\ UNCHANGED unsaved
     \/ UNCHANGED diskVars /\ unsaved' = (error = "WorkerStopped")

ReportEnd ==
  /\ error = "none"
  /\ IF acked = Bytes
       THEN \/ SaveControl(NoControl) /\ result' = "Ok"
            \/ UNCHANGED diskVars /\ result' = "Failed"
       ELSE (SaveControl(completed) \/ UNCHANGED diskVars) /\ result' = "Incomplete"
  /\ UNCHANGED unsaved

JoinWriter ==
  /\ mpc = "drain" /\ WorkersEnded
  /\ mpc' = "ended"
  /\ \/ WriterFailed /\ result' = "Failed" /\ UNCHANGED <<diskVars, unsaved>>
     \/ writer = "closed" /\ (ReportError \/ ReportEnd)
  /\ UNCHANGED <<transferVars, writerVars, snap, aborting, error, stopVars, boundVars>>

MonitorStep ==
  \/ StopBranch \/ flush_all_and_wait \/ CheckpointAcked \/ CheckpointLost
  \/ WorkerResult \/ JoinWriter

-----------------------------------------------------------------------------
UserStop ==
  /\ signal = "Running" /\ result = "none"
  /\ signal' = "Stop"
  /\ bits_at_stop' = completed
  /\ UNCHANGED <<transferVars, writerVars, monitorVars, diskVars, boundVars>>

(* The next run of the download: completion bits come from the control      *)
(* file c.  Without any the output file is truncated, otherwise it is       *)
(* opened as it is, with the bytes f of which g are on disk.                *)
NextRun(c, f, g) ==
  LET done == PiecesBytes(Bits(c))
  IN /\ sessions < MaxSessions
     /\ sessions' = sessions + 1
     /\ control' = c
     /\ file' = IF done = {} THEN {} ELSE f
     /\ synced' = IF done = {} THEN {} ELSE g
     /\ acked' = done
     /\ missing' = Bytes \ done
     /\ leases' = {} /\ next_lease' = 1 /\ stopped' = FALSE
     /\ chan' = <<>> /\ active_leases' = {} /\ expected' = [l \in LeaseKey |-> NoOffset]
     /\ cache' = {} /\ single' = {} /\ permits' = NoPermits /\ written_bytes' = 0
     /\ acks' = {} /\ flush_all_ack' = NoOffset /\ writer' = "running"
     /\ wpc' = [w \in Worker |-> "loop"] /\ wlease' = [w \in Worker |-> NoSegment]
     /\ wqueue' = [w \in Worker |-> <<>>] /\ wfwd' = [w \in Worker |-> 0]
     /\ wwhy' = [w \in Worker |-> "none"] /\ received' = Cardinality(done)
     /\ mpc' = "loop" /\ snap' = {} /\ aborting' = FALSE /\ error' = "none"
     /\ result' = "none" /\ unsaved' = FALSE
     /\ signal' = "Running" /\ bits_at_stop' = {}
     /\ faults' = 0


Restart ==
  /\ result \in {"Stopped", "Failed"}
  /\ NextRun(control, file, synced)
  /\ UNCHANGED <<control_past, crashes>>

(* A crash keeps what was synced and any part of the rest.  save_sync syncs *)
(* the new control file but not the directory after the rename, so any      *)
(* earlier control file may come back.                                      *)
Crash ==
  /\ crashes < MaxCrashes
  /\ crashes' = crashes + 1
  /\ control_past' = {}
  /\ \E c \in {control} \cup control_past, lost \in SUBSET (file \ synced) :
       NextRun(c, file \ lost, file \ lost)

Next ==
  \/ \E w \in Worker : WorkerStep(w) \/ Disturbance(w)
  \/ WriterStep \/ FreezeAutosave \/ MonitorStep
  \/ UserStop \/ Restart \/ Crash

(* tokio keeps polling every task that can make progress, serves the        *)
(* senders waiting for a channel slot in order, and a body delivers its     *)
(* next byte or fails (read_timeout).  An autosave takes the monitor away   *)
(* from its other branches, but only once per interval.                     *)
Fairness ==
  /\ \A w \in Worker : SF_vars(WorkerStep(w))
  /\ WF_vars(WriterStep)
  /\ WF_vars(MonitorStep)
  /\ SF_vars(StopBranch \/ WorkerResult)

Spec == Init /\ [][Next]_vars /\ Fairness

-----------------------------------------------------------------------------
Segment == [id : LeaseKey, start : Bytes, end : 1 .. TotalSize]

(* Every variable has its type.                                             *)
TypeOK ==
  /\ WriterTypeOK
  /\ missing \subseteq Bytes /\ acked \subseteq Bytes
  /\ leases \subseteq Segment
  /\ next_lease \in Nat
  /\ stopped \in BOOLEAN
  /\ wpc \in [Worker -> Ended \cup {"loop", "begin", "reading", "flushing", "retaining",
                                    "discarding", "backoff"}]
  /\ wlease \in [Worker -> Segment \cup {NoSegment}]
  /\ wqueue \in [Worker -> Seq(Segment)]
  /\ wfwd \in [Worker -> 0 .. TotalSize]
  /\ wwhy \in [Worker -> {"none", "retry", "recover", "staged", "fatal", "stop"}]
  /\ received \in 0 .. TotalSize
  /\ mpc \in {"loop", "autosave", "autosave_ack", "stopsave", "stopsave_ack", "drain",
              "ended"}
  /\ snap \subseteq Pieces
  /\ error \in {"none", "Failed", "Stopped", "WorkerStopped"}
  /\ result \in {"none", "Ok", "Stopped", "Failed", "Incomplete"}
  /\ {Bits(c) : c \in control_past \cup {control}} \subseteq SUBSET Pieces

(* Every byte the control file calls complete survives a crash, whichever   *)
(* of the control files a crash may bring back is meant: bits are frozen    *)
(* before the writer's sync, a failed writer gets no checkpoint, and a new  *)
(* run truncates the output only when it has no bits.                       *)
CheckpointIsDurable ==
  \A c \in control_past \cup {control} : PiecesBytes(Bits(c)) \subseteq synced

(* A byte the scheduler counts as acknowledged, by a completed segment or a *)
(* retained prefix, has been handed to the file.                            *)
AckedIsWritten == ~WriterFailed => acked \subseteq file

(* The progress counter is exactly the acknowledged bytes plus those        *)
(* forwarded by attempts that have not been settled (each worker's first    *)
(* wfwd bytes), through retries, discards, hedges, aborts and writer        *)
(* failures; it never runs past the size of the file.                       *)
Unsettled == {x \in Worker \X Bytes : x[2] < wfwd[x[1]]}
ReceivedIsExact == received = Cardinality(acked) + Cardinality(Unsettled)

(* What the Internal errors "stale adaptive completion", "stale prefix      *)
(* handoff" and "cannot renew ..." of worker_loop guard against: a worker   *)
(* that is about to complete, retain, renew or reclaim a segment still      *)
(* holds its lease, no two workers hold the same one, and the writer never  *)
(* sees data out of order.                                                  *)
SegmentsStayLeased ==
  /\ \A w \in Worker :
       wpc[w] \notin Ended \cup {"loop"} => Segments(w) \subseteq leases
  /\ \A v, w \in Worker :
       v # w /\ {wpc[v], wpc[w]} \cap (Ended \cup {"loop"}) = {}
         => Segments(v) \cap Segments(w) = {}
  /\ writer # "rejected"

(* A download that reports success has every byte on disk, its control file *)
(* deleted and its progress at 100%; a download whose workers all succeed   *)
(* is never incomplete.                                                     *)
OkMeansComplete ==
  /\ result = "Ok" => synced = Bytes /\ control = NoControl /\ received = TotalSize
  /\ result # "Incomplete"


(* A reported stop is a resume point: the control file holds every piece    *)
(* that was complete when the user asked to stop, unless the one save that  *)
(* follows a worker's own report of the stop has failed.                    *)
StoppedIsResumable ==
  result = "Stopped" /\ ~unsaved => control # NoControl /\ bits_at_stop \subseteq control

(* A checkpoint is worth resuming from, across crashes and stops.           *)
CheckpointIsSafe == CheckpointIsDurable /\ StoppedIsResumable

(* "Paused would promise a resume point that does not exist" (multi.rs,     *)
(* stop branch): a stop is reported only with its checkpoint on disk.       *)
StoppedPromisesResumePoint ==
  result = "Stopped" => control # NoControl /\ bits_at_stop \subseteq control

(* "multi-connection completion requires successful final writer            *)
(* synchronization and all pieces complete, with control-file deletion best *)
(* effort" (docs/architecture.md): nothing else can fail the download.      *)
CleanupIsBestEffort ==
  mpc = "ended" /\ error = "none" /\ writer = "closed" /\ acked = Bytes => result = "Ok"

(* Saves never lose a completed piece, and the control file goes away only  *)
(* when the whole file is on disk.                                          *)
CheckpointNeverRegresses ==
  [][crashes' = crashes =>
       \/ Bits(control) \subseteq Bits(control') /\ (control # NoControl => control' # NoControl)
       \/ synced = Bytes]_vars

(* Every session ends: no worker, monitor or writer waits for another for   *)
(* ever, whatever fails or is stopped.                                      *)
SessionEnds == (result = "none") ~> (result # "none")
=============================================================================

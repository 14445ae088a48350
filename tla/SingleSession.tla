---------------------------- MODULE SingleSession ----------------------------
(***************************************************************************)
(* The single-connection transfer (session/single.rs): one request after   *)
(* the other, its body streamed through the writer into the output file,   *)
(* with one retry budget for body failures, range requests, validation and *)
(* restarts from zero.  The origin may replace the object between two      *)
(* requests.                                                               *)
(*                                                                         *)
(* The content of a byte is the version of the object it came from; Hole   *)
(* is a byte nobody wrote.  The writer (module Writer) is what it promises *)
(* a producer of contiguous data: it writes what was sent in order, and a  *)
(* flush barrier writes and syncs all of it.                               *)
(***************************************************************************)
EXTENDS RetryPolicy, RangeValidate, Sequences

CONSTANTS
  Version,              \* 1 .. n: the versions the object may have
  Size,                 \* the size of each version
  RangeSupport,         \* whether a range request may get 206, 200: a set of BOOLEANs
  Chunked,              \* whether a body may come without Content-Length
  Encodes,              \* whether a range may come with a content-encoding
  RequestErrors,        \* errors of a request
  BodyErrors,           \* errors of a body
  DiskErrors,           \* writing the output file and saving may fail
  autosave_sync_every

ASSUME SessionAssumption ==
  /\ Size \in [Version -> Nat \ {0}]
  /\ RequestErrors \cup BodyErrors \subseteq Errors
  /\ autosave_sync_every \in Nat \ {0}

VARIABLES
  object,               \* version the origin serves
  spec,                 \* settings of this run: resume, prealloc, max_connections, ...
  file, synced,         \* output file: its content, what a crash keeps; None if absent
  control,              \* control file, or None
  pc, after,            \* where the task is, and where it goes after a save or a sleep
  signal,               \* the user asked to stop
  error,                \* the error being handled
  result,               \* what the last run returned
  offset, total_size, use_control, baseline,
  response,             \* the response in hand: its headers and the bytes still to come
  retries_started,
  sent,                 \* end of the data sent to the writer
  written_bytes,        \* end of the data in the file
  writer,               \* running, failed or none
  file_total_size,
  tracker               \* ControlSaveTracker

diskVars == <<file, synced, control>>
writerVars == <<sent, written_bytes, writer, file_total_size>>
transferVars == <<offset, total_size, use_control, baseline, response, retries_started, tracker>>
taskVars == <<pc, after, error, result>>
sessionVars == <<object, spec, signal, diskVars, writerVars, transferVars, taskVars>>

Hole == 0

-----------------------------------------------------------------------------
(* The origin: the responses it may send for the current object.  An        *)
(* encoded range has bytes of its own, which are of no version.             *)
Body(v, status, meta, from, to) ==
  [ver |-> v, status |-> status, meta |-> meta, next |-> from, end |-> to]
GetResponses ==
  {Body(object, 200,
        ResponseMeta(IF c THEN None ELSE Size[object], None, None, None, object, FALSE),
        0, Size[object]) : c \in Chunked}
PartialResponses(from, to) ==
  IF from >= Size[object]
  THEN {}
  ELSE LET last == Least(to, Size[object] - 1)
       IN {Body(IF enc THEN -1 ELSE object, 206,
                [HonestRange(Size[object], from, to, object, last - from + 1)
                   EXCEPT !.encoded = enc],
                from, last + 1) : enc \in Encodes}
RangeResponses(from, to) ==
  UNION {IF r THEN PartialResponses(from, to) ELSE GetResponses : r \in RangeSupport}

(* What a request ends with: a range behind the end of the object is a 416. *)
RangeErrors(from) ==
  RequestErrors \cup IF from >= Size[object] THEN {"OtherStatus"} ELSE {}

-----------------------------------------------------------------------------
(* The output file and the writer.                                          *)
Put(f, at, value) ==
  IF at < Len(f) THEN [f EXCEPT ![at + 1] = value] ELSE Append(f, value)

(* The file once every byte sent so far is written.                         *)
Drained ==
  [i \in 1 .. IF sent > Len(file) THEN sent ELSE Len(file) |->
     IF i \in written_bytes + 1 .. sent THEN response.ver ELSE file[i]]

(* create_output_file: truncate, and reserve the size if it is known.       *)
Created(size) == [i \in 1 .. IF spec.prealloc /\ size # None THEN size ELSE 0 |-> Hole]
create_output_file(size) ==
  /\ file' = Created(size)
  /\ synced' = <<>>
  /\ file_total_size' = size
  /\ writer' = "running"

WriterWrite ==
  /\ writer = "running" /\ written_bytes < sent
  /\ file' = Put(file, written_bytes, response.ver)
  /\ written_bytes' = written_bytes + 1
  /\ UNCHANGED <<object, spec, signal, synced, control, sent, writer, file_total_size,
                 transferVars, taskVars>>

Barrier == {"flush", "retry_flush", "close", "complete", "restart", "restart_reuse"}
WriterFail ==
  /\ DiskErrors
  /\ writer = "running" /\ (written_bytes < sent \/ pc \in Barrier)
  /\ writer' = "failed"
  /\ UNCHANGED <<object, spec, signal, diskVars, sent, written_bytes, file_total_size,
                 transferVars, taskVars>>

(* The barrier: flush_all_and_wait(sync), or the end of the writer task.    *)
FlushAndSync ==
  /\ writer = "running"
  /\ file' = Drained
  /\ synced' = Drained
  /\ written_bytes' = sent

Return(value) ==
  /\ result' = value
  /\ pc' = "idle"
  /\ writer' = "none"
  /\ response' = None

-----------------------------------------------------------------------------
(* ControlSaveTracker (session/mod.rs).                                     *)
NewTracker(bytes) == [saved |-> bytes, ticks |-> 0]
should_save(reason, bytes) ==
  /\ bytes > tracker.saved
  /\ reason = "Autosave" => tracker.ticks + 1 >= autosave_sync_every
(* Only whether the count has reached the limit matters: it stays there.    *)
ticked(bytes) ==
  IF bytes <= tracker.saved THEN 0 ELSE Least(tracker.ticks + 1, autosave_sync_every)

(* single_snapshot_template with the persisted prefix filled in.            *)
Snapshot(bytes) ==
  [total_size |-> IF total_size = None THEN 0 ELSE total_size, piece_count |-> 1,
   completed |-> {}, downloaded_bytes |-> bytes, validator |-> baseline]

(* save_sync replaces the control file atomically, or fails and leaves it.  *)
SaveSnapshot(bytes) == control' = Snapshot(bytes) /\ tracker' = NewTracker(bytes)
SaveFails == DiskErrors /\ UNCHANGED <<control, tracker>>

-----------------------------------------------------------------------------
(* SingleWriterRuntime::start and the locals of run_single_with_retry.      *)
start_writer ==
  /\ pc = "start"
  /\ \/ /\ offset > 0
        /\ writer' = "running" /\ file_total_size' = total_size
        /\ UNCHANGED <<file, synced>>
     \/ offset = 0 /\ create_output_file(total_size)
  /\ sent' = offset /\ written_bytes' = offset
  /\ use_control' = (spec.resume /\ total_size # None)
  /\ baseline' = response.meta.validator
  /\ tracker' = NewTracker(offset)
  /\ retries_started' = 0
  /\ pc' = "validate"
  /\ UNCHANGED <<object, spec, signal, control, offset, total_size, response, after, error, result>>

StartFails ==
  /\ pc = "start" /\ DiskErrors
  /\ Return("Failed")
  /\ UNCHANGED <<object, spec, signal, diskVars, sent, written_bytes, file_total_size, offset,
                 total_size, use_control, baseline, retries_started, tracker, after, error>>

(* The policy's answer: sleep and go on, or end with an error.  Without a   *)
(* clock the elapsed time is any the budget tells apart.                    *)
Elapsed == 0 .. IF max_retry_elapsed = None THEN 0 ELSE max_retry_elapsed
DecideOn(e, restart, next) ==
  \E elapsed \in Elapsed :
    \E d \in IF restart THEN decide_restart(retries_started, elapsed, e, None)
                        ELSE decide(retries_started, elapsed, e, None) :
      IF d.decision = "Retry"
      THEN pc' = "backoff" /\ after' = next /\ retries_started' = d.retry_count /\ error' = e
      ELSE pc' = "close" /\ error' = d.error /\ UNCHANGED <<after, retries_started>>

StopSeen(where) ==
  /\ pc = where /\ signal
  /\ pc' = "close" /\ error' = "Paused"

(* Top of the loop without a response in hand.                              *)
SendRequest ==
  /\ pc = "request" /\ ~signal
  /\ LET ranged == offset > 0 /\ total_size # None
     IN \/ /\ \E r \in IF ranged THEN RangeResponses(offset, total_size - 1)
                                 ELSE GetResponses : response' = r
           /\ pc' = "validate"
           /\ UNCHANGED <<after, error, retries_started>>
        \/ /\ \E e \in IF ranged THEN RangeErrors(offset) ELSE RequestErrors :
                DecideOn(e, FALSE, "request")
           /\ UNCHANGED response
  /\ UNCHANGED <<object, spec, signal, diskVars, writerVars, offset, total_size, use_control,
                 baseline, tracker, result>>

(* The stop arm of the request, of the sleep, and of MemoryBudget::forward  *)
(* while a chunk waits for room.                                            *)
StopAttempt ==
  /\ StopSeen("request") \/ StopSeen("backoff") \/ StopSeen("stream")
  /\ UNCHANGED <<object, spec, signal, diskVars, writerVars, transferVars, after, result>>

sleep_with_backoff ==
  /\ pc = "backoff" /\ ~signal
  /\ pc' = after
  /\ UNCHANGED <<object, spec, signal, diskVars, writerVars, transferVars, after, error, result>>

(* The answer to a range request continues the file, or starts it afresh.   *)
ResumeVerdict ==
  validate_range_response(response.status, response.meta, "ResumeProbe",
    [start |-> offset, end_inclusive |-> total_size - 1, total_size |-> total_size])
Continues ==
  /\ ResumeVerdict = "Accept"
  /\ metadata_matches_baseline(response.meta, baseline, total_size)

ValidateResume ==
  /\ pc = "validate" /\ offset > 0
  /\ IF Continues
     THEN pc' = "stream" /\ UNCHANGED <<after, error, retries_started>>
     ELSE DecideOn(IF ResumeVerdict = "Accept" THEN "ResumeMismatch" ELSE ResumeVerdict, TRUE,
                   IF response.status = 200 THEN "restart_reuse" ELSE "restart")
  /\ UNCHANGED <<object, spec, signal, diskVars, writerVars, offset, total_size, use_control,
                 baseline, response, tracker, result>>

(* A response from byte zero sets the size and the baseline.  Its size may  *)
(* only now be known for preallocation: the file is created once more.      *)
AdoptResponse ==
  /\ pc = "validate" /\ offset = 0
  /\ LET discovered == single_response_total_size(response.status, response.meta)
     IN /\ total_size' = IF discovered = None THEN total_size ELSE discovered
        /\ use_control' = IF discovered = None THEN use_control ELSE spec.resume
  /\ baseline' = response.meta.validator
  /\ IF spec.prealloc /\ file_total_size # total_size'
     THEN create_output_file(total_size')
     ELSE UNCHANGED <<file, synced, file_total_size, writer>>
  /\ sent' = 0 /\ written_bytes' = 0
  /\ pc' = "stream"
  /\ UNCHANGED <<object, spec, signal, control, offset, response, retries_started, tracker,
                 after, error, result>>

-----------------------------------------------------------------------------
(* stream_single_attempt: the arms of its biased select.                    *)
streamFrame == <<object, spec, signal, diskVars, written_bytes, writer, file_total_size,
                 offset, total_size, use_control, baseline, retries_started, result>>

FailAttempt(e) ==
  /\ error' = e
  /\ pc' = IF is_retryable(e) THEN "retry_flush" ELSE "close"

Overruns == total_size # None /\ sent + 1 > total_size

Chunk ==
  /\ pc = "stream" /\ ~signal
  /\ response.next < response.end
  /\ \/ /\ Overruns
        /\ FailAttempt("Body")
        /\ UNCHANGED <<sent, response>>
     \/ /\ ~Overruns /\ writer = "failed"
        /\ FailAttempt("ChannelClosed")
        /\ UNCHANGED <<sent, response>>
     \/ /\ ~Overruns /\ writer = "running"
        /\ sent' = sent + 1
        /\ response' = [response EXCEPT !.next = @ + 1]
        /\ UNCHANGED <<pc, error>>
  /\ UNCHANGED <<streamFrame, tracker, after>>

BodyFails ==
  /\ pc = "stream" /\ ~signal
  /\ \E e \in BodyErrors : FailAttempt(e)
  /\ UNCHANGED <<streamFrame, tracker, after, sent, response>>

(* The end of the body.  A body of unknown length ends where its framing    *)
(* says; one of known length may also be cut short by a server that lies.   *)
EndOfBody ==
  /\ pc = "stream" /\ ~signal
  /\ response.next = response.end \/ total_size # None
  /\ IF total_size # None /\ sent # total_size
     THEN FailAttempt("Body")
     ELSE pc' = "complete" /\ UNCHANGED error
  /\ UNCHANGED <<streamFrame, tracker, after, sent, response>>

(* The save ticker: flush barrier and save happen inside the select arm.    *)
Autosave ==
  /\ pc = "stream" /\ ~signal /\ use_control
  /\ IF should_save("Autosave", sent)
     THEN pc' = "flush" /\ after' = "stream"
     ELSE UNCHANGED <<pc, after>>
  /\ tracker' = [tracker EXCEPT !.ticks = ticked(sent)]
  /\ UNCHANGED <<streamFrame, error, sent, response>>

(* A stop request: save what has arrived, then end the attempt with it.     *)
StopStream ==
  /\ pc = "stream" /\ signal
  /\ error' = "Paused"
  /\ IF use_control /\ should_save("Terminal", sent)
     THEN pc' = "flush" /\ after' = "close"
     ELSE pc' = "close" /\ UNCHANGED after
  /\ UNCHANGED <<streamFrame, tracker, sent, response>>

(* persist_single_control_snapshot with a writer: a failure is ignored.     *)
FlushForSave ==
  /\ pc = "flush"
  /\ \/ FlushAndSync /\ pc' = "save"
     \/ writer = "failed" /\ pc' = after /\ UNCHANGED <<file, synced, written_bytes>>
  /\ UNCHANGED <<object, spec, signal, control, sent, writer, file_total_size, transferVars,
                 after, error, result>>

persist_single_control_snapshot ==
  /\ pc = "save"
  /\ \/ written_bytes > tracker.saved /\ (SaveSnapshot(written_bytes) \/ SaveFails)
     \/ written_bytes <= tracker.saved /\ UNCHANGED <<control, tracker>>
  /\ pc' = after
  /\ UNCHANGED <<object, spec, signal, file, synced, writerVars, offset, total_size, use_control,
                 baseline, response, retries_started, after, error, result>>

-----------------------------------------------------------------------------
(* A retryable failure: the attempt goes on from what the barrier confirms. *)
FlushForRetry ==
  /\ pc = "retry_flush"
  /\ FlushAndSync
  /\ offset' = sent
  /\ pc' = "retry_save"
  /\ UNCHANGED <<object, spec, signal, control, sent, writer, file_total_size, total_size,
                 use_control, baseline, response, retries_started, tracker, after, error, result>>

restart_from_zero == total_size = None \/ offset >= total_size

save_single_control_snapshot_at ==
  /\ pc = "retry_save"
  /\ \/ use_control /\ offset > tracker.saved /\ (SaveSnapshot(offset) \/ SaveFails)
     \/ ~(use_control /\ offset > tracker.saved) /\ UNCHANGED <<control, tracker>>
  /\ DecideOn(error, FALSE, IF restart_from_zero THEN "restart" ELSE "request")
  /\ UNCHANGED <<object, spec, signal, file, synced, writerVars, offset, total_size, use_control,
                 baseline, response, result>>

(* Restart: the file is truncated first, then the control file goes.        *)
ResetWriter ==
  /\ pc \in {"restart", "restart_reuse"}
  /\ writer = "running"
  /\ create_output_file(None)
  /\ sent' = 0 /\ written_bytes' = 0
  /\ after' = pc
  /\ pc' = "restart_delete"
  /\ UNCHANGED <<object, spec, signal, control, transferVars, error, result>>

(* Mutant: the control file of the old object is kept.                      *)
RestartKeepsControl ==
  /\ pc = "restart_delete"
  /\ UNCHANGED control
  /\ offset' = 0 /\ total_size' = None /\ use_control' = FALSE
  /\ tracker' = NewTracker(0)
  /\ baseline' = response.meta.validator
  /\ pc' = IF after = "restart_reuse" THEN "validate" ELSE "request"
  /\ UNCHANGED <<object, spec, signal, file, synced, writerVars, response, retries_started,
                 after, error, result>>

RestartFromZero ==
  /\ pc = "restart_delete"
  /\ control' = None
  /\ offset' = 0 /\ total_size' = None /\ use_control' = FALSE
  /\ tracker' = NewTracker(0)
  /\ baseline' = response.meta.validator
  /\ pc' = IF after = "restart_reuse" THEN "validate" ELSE "request"
  /\ UNCHANGED <<object, spec, signal, file, synced, writerVars, response, retries_started,
                 after, error, result>>

-----------------------------------------------------------------------------
endFrame == <<object, spec, signal, sent, file_total_size, offset, total_size, use_control,
              baseline, retries_started, after, error>>

(* Mutant: the terminal save is left to the stop arm.                       *)
CloseWithoutSave ==
  /\ pc = "close"
  /\ FlushAndSync
  /\ Return(IF error = "Paused" THEN "Paused" ELSE "Failed")
  /\ UNCHANGED <<endFrame, control, tracker>>

(* finish_single_error: close the writer, then the terminal save.           *)
CloseWriter ==
  /\ pc = "close"
  /\ FlushAndSync
  /\ IF use_control /\ sent > tracker.saved
     THEN pc' = "final_save" /\ UNCHANGED <<result, writer, response>>
     ELSE Return(IF error = "Paused" THEN "Paused" ELSE "Failed")
  /\ UNCHANGED <<endFrame, control, tracker>>

FinalSave ==
  /\ pc = "final_save"
  /\ \/ SaveSnapshot(written_bytes) /\ Return(IF error = "Paused" THEN "Paused" ELSE "Failed")
     \/ SaveFails /\ Return("Failed")
  /\ UNCHANGED <<endFrame, file, synced, written_bytes>>

(* complete_single_transfer: barrier, check, close, then the control file.  *)
complete_single_transfer ==
  /\ pc = "complete"
  /\ FlushAndSync
  /\ IF total_size # None /\ sent # total_size
     THEN Return("Failed")
     ELSE pc' = "cleanup" /\ UNCHANGED <<result, writer, response>>
  /\ UNCHANGED <<endFrame, control, tracker>>

Cleanup ==
  /\ pc = "cleanup"
  /\ control' = IF use_control THEN None ELSE control
  /\ Return("Ok")
  /\ UNCHANGED <<endFrame, file, synced, written_bytes, tracker>>

(* The writer's own error ends the run without another save; so does a file *)
(* that cannot be created or a control file that cannot be deleted.         *)
StorageFails ==
  /\ \/ writer = "failed" /\ pc \in {"retry_flush", "close", "complete", "restart", "restart_reuse"}
     \/ DiskErrors /\ pc = "restart_delete"
     \/ DiskErrors /\ pc = "cleanup" /\ use_control
  /\ Return("Failed")
  /\ UNCHANGED <<endFrame, diskVars, written_bytes, tracker>>

SingleStep ==
  \/ start_writer \/ StartFails \/ SendRequest \/ StopAttempt \/ sleep_with_backoff
  \/ ValidateResume \/ AdoptResponse
  \/ Chunk \/ BodyFails \/ EndOfBody \/ StopStream
  \/ FlushForSave \/ persist_single_control_snapshot
  \/ FlushForRetry \/ save_single_control_snapshot_at \/ ResetWriter \/ RestartFromZero
  \/ CloseWriter \/ FinalSave \/ complete_single_transfer \/ Cleanup \/ StorageFails
=============================================================================

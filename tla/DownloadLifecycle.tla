-------------------------- MODULE DownloadLifecycle --------------------------
(***************************************************************************)
(* A download from its first run to its last: run_download_inner           *)
(* (session/mod.rs) chooses between resuming from the control file         *)
(* (session/resume.rs), a fresh multi-connection run and a fresh           *)
(* single-connection run.  Runs end by success, error, stop or crash, and  *)
(* the next one starts from what is on disk, perhaps with other settings.  *)
(*                                                                         *)
(* The single-connection run is module SingleSession.  The                 *)
(* multi-connection run is what MultiSession shows of it: it writes bytes  *)
(* of the object it validated in any order, and a snapshot lists only      *)
(* pieces that are synced.                                                 *)
(***************************************************************************)
EXTENDS SingleSession, FiniteSetsExt

CONSTANTS
  Settings,             \* the settings a run may have
  PieceSize,
  min_split_size,
  ControlErrors,        \* reading and discarding the control file may fail
  MaxRuns               \* bound: runs of the download

VARIABLES
  runs,
  held,                 \* response of probe_or_fallback_get, and its source
  pieces                \* multi-connection run: pieces on disk when it started

lifecycleVars == <<runs, held, pieces>>
vars == <<sessionVars, lifecycleVars>>

Map(total) == INSTANCE PieceMap WITH TotalSize <- total
NoResponse == [response |-> None, source |-> None]

-----------------------------------------------------------------------------
(* resume.rs: what the control file says of the output file.                *)
is_multi(ctrl, sp) == ctrl.piece_count > 1 /\ sp.max_connections > 1
completed_bytes(ctrl) ==
  FoldSet(LAMBDA p, sum : sum + Cardinality(Map(ctrl.total_size)!PieceBytes(p)), 0, ctrl.completed)
highest_end(ctrl) ==
  IF ctrl.completed = {} THEN 0 ELSE Map(ctrl.total_size)!PieceEnd(Max(ctrl.completed))
first_missing(ctrl) == Min((0 .. ctrl.piece_count - 1) \ ctrl.completed)

validate_local_resume_state(f, ctrl, sp) ==
  /\ f # None
  /\ ctrl.downloaded_bytes <= ctrl.total_size
  /\ IF is_multi(ctrl, sp)
     THEN /\ completed_bytes(ctrl) <= ctrl.downloaded_bytes
          /\ IF sp.prealloc
             THEN Len(f) = ctrl.total_size
             ELSE /\ highest_end(ctrl) <= Len(f) /\ Len(f) <= ctrl.total_size
                  /\ ctrl.downloaded_bytes <= Len(f)
     ELSE Len(f) = IF sp.prealloc THEN ctrl.total_size ELSE ctrl.downloaded_bytes

(* The bytes a resumed run does not fetch again.                            *)
TrustedBytes(ctrl, sp) ==
  IF is_multi(ctrl, sp)
  THEN UNION {Map(ctrl.total_size)!PieceBytes(p) : p \in ctrl.completed}
  ELSE 0 .. ctrl.downloaded_bytes - 1

-----------------------------------------------------------------------------
Init ==
  /\ object \in Version
  /\ spec = CHOOSE s \in Settings : TRUE
  /\ file = None /\ synced = None /\ control = None
  /\ pc = "idle" /\ after = "none" /\ signal = FALSE /\ error = "none" /\ result = "none"
  /\ offset = 0 /\ total_size = None /\ use_control = FALSE /\ baseline = None
  /\ response = None /\ retries_started = 0
  /\ sent = 0 /\ written_bytes = 0 /\ writer = "none" /\ file_total_size = None
  /\ tracker = NewTracker(0)
  /\ runs = 0 /\ held = NoResponse /\ pieces = {}

(* The locals of a run do not outlive it.                                   *)
ResetLocals ==
  /\ after' = "none" /\ signal' = FALSE /\ error' = "none"
  /\ offset' = 0 /\ total_size' = None /\ use_control' = FALSE /\ baseline' = None
  /\ response' = None /\ retries_started' = 0
  /\ sent' = 0 /\ written_bytes' = 0 /\ writer' = "none" /\ file_total_size' = None
  /\ tracker' = NewTracker(0)
  /\ held' = NoResponse /\ pieces' = {}

(* run_download_inner: with a static output path it tries to resume first,  *)
(* otherwise it needs a response to learn the name.                         *)
run_download_inner ==
  /\ pc = "idle" /\ runs < MaxRuns
  /\ spec' \in Settings
  /\ runs' = runs + 1
  /\ result' = "none"
  /\ pc' = IF spec'.output_path THEN "load" ELSE "fetch"
  /\ ResetLocals
  /\ UNCHANGED <<object, diskVars>>

planFrame == <<object, spec, signal, file, synced, writerVars, retries_started, use_control,
               baseline, tracker, after, error, runs>>
WithoutResume == IF held = NoResponse THEN "fetch" ELSE "fresh"

(* try_resume_download up to its probe.                                     *)
try_resume_download ==
  /\ pc = "load"
  /\ pc' \in IF ~spec.resume \/ control = None
             THEN {WithoutResume}
             ELSE {IF /\ validate_local_resume_state(file, control, spec)
                      /\ IF is_multi(control, spec)
                         THEN Cardinality(control.completed) < control.piece_count
                         ELSE control.downloaded_bytes \in 1 .. control.total_size - 1
                   THEN "probe" ELSE "discard"}
                  \cup IF ControlErrors THEN {WithoutResume} ELSE {}
  /\ UNCHANGED <<planFrame, control, result, offset, total_size, response, held, pieces>>

(* The resume probe: retry_with_backoff with whatever it ends with.         *)
ProbeRange ==
  IF is_multi(control, spec)
  THEN LET p == first_missing(control)
       IN [start |-> Map(control.total_size)!PieceStart(p),
           end_inclusive |-> Map(control.total_size)!PieceEnd(p) - 1,
           total_size |-> control.total_size]
  ELSE [start |-> control.downloaded_bytes, end_inclusive |-> control.total_size - 1,
        total_size |-> control.total_size]

ResumeProbe ==
  /\ pc = "probe"
  /\ \/ /\ ~signal
        /\ \E r \in RangeResponses(ProbeRange.start, ProbeRange.end_inclusive) :
             IF /\ validate_range_response(r.status, r.meta, "ResumeProbe", ProbeRange) = "Accept"
                /\ validate_metadata(r.meta, control)
             THEN /\ response' = r
                  /\ total_size' = control.total_size
                  /\ IF is_multi(control, spec)
                     THEN pc' = "multi_open" /\ pieces' = control.completed /\ UNCHANGED offset
                     ELSE pc' = "start" /\ offset' = control.downloaded_bytes /\ UNCHANGED pieces
             ELSE pc' = "discard" /\ UNCHANGED <<response, total_size, pieces, offset>>
     \/ /\ signal \/ RangeErrors(ProbeRange.start) # {}
        /\ pc' = "discard"
        /\ UNCHANGED <<response, total_size, pieces, offset>>
  /\ UNCHANGED <<planFrame, control, result, held>>

DiscardControl ==
  /\ pc = "discard"
  /\ control' \in {None} \cup IF ControlErrors THEN {control} ELSE {}
  /\ pc' = WithoutResume
  /\ UNCHANGED <<planFrame, result, offset, total_size, response, held, pieces>>

-----------------------------------------------------------------------------
(* A request in retry_with_backoff ends with a response, an error or, on a  *)
(* stop request, with Paused.                                               *)
EndedRequest(errors) ==
  (IF signal THEN {"Paused"} ELSE errors)
    \cup IF max_retry_elapsed = None \/ errors = {} THEN {} ELSE {"RetryBudgetExceeded"}
EndRun(e) == Return(IF e = "Paused" THEN "Paused" ELSE "Failed")

Holds(r, source) ==
  /\ held' = [response |-> r, source |-> source]
  /\ pc' = IF spec.output_path THEN "fresh" ELSE "load"

should_abort_range_probe_fallback(e) ==
  e \in StopErrors \cup {"RetryBudgetExceeded"} \cup RetryableStatus

probe_or_fallback_get ==
  /\ pc = "fetch"
  /\ IF spec.max_connections > 1
     THEN \/ /\ ~signal
             /\ \E r \in RangeResponses(0, PieceSize - 1) : Holds(r, "RangeProbe")
             /\ UNCHANGED <<result, writer, response>>
          \/ \E e \in EndedRequest(RequestErrors) :
               IF should_abort_range_probe_fallback(e)
               THEN EndRun(e) /\ UNCHANGED held
               ELSE pc' = "fetch_get" /\ UNCHANGED <<held, result, writer, response>>
     ELSE pc' = "fetch_get" /\ UNCHANGED <<held, result, writer, response>>
  /\ UNCHANGED <<object, spec, signal, diskVars, sent, written_bytes, file_total_size,
                 retries_started, use_control, baseline, tracker, after, error, runs,
                 offset, total_size, pieces>>

FallbackGet ==
  /\ pc = "fetch_get"
  /\ \/ /\ ~signal
        /\ \E r \in GetResponses : Holds(r, "FallbackGet")
        /\ UNCHANGED <<result, writer, response>>
     \/ \E e \in EndedRequest(RequestErrors) : EndRun(e) /\ UNCHANGED held
  /\ UNCHANGED <<object, spec, signal, diskVars, sent, written_bytes, file_total_size,
                 retries_started, use_control, baseline, tracker, after, error, runs,
                 offset, total_size, pieces>>

StartSingle(r) ==
  /\ pc' = "start"
  /\ response' = r
  /\ total_size' = single_response_total_size(r.status, r.meta)
  /\ UNCHANGED <<result, writer>>

(* A probe that was accepted starts a multi-connection run of a file that   *)
(* is large enough; its body serves a single connection if it is whole.     *)
run_fresh_from_response ==
  /\ pc = "fresh"
  /\ LET r == held.response
         verdict == validate_range_response(r.status, r.meta, "FreshProbe",
                      [start |-> 0, end_inclusive |-> PieceSize - 1, total_size |-> None])
         PlainGet == pc' = "plain_get" /\ UNCHANGED <<response, total_size, result, writer>>
     IN IF held.source = "FallbackGet"
        THEN StartSingle(r)
        ELSE CASE verdict = "Accept" /\ r.meta.content_range_total > min_split_size ->
                    /\ pc' = "multi_open"
                    /\ response' = r
                    /\ total_size' = r.meta.content_range_total
                    /\ UNCHANGED <<result, writer>>
               [] verdict = "Accept" /\ r.meta.content_range_total <= min_split_size ->
                    IF range_probe_response_covers_full_file(r.meta) THEN StartSingle(r) ELSE PlainGet
               [] verdict = "RangeNotSupported" -> StartSingle(r)
               [] verdict = "EncodedResponse" -> PlainGet
               [] OTHER -> Return("Failed") /\ UNCHANGED total_size
  /\ held' = NoResponse
  /\ UNCHANGED <<object, spec, signal, diskVars, sent, written_bytes, file_total_size,
                 retries_started, use_control, baseline, tracker, after, error, runs,
                 offset, pieces>>

retry_plain_get ==
  /\ pc = "plain_get"
  /\ \/ ~signal /\ \E r \in GetResponses : StartSingle(r)
     \/ \E e \in EndedRequest(RequestErrors) : EndRun(e) /\ UNCHANGED total_size
  /\ UNCHANGED <<object, spec, signal, diskVars, sent, written_bytes, file_total_size,
                 retries_started, use_control, baseline, tracker, after, error, lifecycleVars,
                 offset>>

-----------------------------------------------------------------------------
(* run_multi_worker as MultiSession shows it.  pieces are the pieces on     *)
(* disk, sent the bytes of the rest that were written.                      *)
multiFrame == <<object, spec, signal, offset, total_size, use_control, baseline, retries_started,
                tracker, after, error, written_bytes, file_total_size, runs, held>>

MultiOpen ==
  /\ pc = "multi_open"
  /\ IF pieces = {}
     THEN file' = Created(total_size) /\ synced' = <<>>
     ELSE UNCHANGED <<file, synced>>
  /\ sent' = {}
  /\ pc' = "multi"
  /\ UNCHANGED <<multiFrame, control, result, writer, response, pieces>>

MultiPieceBytes(p) == Map(total_size)!PieceBytes(p)
MissingBytes ==
  (0 .. total_size - 1) \ (sent \cup UNION {MultiPieceBytes(p) : p \in pieces})

(* One byte lands; a hole before it appears if the file was shorter.        *)
Extended(f, i, value) ==
  [k \in 1 .. IF i < Len(f) THEN Len(f) ELSE i + 1 |->
     IF k = i + 1 THEN value ELSE IF k <= Len(f) THEN f[k] ELSE Hole]
MultiWrite ==
  /\ pc = "multi"
  /\ \E i \in MissingBytes :
       /\ file' = Extended(file, i, response.ver)
       /\ sent' = sent \cup {i}
  /\ UNCHANGED <<multiFrame, synced, control, result, writer, response, pieces, pc>>

AckedPieces ==
  {p \in 0 .. Map(total_size)!piece_count - 1 : p \in pieces \/ MultiPieceBytes(p) \subseteq sent}
MultiSnapshot ==
  LET whole == [total_size |-> total_size, piece_count |-> Map(total_size)!piece_count,
                completed |-> AckedPieces, downloaded_bytes |-> 0,
                validator |-> response.meta.validator]
  IN [whole EXCEPT !.downloaded_bytes = completed_bytes(whole)]
SaveMulti ==
  control' = IF spec.resume /\ AckedPieces # pieces THEN MultiSnapshot ELSE control

MultiAutosave ==
  /\ pc = "multi" /\ ~signal
  /\ spec.resume /\ AckedPieces # pieces
  /\ synced' = file
  /\ control' = MultiSnapshot
  /\ UNCHANGED <<multiFrame, file, result, writer, response, pieces, sent, pc>>

MultiStop ==
  /\ pc = "multi" /\ signal
  /\ synced' = file
  /\ SaveMulti
  /\ Return("Paused")
  /\ UNCHANGED <<multiFrame, file, pieces, sent>>

MultiFail ==
  /\ pc = "multi"
  /\ RequestErrors # {}
  /\ synced' = file
  /\ SaveMulti
  /\ Return("Failed")
  /\ UNCHANGED <<multiFrame, file, pieces, sent>>

MultiOk ==
  /\ pc = "multi"
  /\ MissingBytes = {}
  /\ synced' = file
  /\ control' = None
  /\ Return("Ok")
  /\ UNCHANGED <<multiFrame, file, pieces, sent>>

-----------------------------------------------------------------------------
(* The user stops the run, the origin replaces the object, the process dies.*)
UserStop ==
  /\ pc # "idle" /\ ~signal
  /\ signal' = TRUE
  /\ UNCHANGED <<object, spec, diskVars, writerVars, transferVars, taskVars, lifecycleVars>>

Replace ==
  /\ object + 1 \in Version
  /\ object' = object + 1
  /\ UNCHANGED <<spec, signal, diskVars, writerVars, transferVars, taskVars, lifecycleVars>>

(* A crash keeps what was synced; of the rest, each byte and the length may *)
(* or may not have reached the disk.                                        *)
CrashFiles ==
  IF file = None
  THEN {None}
  ELSE UNION {LET Old(i) == IF i <= Len(synced) THEN synced[i] ELSE Hole
              IN {[i \in 1 .. n |-> IF i \in lost THEN Old(i) ELSE file[i]] :
                    lost \in SUBSET {i \in 1 .. n : file[i] # Old(i)}}
              : n \in Len(synced) .. Len(file)}

Crash ==
  /\ pc # "idle"
  /\ \E f \in CrashFiles : file' = f /\ synced' = f
  /\ pc' = "idle" /\ result' = "Crashed"
  /\ ResetLocals
  /\ UNCHANGED <<object, spec, control, runs>>

Single(A) == A /\ UNCHANGED lifecycleVars
Plan ==
  \/ try_resume_download \/ ResumeProbe \/ DiscardControl
  \/ probe_or_fallback_get \/ FallbackGet \/ run_fresh_from_response \/ retry_plain_get
Multi == MultiOpen \/ MultiWrite \/ MultiStop \/ MultiFail \/ MultiOk
Task == Plan \/ Multi \/ Single(SingleStep)
Next ==
  \/ run_download_inner \/ Task \/ MultiAutosave
  \/ Single(WriterWrite) \/ Single(WriterFail) \/ Single(Autosave)
  \/ UserStop \/ Replace \/ Crash

Spec == Init /\ [][Next]_vars

(* The runtime polls every task that can go on.  Save ticks come at a       *)
(* bounded rate, so the other arms of the select get their turn.            *)
Arms == Chunk \/ BodyFails \/ EndOfBody \/ StopStream \/ StopAttempt
FairSpec == Spec /\ WF_vars(Task) /\ WF_vars(Single(WriterWrite)) /\ SF_vars(Single(Arms))

-----------------------------------------------------------------------------
(* A run returns success only if the output file is, byte for byte and      *)
(* synced, one version of the object, whatever earlier runs, crashes and    *)
(* replacements of the object went before it, and no control file is left.  *)
OkMeansObject ==
  result = "Ok" =>
    /\ \E v \in Version : file = [i \in 1 .. Size[v] |-> v]
    /\ synced = file
    /\ control = None

(* At every moment, if the process dies now and the next run accepts the    *)
(* control file against the output file, every byte that run will not fetch *)
(* again is a byte of the version the control file names.                   *)
CheckpointIsTrue ==
  control # None =>
    \A f \in CrashFiles, sp \in Settings :
      sp.resume /\ validate_local_resume_state(f, control, sp)
        => \A i \in TrustedBytes(control, sp) : f[i + 1] = control.validator

(* What a run leaves behind is true: the file it calls complete, and the    *)
(* checkpoint the next run starts from.                                     *)
RunIsTrue == OkMeansObject /\ CheckpointIsTrue

(* A single-connection run that reports a stop has checkpointed every byte  *)
(* it took from the network, if it knew the size of the object.             *)
PauseKeepsReceived ==
  [][ (pc \in {"close", "final_save"} /\ result' = "Paused" /\ use_control /\ sent > 0)
        => control' # None /\ control'.downloaded_bytes = sent ]_vars

(* run_download_inner: every run ends, in success, error or stop, however   *)
(* requests, bodies and the disk fail: restarts and fallbacks draw on the   *)
(* one retry budget.                                                        *)
RunEnds == pc # "idle" ~> pc = "idle"

(* docs/advanced.md: a stop attempts to preserve resumable state.  Once a   *)
(* stop is requested, a checkpoint of the current object that fits the      *)
(* output file goes away only because the download completes.               *)
StopKeepsCheckpoint ==
  [][ (signal /\ control # None /\ control' = None /\ control.validator = object)
        => result' = "Ok" \/ ~validate_local_resume_state(file, control, spec) ]_vars
=============================================================================

------------------------------- MODULE Manager -------------------------------
(***************************************************************************)
(* Downloader::download and DownloadHandle (manager.rs): each download is  *)
(* a task that validates its configuration, waits for a concurrency permit *)
(* of a tokio semaphore while it listens for a stop request, transfers,    *)
(* verifies the checksum and publishes one terminal state in a watch       *)
(* channel.  Callbacks follow that channel from tasks of their own.        *)
(* What a transfer does is in DownloadLifecycle; here it reports progress  *)
(* and ends in one of the ways run_download_inner can.  The client cache   *)
(* is in ClientCache.                                                      *)
(***************************************************************************)
EXTENDS Naturals, FiniteSets, Sequences

CONSTANTS
  Downloads,
  Limits,           \* the values of max_concurrent_downloads a run tries
  None,
  Verified,         \* the downloads whose spec has a checksum
  Watched,          \* bound: the downloads that report progress, get callbacks, lose
                    \*   their handles, or run when no limit makes downloads interact
  HashChunks,       \* reads one checksum verification needs
  MaxReports        \* bound: progress reports of one transfer

(* What the constants have to satisfy.                                      *)
LimitsAreNumbers == Limits \subseteq Nat \cup {None}

VARIABLES
  limit,            \* max_concurrent_downloads, None for no limit
  sem,              \* the semaphore: free permits, FIFO of waiters, permits handed over
  task,             \* where the task of a download is
  hashed,           \* hash chunks read by its verification
  result,           \* what the task's inner block returned
  signal,           \* StopSignal in the cancel watch
  handle,           \* the DownloadHandle is alive
  progress,         \* the progress watch: state and version
  control,          \* the output has a control file to resume from
  callback          \* the on_progress task: place, version seen, states delivered last

vars == <<limit, sem, task, hashed, result, signal, handle, progress, control, callback>>

Stops == {"Cancel", "Pause"}
Terminal == {"Completed", "Failed", "Cancelled", "Paused"}

(* build refuses a limit of zero, which could never run a download.         *)
build(n) == n = None \/ n > 0

Init ==
  /\ limit \in {n \in Limits : build(n)}
  /\ sem = [available |-> IF limit = None THEN 0 ELSE limit, queue |-> <<>>, granted |-> {}]
  /\ task = [d \in Downloads |-> "none"]
  /\ hashed = [d \in Downloads |-> 0]
  /\ result = [d \in Downloads |-> None]
  /\ signal = [d \in Downloads |-> "Running"]
  /\ handle = [d \in Downloads |-> FALSE]
  /\ progress = [d \in Downloads |-> [state |-> "Pending", version |-> 0]]
  /\ control = [d \in Downloads |-> FALSE]
  /\ callback = [d \in Downloads |-> [pc |-> "none", seen |-> 0, told |-> None]]

stop_signal_error(s) ==
  CASE s = "Running" -> None [] s = "Cancel" -> "Cancelled" [] s = "Pause" -> "Paused"

terminal_state_for(r) ==
  CASE r = "Ok" -> "Completed" [] r \in {"Cancelled", "Paused"} -> r [] OTHER -> "Failed"

-----------------------------------------------------------------------------
(* The tokio semaphore.  A returned permit goes straight to the first       *)
(* waiter; dropping an Acquire future leaves the queue and returns a permit *)
(* that was already handed to it.                                           *)

Release(s) ==
  IF s.queue = <<>> THEN [s EXCEPT !.available = @ + 1]
  ELSE [s EXCEPT !.queue = Tail(@), !.granted = @ \cup {Head(s.queue)}]

(* A dropped waiter that forgets the permit already handed to it.           *)
KeepsGrant(s, d) ==
  IF d \in s.granted THEN [s EXCEPT !.granted = @ \ {d}]
  ELSE [s EXCEPT !.queue = SelectSeq(@, LAMBDA e : e # d)]

DropAcquire(s, d) ==
  IF d \in s.granted THEN Release([s EXCEPT !.granted = @ \ {d}])
  ELSE [s EXCEPT !.queue = SelectSeq(@, LAMBDA e : e # d)]

PermitHolders == {d \in Downloads : task[d] \in {"transfer", "verify"}}

-----------------------------------------------------------------------------
(* The handle.                                                              *)

download(d) ==
  /\ task[d] = "none" /\ (limit # None \/ d \in Watched)
  /\ task' = [task EXCEPT ![d] = "spawned"]
  /\ handle' = [handle EXCEPT ![d] = TRUE]
  /\ UNCHANGED <<limit, sem, hashed, result, signal, progress, control, callback>>

(* cancel and pause store their signal; a later one replaces an earlier,    *)
(* and nobody reads one sent to a task that has returned.  Bound: only the  *)
(* downloads in Watched are paused, every other one is only cancelled.      *)
UserStop(d, s) ==
  /\ handle[d] /\ task[d] # "done" /\ signal[d] # s /\ (s = "Cancel" \/ d \in Watched)
  /\ signal' = [signal EXCEPT ![d] = s]
  /\ UNCHANGED <<limit, sem, task, hashed, result, handle, progress, control, callback>>

(* The handle is dropped, or consumed by wait.                              *)
DropHandle(d) ==
  /\ handle[d] /\ d \in Watched
  /\ handle' = [handle EXCEPT ![d] = FALSE]
  /\ UNCHANGED <<limit, sem, task, hashed, result, signal, progress, control, callback>>

(* on_progress clones the handle's receiver, which has seen no change.      *)
on_progress(d) ==
  /\ handle[d] /\ d \in Watched /\ callback[d].pc = "none"
  /\ callback' = [callback EXCEPT ![d].pc = "waiting"]
  /\ UNCHANGED <<limit, sem, task, hashed, result, signal, handle, progress, control>>

(* changed() marks the current version as seen; the value is borrowed in a  *)
(* second step and may be newer by then.                                    *)
CallbackChanged(d) ==
  /\ callback[d].pc = "waiting" /\ callback[d].seen # progress[d].version
  /\ callback' = [callback EXCEPT ![d].pc = "woken", ![d].seen = progress[d].version]
  /\ UNCHANGED <<limit, sem, task, hashed, result, signal, handle, progress, control>>

CallbackRuns(d) ==
  /\ callback[d].pc = "woken"
  /\ callback' = [callback EXCEPT
       ![d].told = progress[d].state,
       ![d].pc = IF progress[d].state \in Terminal THEN "ended" ELSE "waiting"]
  /\ UNCHANGED <<limit, sem, task, hashed, result, signal, handle, progress, control>>

-----------------------------------------------------------------------------
(* The task.  Exit ends the inner block with a result and drops the permit. *)

Exit(d, r, s) ==
  /\ task' = [task EXCEPT ![d] = "exit"]
  /\ result' = [result EXCEPT ![d] = r]
  /\ sem' = s

(* With the permit: the client is looked up or built, then the transfer     *)
(* starts; a client that cannot be built ends the task.                     *)
Start(d, s) ==
  \E built \in BOOLEAN :
    IF built
    THEN task' = [task EXCEPT ![d] = "transfer"] /\ sem' = s /\ UNCHANGED result
    ELSE Exit(d, "Failed", IF limit = None THEN s ELSE Release(s))

(* spec.validate, then the first poll of acquire_download_permit.           *)
Validate(d) ==
  /\ task[d] = "spawned"
  /\ \/ Exit(d, "Failed", sem)
     \/ /\ limit = None
        /\ Start(d, sem)
     \/ /\ limit # None /\ signal[d] # "Running"
        /\ Exit(d, stop_signal_error(signal[d]), sem)
     \/ /\ limit # None /\ signal[d] = "Running" /\ sem.available > 0
        /\ Start(d, [sem EXCEPT !.available = @ - 1])
     \/ /\ limit # None /\ signal[d] = "Running" /\ sem.available = 0
        /\ task' = [task EXCEPT ![d] = "queued"]
        /\ sem' = [sem EXCEPT !.queue = Append(@, d)]
        /\ UNCHANGED result
  /\ UNCHANGED <<limit, hashed, signal, handle, progress, control, callback>>

(* A later poll of the biased select: the stop request first, then the      *)
(* permit.  The Acquire future is dropped when the stop wins.               *)
acquire_download_permit(d) ==
  /\ task[d] = "queued"
  /\ \/ /\ signal[d] # "Running"
        /\ Exit(d, stop_signal_error(signal[d]), DropAcquire(sem, d))
     \/ /\ signal[d] = "Running" /\ d \in sem.granted
        /\ Start(d, [sem EXCEPT !.granted = @ \ {d}])
  /\ UNCHANGED <<limit, hashed, signal, handle, progress, control, callback>>

(* The transfer loops store byte counts and set the state to Downloading.   *)
Report(d) ==
  /\ task[d] = "transfer" /\ d \in Watched /\ progress[d].version < MaxReports
  /\ progress' = [progress EXCEPT ![d] = [state |-> "Downloading", version |-> @.version + 1]]
  /\ UNCHANGED <<limit, sem, task, hashed, result, signal, handle, control, callback>>

Dropped(s) == IF limit = None THEN s ELSE Release(s)

(* run_download_inner returns.  A complete transfer has deleted its control *)
(* file; one that stopped or failed with data has saved it.                 *)
TransferEnds(d) ==
  /\ task[d] = "transfer"
  /\ \/ /\ d \in Verified
        /\ task' = [task EXCEPT ![d] = "verify"]
        /\ UNCHANGED <<sem, result, control>>
     \/ /\ d \notin Verified
        /\ Exit(d, "Ok", Dropped(sem))
        /\ UNCHANGED control
     \/ /\ \E r \in {"Failed", stop_signal_error(signal[d])} \ {None} :
             Exit(d, r, Dropped(sem))
        /\ control' = [control EXCEPT ![d] = progress[d].state = "Downloading"]
  /\ UNCHANGED <<limit, hashed, signal, handle, progress, callback>>

(* hash_and_compare: the stop request is read before every chunk; the end   *)
(* of the file decides.                                                     *)
verify_checksum(d) ==
  /\ task[d] = "verify"
  /\ \/ /\ signal[d] # "Running"
        /\ Exit(d, stop_signal_error(signal[d]), Dropped(sem))
        /\ hashed' = [hashed EXCEPT ![d] = 0]
     \/ /\ signal[d] = "Running" /\ hashed[d] < HashChunks
        /\ hashed' = [hashed EXCEPT ![d] = @ + 1]
        /\ UNCHANGED <<task, result, sem>>
     \/ /\ signal[d] = "Running" /\ hashed[d] = HashChunks
        /\ \E verdict \in {"Ok", "Failed"} : Exit(d, verdict, Dropped(sem))
        /\ hashed' = [hashed EXCEPT ![d] = 0]
  /\ UNCHANGED <<limit, signal, handle, progress, control, callback>>


(* publish_terminal_state, after the permit is gone; then the task returns. *)
publish_terminal_state(d) ==
  /\ task[d] = "exit"
  /\ progress' = [progress EXCEPT
       ![d] = [state |-> terminal_state_for(result[d]), version |-> @.version + 1]]
  /\ task' = [task EXCEPT ![d] = "done"]
  /\ UNCHANGED <<limit, sem, hashed, result, signal, handle, control, callback>>

TaskStep(d) ==
  \/ Validate(d) \/ acquire_download_permit(d) \/ TransferEnds(d) \/ verify_checksum(d)
  \/ publish_terminal_state(d)

CallbackStep(d) == CallbackChanged(d) \/ CallbackRuns(d)

Next == \E d \in Downloads :
  \/ download(d) \/ \E s \in Stops : UserStop(d, s)
  \/ DropHandle(d) \/ on_progress(d)
  \/ Report(d) \/ TaskStep(d) \/ CallbackStep(d)

(* tokio polls a woken task; a transfer ends (DownloadLifecycle: RunEnds).  *)
Fairness == \A d \in Downloads : WF_vars(TaskStep(d)) /\ WF_vars(CallbackStep(d))

Spec == Init /\ [][Next]_vars /\ Fairness

-----------------------------------------------------------------------------
(* acquire_download_permit and the drop of the permit guard: however stop   *)
(* requests, failures and handovers interleave, every permit is free,       *)
(* handed over or held by a download that is past the queue, and none is    *)
(* free while a download waits.                                             *)
PermitsAreAccounted ==
  limit # None =>
    /\ sem.available + Cardinality(sem.granted) + Cardinality(PermitHolders) = limit
    /\ sem.available > 0 => sem.queue = <<>>
    /\ \A d \in Downloads :
         task[d] = "queued" <=> d \in sem.granted \cup {sem.queue[i] : i \in DOMAIN sem.queue}


-----------------------------------------------------------------------------
(* The doc of on_progress: the callback continues "until the download       *)
(* finishes (state becomes terminal) or the handle is dropped".             *)
DroppedHandleIsQuiet ==
  [][\A d \in Downloads :
       ~handle[d] /\ callback[d].pc = "waiting" => callback'[d].pc = "waiting"]_vars

(* The doc of DownloadState::Paused: "Download was paused and resume state  *)
(* saved", for a download that had data to save.                            *)
PausedIsResumable ==
  \A d \in Downloads :
    progress[d].state = "Paused" /\ task[d] = "done" /\ progress[d].version > 1 => control[d]
=============================================================================

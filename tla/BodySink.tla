------------------------------ MODULE BodySink ------------------------------
(***************************************************************************)
(* The body of one transfer (network/curl/driver/mod.rs): libcurl's write  *)
(* callback on the driver thread fills a bounded queue, one reader on the  *)
(* tokio side empties it.  A chunk that does not fit pauses the handle;    *)
(* the reader asks for a resume by a command to the driver.                *)
(*                                                                         *)
(* The sink's mutex makes write, finish, poll and needs_resume one step    *)
(* each, but a read is three (poll, needs_resume, request_resume), and the *)
(* driver may act in between.  A chunk is the range of the body it holds.  *)
(*                                                                         *)
(* The handlers of the driver are seen from this one transfer: what they   *)
(* do to pools, counters and the address policy touches no sink, and an    *)
(* internal connect retry happens before the first byte.                   *)
(***************************************************************************)
EXTENDS Integers, Sequences

CONSTANTS
  BodyLen,        \* bytes the server sends
  MaxChunk,       \* the largest chunk libcurl delivers
  Budget          \* body_budget

ASSUME BodyAssumption ==
  /\ BodyLen \in Nat
  /\ MaxChunk \in Nat \ {0}
  /\ Budget \in Nat \ {0}

VARIABLES
  queue,                  \* chunks accepted and not read
  buffered,               \* their bytes
  terminal,               \* how the transfer ended, or "none"
  paused,
  drained_since_pause,
  paused_for_wait,        \* mirror of paused the driver reads without the lock
  notify,                 \* the permit Notify keeps
  accepted_bytes,
  attached,               \* the transfer is in its pool
  blocked,                \* length of the chunk libcurl will redeliver, or 0
  commands,               \* commands of this transfer in the driver's queue
  closed,                 \* the driver thread has exited
  reader,                 \* where the reader is
  saw_eof,
  consumed                \* bytes the reader has got

sinkVars == <<queue, buffered, terminal, paused, drained_since_pause, paused_for_wait,
              notify, accepted_bytes>>
driverVars == <<attached, blocked, closed>>
readerVars == <<reader, saw_eof, consumed>>
vars == <<sinkVars, driverVars, readerVars, commands>>

Chunk == {c \in [start : 0 .. BodyLen, end : 0 .. BodyLen] : c.start < c.end}
ChunkLen(c) == c.end - c.start

Init ==
  /\ queue = <<>>
  /\ buffered = 0
  /\ terminal = "none"
  /\ paused = FALSE
  /\ drained_since_pause = FALSE
  /\ paused_for_wait = FALSE
  /\ notify = FALSE
  /\ accepted_bytes = 0
  /\ attached = TRUE
  /\ blocked = 0
  /\ commands = <<>>
  /\ closed = FALSE
  /\ reader = "idle"
  /\ saw_eof = FALSE
  /\ consumed = 0

(* CommandQueue::send drops the command once the queue is closed.           *)
send(cmds) == commands' = IF closed THEN commands ELSE commands \o cmds

-----------------------------------------------------------------------------
(* The driver thread.                                                       *)

MustPause(n) == terminal # "none" \/ (queue # <<>> /\ buffered + n > Budget)

start_pause ==
  /\ paused' = TRUE
  /\ drained_since_pause' = FALSE
  /\ paused_for_wait' = TRUE

(* BodySink::write of the next n bytes.  libcurl keeps a refused chunk and  *)
(* redelivers it after the handle is unpaused.                              *)
write(n) ==
  IF MustPause(n)
    THEN /\ start_pause
         /\ blocked' = n
         /\ UNCHANGED <<queue, buffered, notify, accepted_bytes>>
    ELSE /\ queue' = Append(queue, [start |-> accepted_bytes, end |-> accepted_bytes + n])
         /\ buffered' = buffered + n
         /\ accepted_bytes' = accepted_bytes + n
         /\ notify' = TRUE
         /\ blocked' = 0
         /\ UNCHANGED <<paused, drained_since_pause, paused_for_wait>>

Deliver ==
  /\ attached /\ blocked = 0
  /\ \E n \in 1 .. MaxChunk : accepted_bytes + n <= BodyLen /\ write(n)
  /\ UNCHANGED <<terminal, attached, closed, commands, readerVars>>

(* Mutant: the end of the transfer does not notify the reader.              *)
finishSilently(how) ==
  /\ terminal' = IF terminal = "none" THEN how ELSE terminal
  /\ UNCHANGED notify

(* BodySink::finish: the first terminal state stays.                        *)
finish(how) ==
  /\ terminal' = IF terminal = "none" THEN how ELSE terminal
  /\ notify' = (notify \/ terminal = "none")

(* The transfer leaves its pool and its sink ends, with or without          *)
(* discard_buffer before.                                                   *)
EndTransfer(how) ==
  /\ attached' = FALSE
  /\ blocked' = 0
  /\ finish(how)
  /\ UNCHANGED <<paused, drained_since_pause, paused_for_wait, accepted_bytes>>

discard_buffer == queue' = <<>> /\ buffered' = 0

(* complete_transfer.  libcurl reports success once the body was accepted,  *)
(* and may give up at any time, a paused transfer included.                 *)
complete_transfer(how) ==
  /\ attached
  /\ how = "Eof" => accepted_bytes = BodyLen
  /\ EndTransfer(how)
  /\ UNCHANGED <<queue, buffered, closed, commands, readerVars>>

(* fail_pool: a Multi that cannot perform loses its transfers and what they *)
(* buffered.                                                                *)
fail_pool ==
  /\ attached
  /\ EndTransfer("Failed")
  /\ discard_buffer
  /\ UNCHANGED <<closed, commands, readerVars>>

(* The thread unwinds, or leaves run_driver, which it does only when nobody *)
(* holds a stream.  What is in flight is failed or cancelled (ExitGuard,    *)
(* the end of run_driver) and the queue is closed.                          *)
DriverExits ==
  /\ ~closed
  /\ IF attached
       THEN EndTransfer(IF reader = "dropped" THEN "Cancelled" ELSE "Failed")
       ELSE UNCHANGED <<attached, blocked, terminal, paused, drained_since_pause,
                        paused_for_wait, notify, accepted_bytes>>
  /\ closed' = TRUE
  /\ commands' = <<>>
  /\ UNCHANGED <<queue, buffered, readerVars>>

HandleCommand(command) ==
  /\ commands # <<>> /\ Head(commands) = command
  /\ commands' = Tail(commands)
  /\ UNCHANGED <<closed, readerVars>>

(* resume_transfer: unpause_write re-enters the write callback with the     *)
(* chunk that was refused.                                                  *)
resume_transfer ==
  /\ HandleCommand("Resume")
  /\ IF attached /\ blocked > 0
       THEN write(blocked) /\ UNCHANGED <<terminal, attached>>
       ELSE UNCHANGED <<sinkVars, attached, blocked>>

cancel_transfer ==
  /\ HandleCommand("Cancel")
  /\ IF attached
       THEN EndTransfer("Cancelled") /\ discard_buffer
       ELSE UNCHANGED <<sinkVars, attached, blocked>>

-----------------------------------------------------------------------------
(* The reader: next_chunk, and the drop of the stream between two calls or  *)
(* while a call waits.                                                      *)
Goto(where) == reader' = where

MarkDrained == drained_since_pause' = (drained_since_pause \/ paused)

ClearPause ==
  /\ paused' = FALSE
  /\ drained_since_pause' = FALSE
  /\ paused_for_wait' = FALSE

poll ==
  /\ reader \in {"idle", "polling"}
  /\ \/ /\ queue # <<>>
        /\ queue' = Tail(queue)
        /\ buffered' = buffered - ChunkLen(Head(queue))
        /\ MarkDrained
        /\ consumed' = consumed + ChunkLen(Head(queue))
        /\ Goto("popped")
        /\ UNCHANGED saw_eof
     \/ /\ queue = <<>> /\ terminal # "none"
        /\ saw_eof' = (terminal = "Eof")
        /\ Goto(IF terminal = "Eof" THEN "eof" ELSE "error")
        /\ UNCHANGED <<queue, buffered, drained_since_pause, consumed>>
     \/ /\ queue = <<>> /\ terminal = "none"
        /\ Goto("waiting")
        /\ UNCHANGED <<queue, buffered, drained_since_pause, consumed, saw_eof>>
  /\ UNCHANGED <<terminal, paused, paused_for_wait, notify, accepted_bytes, driverVars,
                 commands>>

needs_resume == paused /\ drained_since_pause

(* The call of needs_resume after a chunk was taken.                        *)
CheckPause ==
  /\ reader = "popped"
  /\ IF needs_resume
       THEN ClearPause /\ Goto("resuming")
       ELSE Goto("idle") /\ UNCHANGED <<paused, drained_since_pause, paused_for_wait>>
  /\ UNCHANGED <<queue, buffered, terminal, notify, accepted_bytes, driverVars, commands,
                 saw_eof, consumed>>

(* Outside the lock; then the chunk is returned.                            *)
request_resume ==
  /\ reader = "resuming"
  /\ send(<<"Resume">>)
  /\ Goto("idle")
  /\ UNCHANGED <<sinkVars, driverVars, saw_eof, consumed>>

Notified ==
  /\ reader = "waiting" /\ notify
  /\ notify' = FALSE
  /\ Goto("polling")
  /\ UNCHANGED <<queue, buffered, terminal, paused, drained_since_pause, paused_for_wait,
                 accepted_bytes, driverVars, commands, saw_eof, consumed>>

(* read_timeout: the caller gets an error.                                  *)
ReadTimeout ==
  /\ reader = "waiting"
  /\ Goto("error")
  /\ UNCHANGED <<sinkVars, driverVars, commands, saw_eof, consumed>>

(* Mutant: the stream is dropped without a cancel.                          *)
DropStreamSilently ==
  /\ reader \in {"idle", "waiting", "eof", "error"}
  /\ Goto("dropped")
  /\ send(<<"BodyDone">>)
  /\ UNCHANGED <<sinkVars, driverVars, saw_eof, consumed>>

(* Drop for BodyStream: BodyDone, and Cancel unless the end was read.       *)
DropStream ==
  /\ reader \in {"idle", "waiting", "eof", "error"}
  /\ Goto("dropped")
  /\ send(IF saw_eof THEN <<"BodyDone">> ELSE <<"BodyDone", "Cancel">>)
  /\ UNCHANGED <<sinkVars, driverVars, saw_eof, consumed>>

(* BodyDone concerns the address policy only.                               *)
HandleBodyDone ==
  /\ HandleCommand("BodyDone")
  /\ UNCHANGED <<sinkVars, attached, blocked>>

-----------------------------------------------------------------------------
DriverHandles == resume_transfer \/ cancel_transfer \/ HandleBodyDone
Reads == poll \/ CheckPause \/ request_resume \/ Notified

Next ==
  \/ DriverHandles \/ Deliver \/ complete_transfer("Eof")
  \/ complete_transfer("Failed") \/ fail_pool \/ DriverExits
  \/ Reads \/ ReadTimeout \/ DropStream

(* The driver thread loops over its commands and its sockets, the server    *)
(* goes on sending, and the reader's task is polled when it can go on.      *)
(* Nothing makes a timeout, a drop or a failure happen.                     *)
Spec ==
  /\ Init /\ [][Next]_vars
  /\ WF_vars(DriverHandles)
  /\ WF_vars(Deliver)
  /\ WF_vars(complete_transfer("Eof"))
  /\ WF_vars(Reads)

-----------------------------------------------------------------------------
Pending(command) == \E i \in 1 .. Len(commands) : commands[i] = command
ResumeDue == reader = "resuming" \/ Pending("Resume")
OneResume ==
  \A i, j \in 1 .. Len(commands) : commands[i] = "Resume" /\ commands[j] = "Resume" => i = j

(* Every variable has its type.                                             *)
TypeOK ==
  /\ queue \in Seq(Chunk)
  /\ buffered \in Nat
  /\ terminal \in {"none", "Eof", "Failed", "Cancelled"}
  /\ paused \in BOOLEAN /\ drained_since_pause \in BOOLEAN
  /\ paused_for_wait \in BOOLEAN /\ notify \in BOOLEAN
  /\ accepted_bytes \in 0 .. BodyLen
  /\ attached \in BOOLEAN /\ closed \in BOOLEAN
  /\ blocked \in 0 .. MaxChunk
  /\ commands \in Seq({"Resume", "Cancel", "BodyDone"})
  /\ reader \in {"idle", "polling", "popped", "resuming", "waiting", "eof", "error",
                 "dropped"}
  /\ saw_eof \in BOOLEAN
  /\ consumed \in 0 .. BodyLen

(* "This keeps the byte stream exact" (doc of BodySink): what the reader    *)
(* got, then the queue, are the accepted bytes in order, each once, through *)
(* pauses and redeliveries; only a failed or cancelled transfer loses the   *)
(* rest.                                                                    *)
StreamIsExact ==
  /\ \A i \in 1 .. Len(queue) :
       queue[i].start = IF i = 1 THEN consumed ELSE queue[i - 1].end
  /\ IF queue = <<>>
       THEN consumed = accepted_bytes \/ terminal \in {"Failed", "Cancelled"}
       ELSE queue[Len(queue)].end = accepted_bytes
  /\ buffered = IF queue = <<>> THEN 0 ELSE accepted_bytes - consumed

(* A clean end of the body means that the reader has all of it: the last    *)
(* chunk and the end may be published back to back, and a failure never     *)
(* turns "into an apparently clean EOF" (doc of poll).                      *)
EofMeansWhole == saw_eof => consumed = BodyLen

(* A blocked handle is never forgotten: there is something to read, whose   *)
(* reading will resume it, or a resume or a cancel is on its way.           *)
BlockedIsResumed ==
  attached /\ blocked > 0 =>
    \/ queue # <<>> /\ paused /\ reader # "dropped"
    \/ reader = "popped" /\ needs_resume
    \/ ResumeDue \/ Pending("Cancel")

(* The pause flag, and its mirror that selects the pool to wait on, follow  *)
(* libcurl's handle although both threads write them; and "the driver is    *)
(* asked to unpause only once" (doc of needs_resume).                       *)
FlagsFollowHandle ==
  attached =>
    /\ paused_for_wait = paused
    /\ blocked > 0 <=> (paused \/ ResumeDue)
    /\ OneResume /\ ~(reader = "resuming" /\ Pending("Resume"))

(* "A notification that races with the check above still wakes this wait"   *)
(* (next_chunk).                                                            *)
WakeupIsKept ==
  reader = "waiting" /\ (queue # <<>> \/ terminal # "none") => notify

(* The stream between driver and reader as a whole: its content, its end,   *)
(* its pauses and its wake-ups.                                             *)
SinkIsSound ==
  StreamIsExact /\ EofMeansWhole /\ BlockedIsResumed /\ FlagsFollowHandle /\ WakeupIsKept

(* Without any timeout the reader comes to the end of the body: it never    *)
(* waits for a driver that waits for it.                                    *)
ReaderEnds == <>(reader \in {"eof", "error", "dropped"})

(* A dropped stream does not leave its transfer running ("Dropping the      *)
(* stream before EOF cancels the transfer").                                *)
AbandonedIsCancelled == (reader = "dropped") ~> ~attached

(* Neither side waits for ever for the other: a reader reaches the end, and *)
(* a stream that was dropped ends its transfer.                             *)
StreamsEnd == ReaderEnds /\ AbandonedIsCancelled
=============================================================================

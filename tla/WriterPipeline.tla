--------------------------- MODULE WriterPipeline ----------------------------
(***************************************************************************)
(* Producers feeding the writer: one lease attempt after another sends its *)
(* body in chunks (MemoryBudget::forward_observed), each of which waits    *)
(* for budget permits and then for a channel slot, and ends behind a FIFO  *)
(* barrier (flush_lease_and_wait, discard_lease_and_wait).  An attempt may *)
(* be interrupted at every wait; the next one starts where the confirmed   *)
(* prefix ends.  Producer p downloads piece p.                             *)
(***************************************************************************)
EXTENDS Writer

CONSTANT
  MaxAttempts        \* bound: lease attempts of one producer

Producer == Pieces
Attempt == 1 .. MaxAttempts

(* What the constants have to satisfy.                                      *)
KeyAssumption == LeaseKey = Producer \X Attempt

VARIABLES
  pc,           \* what each producer waits for
  attempt,      \* its current lease attempt
  from,         \* where the attempt starts
  forwarded,    \* bytes of the attempt enqueued
  held,         \* permits taken for a chunk that is not enqueued yet
  waiters       \* FIFO queue of the budget semaphore: <<producer, chunk>>

vars == <<writerVars, pc, attempt, from, forwarded, held, waiters>>
producerVars == <<pc, attempt, from, forwarded, held, waiters>>
bufferVars == <<active_leases, expected, cache, single, permits, file, synced,
                written_bytes, flush_all_ack, writer>>

Key(p) == <<p, attempt[p]>>
Position(p) == from[p] + forwarded[p]
Goto(p, where) == pc' = [pc EXCEPT ![p] = where]

Init ==
  /\ WriterInit
  /\ pc = [p \in Producer |-> "begin"]
  /\ attempt = [p \in Producer |-> 1]
  /\ from = [p \in Producer |-> PieceStart(p)]
  /\ forwarded = [p \in Producer |-> 0]
  /\ held = [p \in Producer |-> 0]
  /\ waiters = <<>>

-----------------------------------------------------------------------------
begin_lease_and_wait(p) ==
  /\ pc[p] = "begin"
  /\ Send(BeginLease(Key(p)))
  /\ Goto(p, "reading")
  /\ UNCHANGED <<bufferVars, acks, attempt, from, forwarded, held, waiters>>

(* A body frame arrives and is cut to max_chunk and to the lease's end.     *)
ReadChunk(p) ==
  /\ pc[p] = "reading"
  /\ \E len \in 1 .. MinOf(max_chunk, PieceEnd(p) - Position(p)) :
       waiters' = Append(waiters, <<p, len>>)
  /\ Goto(p, "memory")
  /\ UNCHANGED <<writerVars, attempt, from, forwarded, held>>

(* The semaphore serves its waiters in order.                               *)
AcquireBudget(p) ==
  /\ pc[p] = "memory"
  /\ Head(waiters)[1] = p
  /\ HeldPermits + MapThenSumSet(LAMBDA q : held[q], Producer) + Head(waiters)[2]
       <= MemoryBudget
  /\ held' = [held EXCEPT ![p] = Head(waiters)[2]]
  /\ waiters' = Tail(waiters)
  /\ Goto(p, "channel")
  /\ UNCHANGED <<writerVars, attempt, from, forwarded>>

(* reserve and send; the permits travel with the data.                      *)
EnqueueChunk(p) ==
  /\ pc[p] = "channel"
  /\ Send(Data(Key(p), Position(p), held[p]))
  /\ forwarded' = [forwarded EXCEPT ![p] = @ + held[p]]
  /\ held' = [held EXCEPT ![p] = 0]
  /\ Goto(p, "reading")
  /\ UNCHANGED <<bufferVars, acks, attempt, from, waiters>>

(* The body fails, is cancelled by recovery, or a stop request arrives: the *)
(* pending wait is dropped with what it holds.                              *)
Interrupt(p) ==
  /\ pc[p] \in {"reading", "memory", "channel"}
  /\ attempt[p] < MaxAttempts
  /\ waiters' = SelectSeq(waiters, LAMBDA w : w[1] # p)
  /\ held' = [held EXCEPT ![p] = 0]
  /\ Goto(p, "settle")
  /\ UNCHANGED <<writerVars, attempt, from, forwarded>>

(* A complete body is flushed; settle_prefix flushes or discards the prefix *)
(* of an interrupted one.                                                   *)
SendBarrier(p) ==
  /\ \/ /\ pc[p] = "reading" /\ Position(p) = PieceEnd(p)
        /\ Send(FlushLease(Key(p)))
        /\ Goto(p, "flushing")
     \/ /\ pc[p] = "settle" /\ forwarded[p] > 0 /\ Position(p) < PieceEnd(p)
        /\ Send(FlushLease(Key(p)))
        /\ Goto(p, "flushing")
     \/ /\ pc[p] = "settle"
        /\ Send(DiscardLease(Key(p)))
        /\ Goto(p, "discarding")
  /\ UNCHANGED <<bufferVars, acks, attempt, from, forwarded, held, waiters>>

(* Mutant: the prefix is confirmed without waiting for the writer.          *)
BarrierUnacknowledged(p) ==
  LET next == IF pc[p] = "flushing" THEN Position(p) ELSE from[p]
  IN /\ pc[p] \in {"flushing", "discarding"}
     /\ from' = [from EXCEPT ![p] = next]
     /\ forwarded' = [forwarded EXCEPT ![p] = 0]
     /\ IF next = PieceEnd(p)
          THEN Goto(p, "done") /\ UNCHANGED attempt
          ELSE Goto(p, "begin") /\ attempt' = [attempt EXCEPT ![p] = @ + 1]
     /\ UNCHANGED <<bufferVars, chan, acks, held, waiters>>

(* The acknowledgement: the flushed prefix is confirmed, and what is left   *)
(* is fetched under a fresh lease.                                          *)
BarrierAcknowledged(p) ==
  LET next == IF pc[p] = "flushing" THEN Position(p) ELSE from[p]
  IN /\ pc[p] \in {"flushing", "discarding"}
     /\ Key(p) \in acks
     /\ acks' = acks \ {Key(p)}
     /\ from' = [from EXCEPT ![p] = next]
     /\ forwarded' = [forwarded EXCEPT ![p] = 0]
     /\ IF next = PieceEnd(p)
          THEN Goto(p, "done") /\ UNCHANGED attempt
          ELSE Goto(p, "begin") /\ attempt' = [attempt EXCEPT ![p] = @ + 1]
     /\ UNCHANGED <<bufferVars, chan, held, waiters>>

(* Every wait also watches the channel being closed by a failed writer.     *)
ChannelClosed(p) ==
  /\ writer \notin {"running", "closed"}
  /\ pc[p] \notin {"done", "failed"}
  /\ Goto(p, "failed")
  /\ held' = [held EXCEPT ![p] = 0]
  /\ waiters' = SelectSeq(waiters, LAMBDA w : w[1] # p)
  /\ UNCHANGED <<writerVars, attempt, from, forwarded>>

AllEnded == \A p \in Producer : pc[p] \in {"done", "failed"}

WriterStep ==
  /\ \/ WriterNext
     \/ AllEnded /\ (FinishWriting \/ FinishError)
  /\ UNCHANGED producerVars

ProducerStep(p) ==
  \/ begin_lease_and_wait(p) \/ ReadChunk(p) \/ AcquireBudget(p) \/ EnqueueChunk(p)
  \/ SendBarrier(p) \/ BarrierAcknowledged(p) \/ ChannelClosed(p)

Next ==
  \/ WriterStep
  \/ \E p \in Producer : ProducerStep(p) \/ Interrupt(p)

(* tokio keeps polling every task that can make progress.                   *)
Spec ==
  /\ Init /\ [][Next]_vars
  /\ WF_vars(WriterStep)
  /\ \A p \in Producer : WF_vars(ProducerStep(p))

-----------------------------------------------------------------------------
(* No producer waits for ever on the budget, on a channel slot or on an     *)
(* acknowledgement, and the writer finishes: the watermark leaves room for  *)
(* the largest chunk even when the semaphore serves waiters strictly in     *)
(* order.                                                                   *)
PipelineDrains == <>(AllEnded /\ writer # "running")

(* Bytes in memory (chunks holding permits, queued data, writer buffers)    *)
(* never exceed memory_budget.                                              *)
MemoryWithinBudget ==
  MapThenSumSet(LAMBDA p : held[p], Producer) + QueuedBytes + Cardinality(cache)
    <= MemoryBudget

(* Attempts that end behind a barrier never make the writer see data that   *)
(* does not continue its lease, nor data of a retired lease.                *)
DataIsInOrder ==
  /\ writer # "rejected"
  /\ \A i \in DOMAIN chan :
       chan[i].op = "Data" =>
         \/ chan[i].lease \in active_leases
         \/ \E j \in 1 .. i - 1 : chan[j] = BeginLease(chan[i].lease)

(* A confirmed prefix (what a later attempt or a completion bit relies on)  *)
(* is in the file, as long as the writer has not failed.                    *)
ConfirmedIsWritten ==
  writer \in {"running", "closed"} =>
    \A p \in Producer : PieceStart(p) .. from[p] - 1 \subseteq file

(* The pipeline as a whole: bounded memory, data in order, and a lease is   *)
(* confirmed only for bytes that are in the file.                           *)
PipelineIsSound == MemoryWithinBudget /\ DataIsInOrder /\ ConfirmedIsWritten
=============================================================================

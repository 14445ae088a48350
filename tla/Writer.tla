------------------------------- MODULE Writer --------------------------------
(***************************************************************************)
(* The writer task (storage/writer.rs), its write-back cache               *)
(* (storage/cache.rs) and the geometry of the memory budget                *)
(* (session/flow.rs).  The task owns the output file and handles one       *)
(* command of a bounded FIFO channel at a time.                            *)
(*                                                                         *)
(* What a body contains is fixed by its offset, so blocks are sets of byte *)
(* positions.  The cache is a set of pairs of a lease and a byte.          *)
(***************************************************************************)
EXTENDS PieceMap, Sequences, FiniteSetsExt

CONSTANTS
  LeaseKey,           \* identities of lease attempts
  NoLease,            \* the key of single-connection data
  ChannelBuffer,      \* channel_buffer
  MemoryBudget,       \* memory_budget, in bytes
  SingleBatch         \* 256 KiB in the code

ASSUME WriterAssumption ==
  /\ NoLease \notin LeaseKey
  /\ ChannelBuffer \in Nat \ {0}
  /\ MemoryBudget \in Nat \ {0}
  /\ SingleBatch \in Nat \ {0}

VARIABLES
  chan,             \* commands sent and not yet received
  active_leases,    \* leases begun and not retired
  expected,         \* the offset an active lease must continue at, or NoOffset
  cache,            \* WriteBackCache
  single,           \* the contiguous buffer of a single-connection body
  permits,          \* key -> budget permits kept for buffered bytes
  file,             \* bytes handed to the output file
  synced,           \* bytes of it that survive a crash
  written_bytes,    \* high-water mark of the file
  acks,             \* leases whose flush or discard was acknowledged
  flush_all_ack,    \* written_bytes of an unread FlushAll acknowledgement, or NoOffset
  writer            \* "running", "closed", or "io_error" / "rejected" on failure

writerVars == <<chan, active_leases, expected, cache, single, permits, file, synced,
                written_bytes, acks, flush_all_ack, writer>>

NoOffset == -1
Keys == LeaseKey \cup {NoLease}
Command ==
  [op : {"BeginLease", "FlushLease", "DiscardLease"}, lease : LeaseKey]
    \cup [op : {"Data"}, lease : Keys, offset : Bytes, len : 1 .. TotalSize]
    \cup [op : {"FlushAll"}]

BeginLease(l) == [op |-> "BeginLease", lease |-> l]
Data(l, offset, len) == [op |-> "Data", lease |-> l, offset |-> offset, len |-> len]
FlushLease(l) == [op |-> "FlushLease", lease |-> l]
DiscardLease(l) == [op |-> "DiscardLease", lease |-> l]
FlushAll == [op |-> "FlushAll"]

WriterInit ==
  /\ chan = <<>>
  /\ active_leases = {}
  /\ expected = [l \in LeaseKey |-> NoOffset]
  /\ cache = {}
  /\ single = {}
  /\ permits = [k \in Keys |-> 0]
  /\ file = {}
  /\ synced = {}
  /\ written_bytes = 0
  /\ acks = {}
  /\ flush_all_ack = NoOffset
  /\ writer = "running"

-----------------------------------------------------------------------------
(* Mutant: the whole budget may be buffered before a flush.                 *)
WatermarkWholeBudget == MemoryBudget

(* MemoryBudget::new.                                                       *)
max_chunk == div_ceil(MemoryBudget, 2)
watermark == MaxOf(MemoryBudget \div 2, 1)

(* Budget bytes that travel with queued data or stay with buffered data.    *)
QueuedBytes ==
  LET queued == {i \in DOMAIN chan : chan[i].op = "Data"}
  IN MapThenSumSet(LAMBDA i : chan[i].len, queued)
HeldPermits == QueuedBytes + MapThenSumSet(LAMBDA k : permits[k], Keys)

(* An mpsc send: it waits for a free slot, and fails once the receiver is   *)
(* gone.                                                                    *)
CanSend == writer = "running" /\ Len(chan) < ChannelBuffer
Send(cmd) == CanSend /\ chan' = Append(chan, cmd)

CachedBytes(c, l) == {b \in Bytes : <<l, b>> \in c}
AllCached(c) == {x[2] : x \in c}
DataBytes(cmd) == cmd.offset .. cmd.offset + cmd.len - 1

(* write_block for every block of bytes.                                    *)
WriteBlocks(bytes) ==
  /\ file' = file \cup bytes
  /\ written_bytes' = IF bytes = {} THEN written_bytes
                                    ELSE MaxOf(written_bytes, Max(bytes) + 1)

(* Returning an error drops the task: queued commands, buffers and permits  *)
(* go with it, and their senders see a closed channel.                      *)
Fail(how) ==
  /\ writer' = how
  /\ chan' = <<>>
  /\ active_leases' = {}
  /\ expected' = [l \in LeaseKey |-> NoOffset]
  /\ cache' = {}
  /\ single' = {}
  /\ permits' = [k \in Keys |-> 0]
  /\ UNCHANGED <<synced, acks, flush_all_ack>>

-----------------------------------------------------------------------------
Receive(op) == writer = "running" /\ chan # <<>> /\ Head(chan).op = op

RecvBeginLease ==
  /\ Receive("BeginLease")
  /\ chan' = Tail(chan)
  /\ active_leases' = active_leases \cup {Head(chan).lease}
  /\ expected' = [expected EXCEPT ![Head(chan).lease] = NoOffset]
  /\ UNCHANGED <<cache, single, permits, file, synced, written_bytes, acks,
                 flush_all_ack, writer>>

(* Permits once a buffered single body, if any, has been written.           *)
NoPermits == [k \in Keys |-> 0]
SingleFlushed == IF single = {} THEN permits ELSE [permits EXCEPT ![NoLease] = 0]

(* Data of a lease continues what the lease wrote and buffered before.      *)
Continues(cmd) ==
  /\ expected[cmd.lease] \in {NoOffset, cmd.offset}
  /\ CachedBytes(cache, cmd.lease) # {}
       => cmd.offset = Max(CachedBytes(cache, cmd.lease)) + 1

(* Data of an active lease: single data buffered before is written, the     *)
(* bytes join the cache, and a cache at its watermark is written out.       *)
RecvLeaseData ==
  /\ Receive("Data")
  /\ LET cmd == Head(chan)
         cached == cache \cup ({cmd.lease} \X DataBytes(cmd))
         full == Cardinality(cached) >= watermark
     IN /\ cmd.lease \in active_leases
        /\ Continues(cmd)
        /\ expected' = [expected EXCEPT ![cmd.lease] = cmd.offset + cmd.len]
        /\ WriteBlocks(single \cup (IF full THEN AllCached(cached) ELSE {}))
        /\ cache' = IF full THEN {} ELSE cached
        /\ permits' = IF full THEN NoPermits
                              ELSE [SingleFlushed EXCEPT ![cmd.lease] = @ + cmd.len]
  /\ single' = {}
  /\ chan' = Tail(chan)
  /\ UNCHANGED <<active_leases, synced, acks, flush_all_ack, writer>>

(* A NonContiguousWrite error ends the task.                                *)
RejectLeaseData ==
  /\ Receive("Data")
  /\ Head(chan).lease \in active_leases
  /\ ~Continues(Head(chan))
  /\ WriteBlocks(single)
  /\ Fail("rejected")

(* Data of a retired lease is dropped with its permits.                     *)
DropLeaseData ==
  /\ Receive("Data")
  /\ Head(chan).lease \in LeaseKey \ active_leases
  /\ LET full == Cardinality(cache) >= watermark
     IN /\ WriteBlocks(single \cup (IF full THEN AllCached(cache) ELSE {}))
        /\ cache' = IF full THEN {} ELSE cache
        /\ permits' = IF full THEN NoPermits
                              ELSE [SingleFlushed EXCEPT ![Head(chan).lease] = 0]
  /\ single' = {}
  /\ chan' = Tail(chan)
  /\ UNCHANGED <<active_leases, expected, synced, acks, flush_all_ack, writer>>

(* Single-connection data.  The buffer is written first when the chunk does *)
(* not continue it, and lease data always is.  Then the chunk joins the     *)
(* buffer, unless it is large enough (buffer_single) to be written at once, *)
(* and a full buffer is written.                                            *)
RecvSingleData ==
  /\ Receive("Data")
  /\ LET cmd == Head(chan)
         continues == single # {} /\ cmd.offset = Max(single) + 1
         kept == IF cache = {} /\ continues THEN single ELSE {}
         joined == kept \cup DataBytes(cmd)
         batched == \/ cmd.len >= MinOf(SingleBatch, watermark)
                    \/ Cardinality(joined) >= SingleBatch
         full == ~batched /\ Cardinality(joined) >= watermark
         before == IF cache # {} THEN NoPermits
                   ELSE IF continues THEN permits ELSE SingleFlushed
     IN /\ cmd.lease = NoLease
        /\ WriteBlocks(AllCached(cache) \cup (single \ kept)
                         \cup (IF batched \/ full THEN joined ELSE {}))
        /\ single' = IF batched \/ full THEN {} ELSE joined
        /\ permits' = IF full THEN NoPermits
                      ELSE IF batched THEN [before EXCEPT ![NoLease] = 0]
                      ELSE [before EXCEPT ![NoLease] = @ + cmd.len]
  /\ cache' = {}
  /\ chan' = Tail(chan)
  /\ UNCHANGED <<active_leases, expected, synced, acks, flush_all_ack, writer>>

-----------------------------------------------------------------------------
RecvFlushLease ==
  /\ Receive("FlushLease")
  /\ LET l == Head(chan).lease
     IN /\ WriteBlocks(CachedBytes(cache, l))
        /\ cache' = {x \in cache : x[1] # l}
        /\ permits' = [permits EXCEPT ![l] = 0]
        /\ active_leases' = active_leases \ {l}
        /\ expected' = [expected EXCEPT ![l] = NoOffset]
        /\ acks' = acks \cup {l}
  /\ chan' = Tail(chan)
  /\ UNCHANGED <<single, synced, flush_all_ack, writer>>

(* Mutant: a discard forgets the permits.                                   *)
RecvDiscardLeaseKeepsPermits ==
  /\ Receive("DiscardLease")
  /\ LET l == Head(chan).lease
     IN /\ active_leases' = active_leases \ {l}
        /\ expected' = [expected EXCEPT ![l] = NoOffset]
        /\ cache' = {x \in cache : x[1] # l}
        /\ acks' = acks \cup {l}
  /\ chan' = Tail(chan)
  /\ UNCHANGED <<single, permits, file, synced, written_bytes, flush_all_ack, writer>>

RecvDiscardLease ==
  /\ Receive("DiscardLease")
  /\ LET l == Head(chan).lease
     IN /\ active_leases' = active_leases \ {l}
        /\ expected' = [expected EXCEPT ![l] = NoOffset]
        /\ cache' = {x \in cache : x[1] # l}
        /\ permits' = [permits EXCEPT ![l] = 0]
        /\ acks' = acks \cup {l}
  /\ chan' = Tail(chan)
  /\ UNCHANGED <<single, file, synced, written_bytes, flush_all_ack, writer>>

(* flush_all, file flush and sync_data.                                     *)
FlushAndSync ==
  /\ WriteBlocks(single \cup AllCached(cache))
  /\ synced' = file'
  /\ cache' = {}
  /\ single' = {}
  /\ permits' = NoPermits

RecvFlushAll ==
  /\ Receive("FlushAll")
  /\ FlushAndSync
  /\ flush_all_ack' = written_bytes'
  /\ chan' = Tail(chan)
  /\ UNCHANGED <<active_leases, expected, acks, writer>>

(* Every sender is gone and the channel is drained.                         *)
FinishWriting ==
  /\ writer = "running" /\ chan = <<>>
  /\ FlushAndSync
  /\ writer' = "closed"
  /\ UNCHANGED <<chan, active_leases, expected, acks, flush_all_ack>>

(* A write, flush or sync fails.  tokio::fs::File reports a failed write on *)
(* a later call, so of the bytes that were not synced any may be missing.   *)
Flushes(cmd) ==
  \/ cmd.op = "FlushAll"
  \/ cmd.op = "FlushLease" /\ CachedBytes(cache, cmd.lease) # {}
  \/ cmd.op = "Data" /\ Cardinality(cache) + Cardinality(single) + cmd.len >= watermark

IoError ==
  /\ \E got \in SUBSET ((file \ synced) \cup single \cup AllCached(cache)) :
       /\ file' = synced \cup got
       /\ written_bytes' = Max({written_bytes} \cup {b + 1 : b \in got})
  /\ Fail("io_error")

WriteError == writer = "running" /\ chan # <<>> /\ Flushes(Head(chan)) /\ IoError
FinishError == writer = "running" /\ chan = <<>> /\ IoError

WriterNext ==
  \/ RecvBeginLease
  \/ RecvLeaseData \/ RejectLeaseData \/ DropLeaseData \/ RecvSingleData
  \/ RecvFlushLease \/ RecvDiscardLease \/ RecvFlushAll
  \/ WriteError

-----------------------------------------------------------------------------
(* Every variable has its type.                                             *)
WriterTypeOK ==
  /\ chan \in Seq(Command) /\ Len(chan) <= ChannelBuffer
  /\ active_leases \subseteq LeaseKey
  /\ expected \in [LeaseKey -> NoOffset .. TotalSize]
  /\ cache \subseteq LeaseKey \X Bytes
  /\ single \subseteq Bytes
  /\ permits \in [Keys -> Nat]
  /\ file \subseteq Bytes /\ synced \subseteq file
  /\ written_bytes \in 0 .. TotalSize
  /\ acks \subseteq LeaseKey
  /\ flush_all_ack \in NoOffset .. TotalSize
  /\ writer \in {"running", "closed", "io_error", "rejected"}

(* "Maximum bytes to buffer before forcing a flush" (writer.rs), and the    *)
(* promise of MemoryBudget: below the watermark there is room for one more  *)
(* chunk of the largest size.                                               *)
RoomForOneChunk ==
  /\ Cardinality(cache) + Cardinality(single) < watermark
  /\ MemoryBudget - (Cardinality(cache) + Cardinality(single)) >= max_chunk

(* The permits the writer keeps are exactly those of the bytes it buffers:  *)
(* no path (flush, watermark, discard, dropped data) leaks a permit or      *)
(* frees the permit of a byte that is still in memory.                      *)
PermitsMatchBuffers ==
  /\ permits[NoLease] = Cardinality(single)
  /\ \A l \in LeaseKey : permits[l] = Cardinality(CachedBytes(cache, l))

(* Only active leases have buffered bytes, and they are the bytes just      *)
(* before the offset the lease must continue at.                            *)
BuffersBelongToActiveLeases ==
  \A l \in LeaseKey :
    LET c == CachedBytes(cache, l)
    IN c # {} => /\ l \in active_leases
                 /\ c = Min(c) .. Max(c)
                 /\ expected[l] \in {NoOffset, Max(c) + 1}
=============================================================================

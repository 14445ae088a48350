--------------------------- MODULE BodySinkProofs ---------------------------
(***************************************************************************)
(* Proofs about BodySink for bodies, chunks and budgets of every size.     *)
(***************************************************************************)
EXTENDS BodySink, SequenceTheorems, TLAPS

Command == {"Resume", "Cancel", "BodyDone"}

(* What makes the properties inductive: the transfer is in its pool until   *)
(* its sink ends, it ends well only when all bytes were accepted, a blocked *)
(* chunk still fits the body, and a dropped stream has sent its cancel.     *)
SinkInv ==
  /\ attached <=> terminal = "none"
  /\ closed => ~attached
  /\ terminal = "Eof" => accepted_bytes = BodyLen
  /\ saw_eof => queue = <<>> /\ terminal = "Eof"
  /\ \A i \in 1 .. Len(queue) : queue[i].end <= accepted_bytes
  /\ blocked > 0 => accepted_bytes + blocked <= BodyLen
  /\ attached /\ ResumeDue => ~paused
  /\ attached /\ reader = "dropped" => Pending("Cancel")

IInv ==
  /\ TypeOK
  /\ StreamIsExact
  /\ SinkInv
  /\ FlagsFollowHandle
  /\ BlockedIsResumed
  /\ WakeupIsKept

(* Taking the first command leaves the others pending.                      *)
LEMMA PendingTail ==
  ASSUME NEW c, commands \in Seq(Command), HandleCommand(c)
  PROVE  /\ commands' \in Seq(Command)
         /\ \A d : Pending(d)' => Pending(d)
         /\ \A d : d # c /\ Pending(d) => Pending(d)'
         /\ OneResume => OneResume' /\ (c = "Resume" => ~Pending("Resume")')
<1>1. /\ commands # <<>> /\ Head(commands) = c
      /\ commands' = Tail(commands)
  BY DEF HandleCommand
<1>2. /\ Len(commands) \in Nat \ {0}
      /\ commands' \in Seq(Command)
      /\ Len(commands') = Len(commands) - 1
      /\ commands[1] = c
      /\ \A i \in 1 .. Len(commands') : commands'[i] = commands[i + 1]
  BY <1>1
<1>3. \A d : Pending(d)' => Pending(d)
  BY <1>2 DEF Pending
<1>4. ASSUME NEW d, d # c, Pending(d) PROVE Pending(d)'
  <2>1. PICK i \in 1 .. Len(commands) : commands[i] = d
    BY <1>4 DEF Pending
  <2>2. i # 1
    BY <1>2, <1>4, <2>1
  <2>3. i - 1 \in 1 .. Len(commands') /\ commands'[i - 1] = d
    BY <1>2, <2>1, <2>2
  <2> QED
    BY <2>3 DEF Pending
<1>5. ASSUME OneResume PROVE OneResume' /\ (c = "Resume" => ~Pending("Resume")')
  <2>1. OneResume'
    BY <1>2, <1>5 DEF OneResume
  <2>2. c = "Resume" => ~Pending("Resume")'
    BY <1>2, <1>5 DEF Pending, OneResume
  <2> QED
    BY <2>1, <2>2
<1> QED
  BY <1>2, <1>3, <1>4, <1>5

(* Sending appends, unless the driver is gone.                              *)
LEMMA PendingSend ==
  ASSUME NEW cmds \in Seq(Command), commands \in Seq(Command), ~closed, send(cmds)
  PROVE  /\ commands' \in Seq(Command)
         /\ \A d : Pending(d) => Pending(d)'
         /\ \A i \in 1 .. Len(cmds) : Pending(cmds[i])'
         /\ \A d : Pending(d)' => Pending(d) \/ \E i \in 1 .. Len(cmds) : cmds[i] = d
         /\ OneResume /\ ~(\E i \in 1 .. Len(cmds) : cmds[i] = "Resume") => OneResume'
         /\ OneResume /\ ~Pending("Resume") /\ Len(cmds) = 1 => OneResume'
<1>1. commands' = commands \o cmds
  BY DEF send
<1>2. /\ Len(commands) \in Nat /\ Len(cmds) \in Nat
      /\ commands' \in Seq(Command)
      /\ Len(commands') = Len(commands) + Len(cmds)
      /\ \A i \in 1 .. Len(commands') :
           commands'[i] = IF i <= Len(commands) THEN commands[i] ELSE cmds[i - Len(commands)]
  BY <1>1
<1>3. ASSUME NEW d, Pending(d) PROVE Pending(d)'
  BY <1>2, <1>3 DEF Pending
<1>4. ASSUME NEW i \in 1 .. Len(cmds) PROVE Pending(cmds[i])'
  <2>1. /\ Len(commands) + i \in 1 .. Len(commands')
        /\ ~(Len(commands) + i <= Len(commands))
        /\ Len(commands) + i - Len(commands) = i
    BY <1>2, <1>4
  <2>2. commands'[Len(commands) + i] = cmds[i]
    BY <1>2, <2>1
  <2> QED
    BY <2>1, <2>2 DEF Pending
<1>5. ASSUME NEW d, Pending(d)'
      PROVE  Pending(d) \/ \E i \in 1 .. Len(cmds) : cmds[i] = d
  <2>1. PICK i \in 1 .. Len(commands') : commands'[i] = d
    BY <1>5 DEF Pending
  <2>2. CASE i <= Len(commands)
    BY <1>2, <2>1, <2>2 DEF Pending
  <2>3. CASE ~(i <= Len(commands))
    <3>1. i - Len(commands) \in 1 .. Len(cmds) /\ cmds[i - Len(commands)] = d
      BY <1>2, <2>1, <2>3
    <3> QED
      BY <3>1
  <2> QED
    BY <2>2, <2>3
<1>6. ASSUME OneResume, ~(\E i \in 1 .. Len(cmds) : cmds[i] = "Resume") PROVE OneResume'
  <2>1. \A i \in 1 .. Len(commands') :
          commands'[i] = "Resume" => i \in 1 .. Len(commands) /\ commands[i] = "Resume"
    <3> SUFFICES ASSUME NEW i \in 1 .. Len(commands'), commands'[i] = "Resume"
                 PROVE  i \in 1 .. Len(commands) /\ commands[i] = "Resume"
      OBVIOUS
    <3>1. CASE i <= Len(commands)
      BY <1>2, <3>1
    <3>2. CASE ~(i <= Len(commands))
      <4>1. i - Len(commands) \in 1 .. Len(cmds)
        BY <1>2, <3>2
      <4> QED
        BY <1>2, <1>6, <3>2, <4>1
    <3> QED
      BY <3>1, <3>2
  <2> QED
    BY <1>6, <2>1 DEF OneResume
<1>7. ASSUME OneResume, ~Pending("Resume"), Len(cmds) = 1 PROVE OneResume'
  <2>1. \A i \in 1 .. Len(commands') : commands'[i] = "Resume" => i = Len(commands) + 1
    BY <1>2, <1>7 DEF Pending
  <2> QED
    BY <2>1 DEF OneResume
<1> QED
  BY <1>2, <1>3, <1>4, <1>5, <1>6, <1>7

-----------------------------------------------------------------------------
(* The initial state satisfies the invariant.                               *)
LEMMA InitIInv == Init => IInv
<1> SUFFICES ASSUME Init PROVE IInv
  OBVIOUS
<1>1. queue = <<>> /\ commands = <<>> /\ Len(queue) = 0 /\ Len(commands) = 0
  BY DEF Init
<1>2. TypeOK
  <2>1. queue \in Seq(Chunk) /\ commands \in Seq({"Resume", "Cancel", "BodyDone"})
    BY <1>1, EmptySeq, ZenonT(60)
  <2>2. accepted_bytes \in 0 .. BodyLen /\ blocked \in 0 .. MaxChunk /\ consumed \in 0 .. BodyLen
        /\ buffered \in Nat
    BY BodyAssumption DEF Init
  <2> QED
    BY <2>1, <2>2, ZenonT(60) DEF Init, TypeOK
<1>3. StreamIsExact
  BY <1>1 DEF Init, StreamIsExact
<1>4. ~Pending("Resume") /\ ~Pending("Cancel") /\ OneResume /\ ~ResumeDue
  BY <1>1 DEF Init, Pending, OneResume, ResumeDue
<1>5. SinkInv
  BY <1>1, <1>4 DEF Init, SinkInv
<1>6. FlagsFollowHandle
  <2>1. ~(blocked > 0)
    BY DEF Init
  <2>2. paused_for_wait = paused /\ ~paused
    BY ZenonT(60) DEF Init
  <2> QED
    BY <1>4, <2>1, <2>2, ZenonT(60) DEF FlagsFollowHandle
<1>7. BlockedIsResumed /\ WakeupIsKept
  BY DEF Init, BlockedIsResumed, WakeupIsKept
<1> QED
  BY <1>2, <1>3, <1>5, <1>6, <1>7 DEF IInv

(* An accepted chunk continues the queue where it ended.                    *)
LEMMA PushKeepsStream ==
  ASSUME IInv, attached, NEW n \in 1 .. MaxChunk, accepted_bytes + n <= BodyLen,
         queue' = Append(queue, [start |-> accepted_bytes, end |-> accepted_bytes + n]),
         buffered' = buffered + n, accepted_bytes' = accepted_bytes + n,
         UNCHANGED <<terminal, consumed>>
  PROVE  /\ queue' \in Seq(Chunk) /\ queue' # <<>> /\ buffered' \in Nat
         /\ accepted_bytes' \in 0 .. BodyLen
         /\ StreamIsExact'
         /\ \A i \in 1 .. Len(queue') : queue'[i].end <= accepted_bytes'
<1> DEFINE c == [start |-> accepted_bytes, end |-> accepted_bytes + n]
<1>0. /\ queue \in Seq(Chunk) /\ buffered \in Nat /\ accepted_bytes \in 0 .. BodyLen
      /\ consumed \in 0 .. BodyLen /\ n \in Nat /\ n > 0 /\ BodyLen \in Nat
      /\ terminal = "none"
  BY BodyAssumption DEF IInv, TypeOK, SinkInv
<1>1. c \in Chunk /\ c.start = accepted_bytes /\ c.end = accepted_bytes + n
  BY <1>0 DEF Chunk
<1>2. /\ queue' \in Seq(Chunk) /\ Len(queue) \in Nat
      /\ Len(queue') = Len(queue) + 1 /\ queue' # <<>>
      /\ \A i \in 1 .. Len(queue) : queue'[i] = queue[i]
      /\ queue'[Len(queue) + 1] = c
      /\ queue = <<>> <=> Len(queue) = 0
  BY <1>0, <1>1
<1>3. \A i \in 1 .. Len(queue) :
        /\ queue[i].start = IF i = 1 THEN consumed ELSE queue[i - 1].end
        /\ queue[i].end <= accepted_bytes
        /\ queue[i].end \in Nat
  BY <1>0 DEF IInv, StreamIsExact, SinkInv, Chunk
<1>4. /\ queue = <<>> => consumed = accepted_bytes /\ buffered = 0
      /\ queue # <<>> => /\ queue[Len(queue)].end = accepted_bytes
                         /\ buffered = accepted_bytes - consumed
  BY <1>0 DEF IInv, StreamIsExact
<1>5. ASSUME NEW i \in 1 .. Len(queue')
      PROVE  queue'[i].start = IF i = 1 THEN consumed ELSE queue'[i - 1].end
  <2>1. CASE i \in 1 .. Len(queue)
    <3>1. i = 1 \/ i - 1 \in 1 .. Len(queue)
      BY <1>2, <2>1
    <3> QED
      BY <1>2, <1>3, <2>1, <3>1
  <2>2. CASE i = Len(queue) + 1 /\ Len(queue) = 0
    BY <1>1, <1>2, <1>4, <2>2
  <2>3. CASE i = Len(queue) + 1 /\ Len(queue) > 0
    <3>1. i - 1 = Len(queue) /\ Len(queue) \in 1 .. Len(queue) /\ i # 1
      BY <1>2, <2>3
    <3>2. queue'[i - 1].end = accepted_bytes
      BY <1>2, <1>4, <2>3, <3>1
    <3> QED
      BY <1>1, <1>2, <2>3, <3>1, <3>2
  <2> QED
    BY <1>2, <2>1, <2>2, <2>3
<1>6. queue'[Len(queue')].end = accepted_bytes'
  BY <1>1, <1>2
<1>7. buffered' = accepted_bytes' - consumed /\ buffered' \in Nat
  BY <1>0, <1>4
<1>8. StreamIsExact'
  BY <1>2, <1>5, <1>6, <1>7 DEF StreamIsExact
<1>9. \A i \in 1 .. Len(queue') : queue'[i].end <= accepted_bytes'
  <2> SUFFICES ASSUME NEW i \in 1 .. Len(queue') PROVE queue'[i].end <= accepted_bytes'
    OBVIOUS
  <2>1. CASE i \in 1 .. Len(queue)
    BY <1>0, <1>2, <1>3, <2>1
  <2>2. CASE i = Len(queue) + 1
    BY <1>0, <1>1, <1>2, <2>2
  <2> QED
    BY <1>2, <2>1, <2>2
<1> QED
  BY <1>0, <1>2, <1>7, <1>8, <1>9

(* Removing the first chunk leaves the rest where it was.                   *)
LEMMA PopKeepsStream ==
  ASSUME IInv, queue # <<>>,
         queue' = Tail(queue),
         buffered' = buffered - ChunkLen(Head(queue)),
         consumed' = consumed + ChunkLen(Head(queue)),
         UNCHANGED <<terminal, accepted_bytes>>
  PROVE  /\ queue' \in Seq(Chunk) /\ buffered' \in Nat /\ consumed' \in 0 .. BodyLen
         /\ StreamIsExact'
         /\ \A i \in 1 .. Len(queue') : queue'[i].end <= accepted_bytes'
<1>0. /\ queue \in Seq(Chunk) /\ buffered \in Nat /\ accepted_bytes \in 0 .. BodyLen
      /\ consumed \in 0 .. BodyLen /\ BodyLen \in Nat
  BY BodyAssumption DEF IInv, TypeOK
<1>1. /\ Len(queue) \in Nat \ {0} /\ 1 \in 1 .. Len(queue)
      /\ Head(queue) = queue[1] /\ queue[1] \in Chunk
      /\ queue' \in Seq(Chunk) /\ Len(queue') = Len(queue) - 1
      /\ \A i \in 1 .. Len(queue') : i + 1 \in 1 .. Len(queue) /\ queue'[i] = queue[i + 1]
      /\ queue' = <<>> <=> Len(queue) = 1
  <2>1. /\ Len(queue) \in Nat \ {0} /\ 1 \in 1 .. Len(queue)
        /\ Head(queue) = queue[1] /\ queue[1] \in Chunk
    BY <1>0
  <2>2. /\ queue' \in Seq(Chunk) /\ Len(queue') = Len(queue) - 1
        /\ \A i \in 1 .. Len(queue') : i + 1 \in 1 .. Len(queue) /\ queue'[i] = queue[i + 1]
    BY <1>0, <2>1
  <2>3. queue' = <<>> <=> Len(queue') = 0
    <3>1. Len(<<>>) = 0 /\ \A seq \in Seq(Chunk) : seq # <<>> => Len(seq) \in Nat \ {0}
      BY EmptySeq, ZenonT(60)
    <3>2. queue' # <<>> => Len(queue') \in Nat \ {0}
      BY <2>2, <3>1, ZenonT(60)
    <3>3. queue' = <<>> => Len(queue') = 0
      BY <3>1, ZenonT(60)
    <3> QED
      BY <3>2, <3>3
  <2> QED
    BY <2>1, <2>2, <2>3
<1>2. /\ \A i \in 1 .. Len(queue) :
           /\ queue[i].start = IF i = 1 THEN consumed ELSE queue[i - 1].end
           /\ queue[i].end <= accepted_bytes
      /\ queue[Len(queue)].end = accepted_bytes
      /\ buffered = accepted_bytes - consumed
  BY DEF IInv, StreamIsExact, SinkInv
<1>3. /\ queue[1].start = consumed /\ queue[1].end \in 0 .. BodyLen
      /\ queue[1].end <= accepted_bytes
      /\ consumed' = queue[1].end
      /\ buffered' = accepted_bytes - consumed'
  BY <1>0, <1>1, <1>2 DEF Chunk, ChunkLen
<1>4. ASSUME NEW i \in 1 .. Len(queue')
      PROVE  /\ queue'[i].start = IF i = 1 THEN consumed' ELSE queue'[i - 1].end
             /\ queue'[i].end <= accepted_bytes'
  <2>1. queue'[i] = queue[i + 1] /\ i + 1 \in 1 .. Len(queue) /\ i + 1 # 1 /\ i + 1 - 1 = i
    BY <1>1
  <2>2. queue'[i].start = queue[i].end /\ queue'[i].end <= accepted_bytes
    BY <1>2, <2>1
  <2>3. CASE i = 1
    BY <1>3, <2>2, <2>3
  <2>4. CASE i # 1
    <3>1. i - 1 \in 1 .. Len(queue') /\ (i - 1) + 1 = i
      BY <1>1, <2>4
    <3>2. queue'[i - 1] = queue[i]
      BY <1>1, <3>1
    <3> QED
      BY <2>2, <2>4, <3>2
  <2> QED
    BY <2>3, <2>4
<1>5. IF queue' = <<>> THEN consumed' = accepted_bytes
                       ELSE queue'[Len(queue')].end = accepted_bytes
  <2>1. CASE Len(queue) = 1
    BY <1>1, <1>2, <1>3, <2>1
  <2>2. CASE Len(queue) # 1
    <3>1. Len(queue') \in 1 .. Len(queue') /\ Len(queue') + 1 = Len(queue)
      BY <1>1, <2>2
    <3>2. queue'[Len(queue')] = queue[Len(queue)]
      BY <1>1, <3>1
    <3> QED
      BY <1>1, <1>2, <2>2, <3>2
  <2> QED
    BY <2>1, <2>2
<1>6. buffered' \in Nat /\ buffered' = IF queue' = <<>> THEN 0 ELSE accepted_bytes - consumed'
  <2>1. buffered' \in Nat
    BY <1>0, <1>3
  <2>2. queue' = <<>> => buffered' = 0
    BY <1>0, <1>3, <1>5
  <2> QED
    BY <1>3, <2>1, <2>2
<1>7. StreamIsExact'
  BY <1>4, <1>5, <1>6, ZenonT(60) DEF StreamIsExact
<1> QED
  BY <1>1, <1>3, <1>4, <1>6, <1>7, ZenonT(60)

-----------------------------------------------------------------------------
(* What a step of the driver may do to the commands of other kinds.         *)
CommandsKept ==
  /\ commands' \in Seq(Command)
  /\ Pending("Cancel") => Pending("Cancel")'
  /\ ~ResumeDue' /\ ~Pending("Resume")'
  /\ OneResume'

(* The write callback, on a handle that is not or no longer paused.         *)
LEMMA WriteKeepsIInv ==
  ASSUME IInv, attached, ~paused, NEW n \in 1 .. MaxChunk, accepted_bytes + n <= BodyLen,
         write(n), CommandsKept, UNCHANGED <<terminal, attached, closed, readerVars>>
  PROVE  IInv'
<1>0. /\ TypeOK /\ StreamIsExact /\ SinkInv /\ FlagsFollowHandle /\ WakeupIsKept
      /\ UNCHANGED <<reader, saw_eof, consumed>>
  BY DEF IInv, readerVars
<1>1. n \in Nat /\ n > 0 /\ n \in 0 .. MaxChunk /\ terminal = "none" /\ ~saw_eof
  BY <1>0, BodyAssumption DEF SinkInv
<1>2. CASE MustPause(n)
  <2>1. /\ queue # <<>>
        /\ paused' = TRUE /\ drained_since_pause' = FALSE /\ paused_for_wait' = TRUE
        /\ blocked' = n
        /\ UNCHANGED <<queue, buffered, notify, accepted_bytes>>
    BY <1>1, <1>2 DEF write, MustPause, start_pause
  <2>2. TypeOK'
    BY <1>0, <1>1, <2>1, ZenonT(60) DEF TypeOK, CommandsKept, Command
  <2>3. StreamIsExact'
    BY <1>0, <2>1 DEF StreamIsExact
  <2>4. SinkInv'
    BY <1>0, <1>1, <2>1 DEF SinkInv, CommandsKept
  <2>5. FlagsFollowHandle'
    BY <1>1, <2>1 DEF FlagsFollowHandle, CommandsKept
  <2>6. BlockedIsResumed'
    BY <1>0, <2>1 DEF BlockedIsResumed, SinkInv, CommandsKept
  <2>7. WakeupIsKept'
    BY <1>0, <2>1 DEF WakeupIsKept
  <2> QED
    BY <2>2, <2>3, <2>4, <2>5, <2>6, <2>7 DEF IInv
<1>3. CASE ~MustPause(n)
  <2>1. /\ queue' = Append(queue, [start |-> accepted_bytes, end |-> accepted_bytes + n])
        /\ buffered' = buffered + n
        /\ accepted_bytes' = accepted_bytes + n
        /\ notify' = TRUE /\ blocked' = 0
        /\ UNCHANGED <<paused, drained_since_pause, paused_for_wait>>
    BY <1>3 DEF write
  <2>2. /\ queue' \in Seq(Chunk) /\ queue' # <<>> /\ buffered' \in Nat
        /\ accepted_bytes' \in 0 .. BodyLen
        /\ StreamIsExact'
        /\ \A i \in 1 .. Len(queue') : queue'[i].end <= accepted_bytes'
    BY <1>0, <2>1, PushKeepsStream
  <2>3. TypeOK'
    <3>1. blocked' \in 0 .. MaxChunk
      BY <2>1, BodyAssumption
    <3> QED
      BY <1>0, <2>1, <2>2, <3>1, ZenonT(60) DEF TypeOK, CommandsKept, Command
  <2>4. SinkInv'
    BY <1>0, <1>1, <2>1, <2>2 DEF SinkInv, CommandsKept
  <2>5. FlagsFollowHandle'
    <3>1. paused_for_wait' = paused' /\ ~paused' /\ ~(blocked' > 0)
      BY <1>0, <2>1 DEF FlagsFollowHandle
    <3> QED
      BY <3>1 DEF FlagsFollowHandle, CommandsKept
  <2>6. BlockedIsResumed' /\ WakeupIsKept'
    BY <2>1 DEF BlockedIsResumed, WakeupIsKept
  <2> QED
    BY <2>2, <2>3, <2>4, <2>5, <2>6 DEF IInv
<1> QED
  BY <1>2, <1>3

(* The end of a transfer, with its buffer kept or discarded.                *)
LEMMA EndKeepsIInv ==
  ASSUME IInv, attached, NEW how \in {"Eof", "Failed", "Cancelled"}, EndTransfer(how),
         how = "Eof" => accepted_bytes = BodyLen,
         \/ UNCHANGED <<queue, buffered>>
         \/ discard_buffer /\ how # "Eof",
         closed' \in BOOLEAN, commands' \in Seq(Command), UNCHANGED readerVars
  PROVE  IInv'
<1>0. /\ TypeOK /\ StreamIsExact /\ SinkInv
      /\ UNCHANGED <<reader, saw_eof, consumed>>
  BY DEF IInv, readerVars
<1>1. /\ terminal = "none" /\ ~saw_eof
      /\ attached' = FALSE /\ blocked' = 0 /\ terminal' = how /\ notify' = TRUE
      /\ UNCHANGED <<paused, drained_since_pause, paused_for_wait, accepted_bytes>>
  BY <1>0, ZenonT(60) DEF SinkInv, EndTransfer, finish
<1>2. /\ queue' \in Seq(Chunk) /\ buffered' \in Nat
      /\ StreamIsExact'
      /\ \A i \in 1 .. Len(queue') : queue'[i].end <= accepted_bytes'
  <2>1. CASE UNCHANGED <<queue, buffered>>
    BY <1>0, <1>1, <2>1 DEF StreamIsExact, SinkInv, TypeOK
  <2>2. CASE discard_buffer /\ how # "Eof"
    <3>1. queue' = <<>> /\ buffered' = 0 /\ Len(queue') = 0
      BY <2>2 DEF discard_buffer
    <3>2. queue' \in Seq(Chunk)
      BY <3>1, EmptySeq, ZenonT(60)
    <3> QED
      BY <1>1, <2>2, <3>1, <3>2 DEF StreamIsExact
  <2> QED
    BY <2>1, <2>2
<1>3. TypeOK'
  <2>1. blocked' \in 0 .. MaxChunk
    BY <1>1, BodyAssumption
  <2> QED
    BY <1>0, <1>1, <1>2, <2>1, ZenonT(60) DEF TypeOK, Command
<1>4. SinkInv'
  BY <1>0, <1>1, <1>2 DEF SinkInv
<1>5. FlagsFollowHandle' /\ BlockedIsResumed' /\ WakeupIsKept'
  BY <1>1 DEF FlagsFollowHandle, BlockedIsResumed, WakeupIsKept
<1> QED
  BY <1>2, <1>3, <1>4, <1>5 DEF IInv

(* poll: a chunk, the end, or nothing.                                      *)
LEMMA PollKeepsIInv ==
  ASSUME IInv, poll
  PROVE  IInv'
<1>0. /\ TypeOK /\ StreamIsExact /\ SinkInv /\ FlagsFollowHandle /\ BlockedIsResumed
      /\ UNCHANGED <<terminal, paused, paused_for_wait, notify, accepted_bytes, attached,
                     blocked, closed, commands>>
      /\ reader \in {"idle", "polling"}
  BY DEF IInv, poll, driverVars
<1>1. \A d : Pending(d)' <=> Pending(d)
  BY <1>0 DEF Pending
<1>2. ASSUME reader' # "resuming" PROVE (ResumeDue' <=> ResumeDue) /\ FlagsFollowHandle'
  <2>1. ResumeDue' <=> ResumeDue
    BY <1>0, <1>1, <1>2 DEF ResumeDue
  <2>2. OneResume => OneResume'
    BY <1>0 DEF OneResume
  <2> QED
    BY <1>0, <1>1, <1>2, <2>1, <2>2 DEF FlagsFollowHandle
<1>3. CASE /\ queue # <<>>
           /\ queue' = Tail(queue)
           /\ buffered' = buffered - ChunkLen(Head(queue))
           /\ MarkDrained
           /\ consumed' = consumed + ChunkLen(Head(queue))
           /\ Goto("popped")
           /\ UNCHANGED saw_eof
  <2>1. /\ queue' \in Seq(Chunk) /\ buffered' \in Nat /\ consumed' \in 0 .. BodyLen
        /\ StreamIsExact'
        /\ \A i \in 1 .. Len(queue') : queue'[i].end <= accepted_bytes'
    BY <1>0, <1>3, PopKeepsStream
  <2>2. reader' = "popped" /\ drained_since_pause' = (drained_since_pause \/ paused)
    BY <1>3 DEF Goto, MarkDrained
  <2>3. (ResumeDue' <=> ResumeDue) /\ FlagsFollowHandle'
    BY <1>2, <2>2
  <2>4. TypeOK'
    BY <1>0, <1>3, <2>1, <2>2, ZenonT(60) DEF TypeOK
  <2>5. SinkInv'
    BY <1>0, <1>1, <1>3, <2>1, <2>2, <2>3 DEF SinkInv
  <2>6. BlockedIsResumed'
    BY <1>0, <1>1, <2>2, <2>3, ZenonT(60) DEF BlockedIsResumed, needs_resume
  <2>7. WakeupIsKept'
    BY <2>2 DEF WakeupIsKept
  <2> QED
    BY <2>1, <2>3, <2>4, <2>5, <2>6, <2>7 DEF IInv
<1>4. CASE /\ queue = <<>>
           /\ \/ /\ terminal # "none"
                 /\ saw_eof' = (terminal = "Eof")
                 /\ Goto(IF terminal = "Eof" THEN "eof" ELSE "error")
              \/ /\ terminal = "none"
                 /\ Goto("waiting")
                 /\ UNCHANGED saw_eof
           /\ UNCHANGED <<queue, buffered, drained_since_pause, consumed>>
  <2>1. reader' \in {"eof", "error", "waiting"} /\ (reader' = "waiting" => terminal = "none")
    BY <1>4 DEF Goto
  <2>2. (ResumeDue' <=> ResumeDue) /\ FlagsFollowHandle'
    BY <1>2, <2>1
  <2>3. saw_eof' \in BOOLEAN /\ (saw_eof' => terminal = "Eof")
    <3>1. CASE saw_eof' = (terminal = "Eof")
      BY <3>1, ZenonT(60)
    <3>2. CASE UNCHANGED saw_eof
      BY <1>0, <3>2 DEF TypeOK, SinkInv
    <3> QED
      BY <1>4, <3>1, <3>2
  <2>4. TypeOK'
    BY <1>0, <1>4, <2>1, <2>3, ZenonT(60) DEF TypeOK
  <2>5. StreamIsExact'
    BY <1>0, <1>4 DEF StreamIsExact
  <2>6. SinkInv'
    BY <1>0, <1>1, <1>4, <2>1, <2>2, <2>3 DEF SinkInv
  <2>7. BlockedIsResumed'
    BY <1>0, <1>1, <1>4, <2>1, <2>2 DEF BlockedIsResumed
  <2>8. WakeupIsKept'
    BY <1>0, <1>4, <2>1 DEF WakeupIsKept
  <2> QED
    BY <2>2, <2>4, <2>5, <2>6, <2>7, <2>8 DEF IInv
<1> QED
  BY <1>3, <1>4, ZenonT(60) DEF poll

(* needs_resume: the pause becomes a resume that is due.                    *)
LEMMA CheckKeepsIInv ==
  ASSUME IInv, CheckPause
  PROVE  IInv'
<1>0. /\ TypeOK /\ StreamIsExact /\ SinkInv /\ FlagsFollowHandle /\ BlockedIsResumed
      /\ UNCHANGED <<queue, buffered, terminal, notify, accepted_bytes, attached, blocked,
                     closed, commands, saw_eof, consumed>>
      /\ reader = "popped"
  BY DEF IInv, CheckPause, driverVars
<1>1. /\ \A d : Pending(d)' <=> Pending(d)
      /\ OneResume' <=> OneResume
  BY <1>0 DEF Pending, OneResume
<1>2. StreamIsExact'
  BY <1>0 DEF StreamIsExact
<1>3. CASE needs_resume
  <2>1. /\ paused' = FALSE /\ drained_since_pause' = FALSE /\ paused_for_wait' = FALSE
        /\ reader' = "resuming" /\ paused
    BY <1>3, ZenonT(60) DEF CheckPause, ClearPause, needs_resume, Goto
  <2>2. ResumeDue' /\ (attached => ~Pending("Resume"))
    BY <1>0, <2>1 DEF ResumeDue, SinkInv
  <2>3. TypeOK'
    BY <1>0, <2>1, ZenonT(60) DEF TypeOK
  <2>4. SinkInv'
    BY <1>0, <1>1, <2>1 DEF SinkInv
  <2>5. FlagsFollowHandle' /\ BlockedIsResumed' /\ WakeupIsKept'
    BY <1>0, <1>1, <2>1, <2>2, ZenonT(60) DEF FlagsFollowHandle, BlockedIsResumed, WakeupIsKept
  <2> QED
    BY <1>2, <2>3, <2>4, <2>5 DEF IInv
<1>4. CASE ~needs_resume
  <2>1. UNCHANGED <<paused, drained_since_pause, paused_for_wait>> /\ reader' = "idle"
    BY <1>4 DEF CheckPause, Goto
  <2>2. ResumeDue' <=> ResumeDue
    BY <1>0, <1>1, <2>1 DEF ResumeDue
  <2>3. TypeOK'
    BY <1>0, <2>1, ZenonT(60) DEF TypeOK
  <2>4. SinkInv'
    BY <1>0, <1>1, <2>1, <2>2 DEF SinkInv
  <2>5. FlagsFollowHandle'
    BY <1>0, <1>1, <2>1, <2>2 DEF FlagsFollowHandle
  <2>6. BlockedIsResumed' /\ WakeupIsKept'
    BY <1>0, <1>1, <1>4, <2>1, <2>2 DEF BlockedIsResumed, WakeupIsKept
  <2> QED
    BY <1>2, <2>3, <2>4, <2>5, <2>6 DEF IInv
<1> QED
  BY <1>3, <1>4

(* request_resume: the resume that is due becomes the only command of its   *)
(* kind.                                                                    *)
LEMMA RequestKeepsIInv ==
  ASSUME IInv, request_resume
  PROVE  IInv'
<1>0. /\ TypeOK /\ StreamIsExact /\ SinkInv /\ FlagsFollowHandle /\ BlockedIsResumed
      /\ UNCHANGED <<queue, buffered, terminal, paused, drained_since_pause, paused_for_wait,
                     notify, accepted_bytes, attached, blocked, closed, saw_eof, consumed>>
      /\ reader = "resuming" /\ reader' = "idle"
      /\ commands \in Seq(Command) /\ send(<<"Resume">>)
  BY DEF IInv, TypeOK, Command, request_resume, driverVars, sinkVars, Goto
<1>1. StreamIsExact' /\ WakeupIsKept'
  BY <1>0 DEF StreamIsExact, WakeupIsKept
<1>2. commands' \in Seq(Command)
  <2>1. CASE closed
    BY <1>0, <2>1 DEF send
  <2>2. CASE ~closed
    BY <1>0, <2>2 DEF send, Command
  <2> QED
    BY <2>1, <2>2
<1>3. TypeOK'
  BY <1>0, <1>2, ZenonT(60) DEF TypeOK, Command
<1>4. CASE attached
  <2>1. ~closed /\ ~Pending("Resume") /\ OneResume /\ blocked > 0 /\ ~paused /\ ResumeDue
    BY <1>0, <1>4 DEF SinkInv, FlagsFollowHandle, ResumeDue
  <2>2. Pending("Resume")' /\ OneResume'
    <3> DEFINE cmds == <<"Resume">>
    <3>1. cmds \in Seq(Command) /\ send(cmds) /\ Len(cmds) = 1 /\ 1 \in 1 .. Len(cmds)
      BY <1>0 DEF Command
    <3>2. cmds[1] = "Resume"
      OBVIOUS
    <3> HIDE DEF cmds
    <3>3. Pending(cmds[1])' /\ OneResume'
      BY <1>0, <2>1, <3>1, PendingSend
    <3> QED
      BY <3>2, <3>3
  <2>3. ResumeDue'
    BY <2>2 DEF ResumeDue
  <2>4. SinkInv'
    BY <1>0, <2>1 DEF SinkInv
  <2>5. FlagsFollowHandle' /\ BlockedIsResumed'
    BY <1>0, <2>1, <2>2, <2>3 DEF FlagsFollowHandle, BlockedIsResumed
  <2> QED
    BY <1>1, <1>3, <2>4, <2>5 DEF IInv
<1>5. CASE ~attached
  <2>1. SinkInv' /\ FlagsFollowHandle' /\ BlockedIsResumed'
    BY <1>0, <1>5 DEF SinkInv, FlagsFollowHandle, BlockedIsResumed
  <2> QED
    BY <1>1, <1>3, <2>1 DEF IInv
<1> QED
  BY <1>4, <1>5

(* The waits of next_chunk.                                                 *)
LEMMA WaitKeepsIInv ==
  ASSUME IInv, Notified \/ ReadTimeout
  PROVE  IInv'
<1>0. /\ TypeOK /\ StreamIsExact /\ SinkInv /\ FlagsFollowHandle /\ BlockedIsResumed
      /\ UNCHANGED <<queue, buffered, terminal, paused, drained_since_pause, paused_for_wait,
                     accepted_bytes, attached, blocked, closed, commands, saw_eof, consumed>>
      /\ reader = "waiting" /\ reader' \in {"polling", "error"} /\ notify' \in BOOLEAN
  BY ZenonT(60) DEF IInv, TypeOK, Notified, ReadTimeout, driverVars, sinkVars, Goto
<1>1. /\ \A d : Pending(d)' <=> Pending(d)
      /\ OneResume' <=> OneResume
      /\ ResumeDue' <=> ResumeDue
  BY <1>0 DEF Pending, OneResume, ResumeDue
<1>2. TypeOK'
  BY <1>0, ZenonT(60) DEF TypeOK
<1>3. StreamIsExact' /\ WakeupIsKept'
  BY <1>0 DEF StreamIsExact, WakeupIsKept
<1>4. SinkInv'
  BY <1>0, <1>1 DEF SinkInv
<1>5. FlagsFollowHandle'
  BY <1>0, <1>1 DEF FlagsFollowHandle
<1>6. BlockedIsResumed'
  BY <1>0, <1>1 DEF BlockedIsResumed
<1> QED
  BY <1>2, <1>3, <1>4, <1>5, <1>6 DEF IInv

(* Dropping the stream: a transfer that still runs gets its cancel.         *)
LEMMA DropKeepsIInv ==
  ASSUME IInv, DropStream
  PROVE  IInv'
<1>0. /\ TypeOK /\ StreamIsExact /\ SinkInv /\ FlagsFollowHandle /\ BlockedIsResumed
      /\ UNCHANGED <<queue, buffered, terminal, paused, drained_since_pause, paused_for_wait,
                     notify, accepted_bytes, attached, blocked, closed, saw_eof, consumed>>
      /\ reader \in {"idle", "waiting", "eof", "error"} /\ reader' = "dropped"
      /\ commands \in Seq(Command)
  BY DEF IInv, TypeOK, Command, DropStream, driverVars, sinkVars, Goto
<1>1. StreamIsExact' /\ WakeupIsKept'
  BY <1>0 DEF StreamIsExact, WakeupIsKept
<1>2. PICK cmds \in {<<"BodyDone">>, <<"BodyDone", "Cancel">>} :
        send(cmds) /\ (~saw_eof => cmds = <<"BodyDone", "Cancel">>)
  BY ZenonT(60) DEF DropStream
<1>3. /\ cmds \in Seq(Command) /\ Len(cmds) \in Nat
      /\ ~(\E i \in 1 .. Len(cmds) : cmds[i] = "Resume")
  <2>1. CASE cmds = <<"BodyDone">>
    BY <2>1 DEF Command
  <2>2. CASE cmds = <<"BodyDone", "Cancel">>
    BY <2>2 DEF Command
  <2> QED
    BY <2>1, <2>2
<1>4. commands' \in Seq(Command)
  <2>1. CASE closed
    BY <1>0, <1>2, <2>1 DEF send
  <2>2. CASE ~closed
    BY <1>0, <1>2, <1>3, <2>2, PendingSend
  <2> QED
    BY <2>1, <2>2
<1>5. TypeOK'
  BY <1>0, <1>4, ZenonT(60) DEF TypeOK, Command
<1>6. CASE attached
  <2>1. ~closed /\ ~saw_eof
    BY <1>0, <1>6 DEF SinkInv
  <2>2. Len(cmds) = 2 /\ cmds[2] = "Cancel"
    BY <1>2, <2>1
  <2>3. /\ Pending(cmds[2])'
        /\ Pending("Resume")' <=> Pending("Resume")
        /\ OneResume => OneResume'
    <3>1. /\ \A d : Pending(d) => Pending(d)'
          /\ \A i \in 1 .. Len(cmds) : Pending(cmds[i])'
          /\ \A d : Pending(d)' => Pending(d) \/ \E i \in 1 .. Len(cmds) : cmds[i] = d
          /\ OneResume /\ ~(\E i \in 1 .. Len(cmds) : cmds[i] = "Resume") => OneResume'
      BY <1>0, <1>2, <1>3, <2>1, PendingSend, ZenonT(60)
    <3>2. 2 \in 1 .. Len(cmds)
      BY <2>2
    <3> QED
      BY <1>3, <3>1, <3>2, ZenonT(60)
  <2>4. Pending("Cancel")' /\ (ResumeDue' <=> ResumeDue)
    BY <1>0, <2>2, <2>3 DEF ResumeDue
  <2>5. SinkInv'
    BY <1>0, <1>6, <2>3, <2>4 DEF SinkInv
  <2>6. FlagsFollowHandle' /\ BlockedIsResumed'
    BY <1>0, <1>6, <2>3, <2>4 DEF FlagsFollowHandle, BlockedIsResumed
  <2> QED
    BY <1>1, <1>5, <2>5, <2>6 DEF IInv
<1>7. CASE ~attached
  <2>1. SinkInv' /\ FlagsFollowHandle' /\ BlockedIsResumed'
    BY <1>0, <1>7 DEF SinkInv, FlagsFollowHandle, BlockedIsResumed
  <2> QED
    BY <1>1, <1>5, <2>1 DEF IInv
<1> QED
  BY <1>6, <1>7

(* A command about a transfer that is gone, or about its statistics only.   *)
LEMMA IdleCommandKeepsIInv ==
  ASSUME IInv, NEW c, HandleCommand(c), c = "BodyDone" \/ ~attached,
         UNCHANGED <<sinkVars, attached, blocked>>
  PROVE  IInv'
<1>0. /\ TypeOK /\ StreamIsExact /\ SinkInv /\ FlagsFollowHandle /\ BlockedIsResumed
      /\ WakeupIsKept
      /\ UNCHANGED <<queue, buffered, terminal, paused, drained_since_pause, paused_for_wait,
                     notify, accepted_bytes, attached, blocked, closed, reader, saw_eof,
                     consumed>>
      /\ commands \in Seq(Command)
  BY DEF IInv, TypeOK, Command, HandleCommand, sinkVars, readerVars
<1>1. StreamIsExact' /\ WakeupIsKept'
  BY <1>0 DEF StreamIsExact, WakeupIsKept
<1>2. /\ commands' \in Seq(Command)
      /\ \A d : Pending(d)' => Pending(d)
      /\ \A d : d # c /\ Pending(d) => Pending(d)'
      /\ OneResume => OneResume'
  BY <1>0, PendingTail
<1>3. TypeOK'
  <2>1. commands' \in Seq(Command)
    BY <1>2, ZenonT(60)
  <2> QED
    BY <1>0, <2>1, ZenonT(60) DEF TypeOK, Command
<1>4. CASE attached
  <2>1. /\ Pending("Resume")' <=> Pending("Resume")
        /\ Pending("Cancel")' <=> Pending("Cancel")
        /\ ResumeDue' <=> ResumeDue
    BY <1>0, <1>2, <1>4 DEF ResumeDue
  <2>2. SinkInv'
    BY <1>0, <2>1 DEF SinkInv
  <2>3. FlagsFollowHandle'
    BY <1>0, <1>2, <1>4, <2>1 DEF FlagsFollowHandle
  <2>4. BlockedIsResumed'
    BY <1>0, <2>1 DEF BlockedIsResumed, needs_resume
  <2> QED
    BY <1>1, <1>3, <2>2, <2>3, <2>4 DEF IInv
<1>5. CASE ~attached
  <2>1. SinkInv' /\ FlagsFollowHandle' /\ BlockedIsResumed'
    BY <1>0, <1>5 DEF SinkInv, FlagsFollowHandle, BlockedIsResumed
  <2> QED
    BY <1>1, <1>3, <2>1 DEF IInv
<1> QED
  BY <1>4, <1>5

(* Every step of the driver and of the reader keeps the invariant.          *)
LEMMA NextKeepsIInv == IInv /\ [Next]_vars => IInv'
<1> SUFFICES ASSUME IInv, [Next]_vars PROVE IInv'
  OBVIOUS
<1>0. /\ TypeOK /\ SinkInv /\ FlagsFollowHandle
      /\ commands \in Seq(Command) /\ BodyLen \in Nat /\ MaxChunk \in Nat
  BY BodyAssumption DEF IInv, TypeOK, Command
<1>1. CASE Deliver
  <2>1. PICK n \in 1 .. MaxChunk : accepted_bytes + n <= BodyLen /\ write(n)
    BY <1>1 DEF Deliver
  <2>2. /\ attached /\ ~(blocked > 0)
        /\ UNCHANGED <<terminal, attached, closed, readerVars>> /\ UNCHANGED commands
    BY <1>1 DEF Deliver
  <2>3. ~paused /\ ~ResumeDue /\ OneResume
    BY <1>0, <2>2 DEF FlagsFollowHandle
  <2>4. CommandsKept
    BY <1>0, <2>2, <2>3 DEF CommandsKept, ResumeDue, Pending, OneResume, readerVars
  <2> QED
    BY <2>1, <2>2, <2>3, <2>4, WriteKeepsIInv
<1>2. CASE resume_transfer
  <2>1. HandleCommand("Resume") /\ Pending("Resume")
    <3>1. HandleCommand("Resume")
      BY <1>2 DEF resume_transfer
    <3>2. commands # <<>> /\ Head(commands) = "Resume"
      BY <3>1 DEF HandleCommand
    <3>3. 1 \in 1 .. Len(commands) /\ commands[1] = "Resume"
      BY <1>0, <3>2
    <3> QED
      BY <3>1, <3>3 DEF Pending
  <2>2. CASE attached
    <3>1. blocked > 0 /\ ~paused /\ OneResume /\ reader # "resuming"
      BY <1>0, <2>1, <2>2 DEF FlagsFollowHandle, SinkInv, ResumeDue
    <3>2. write(blocked) /\ UNCHANGED <<terminal, attached, closed, readerVars>>
      BY <1>2, <2>1, <2>2, <3>1 DEF resume_transfer, HandleCommand
    <3>3. blocked \in 1 .. MaxChunk /\ accepted_bytes + blocked <= BodyLen
      BY <1>0, <3>1 DEF TypeOK, SinkInv
    <3>4. CommandsKept
      BY <1>0, <2>1, <3>1, <3>2, PendingTail DEF CommandsKept, ResumeDue, readerVars
    <3> QED
      BY <2>2, <3>1, <3>2, <3>3, <3>4, WriteKeepsIInv
  <2>3. CASE ~attached
    <3>1. UNCHANGED <<sinkVars, attached, blocked>>
      BY <1>2, <2>3 DEF resume_transfer
    <3> QED
      BY <2>1, <2>3, <3>1, IdleCommandKeepsIInv
  <2> QED
    BY <2>2, <2>3
<1>3. CASE cancel_transfer
  <2>1. HandleCommand("Cancel")
    BY <1>3 DEF cancel_transfer
  <2>2. CASE attached
    <3>1. EndTransfer("Cancelled") /\ discard_buffer
      BY <1>3, <2>2 DEF cancel_transfer
    <3>2. commands' \in Seq(Command) /\ closed' \in BOOLEAN /\ UNCHANGED readerVars
      <4>1. commands' \in Seq(Command)
        BY <1>0, <2>1, PendingTail
      <4> QED
        BY <1>0, <2>1, <4>1 DEF HandleCommand, TypeOK
    <3> QED
      BY <2>2, <3>1, <3>2, EndKeepsIInv
  <2>3. CASE ~attached
    <3>1. UNCHANGED <<sinkVars, attached, blocked>>
      BY <1>3, <2>3 DEF cancel_transfer
    <3> QED
      BY <2>1, <2>3, <3>1, IdleCommandKeepsIInv
  <2> QED
    BY <2>2, <2>3
<1>4. CASE HandleBodyDone
  BY <1>4, IdleCommandKeepsIInv DEF HandleBodyDone
<1>5. ASSUME NEW how \in {"Eof", "Failed"}, complete_transfer(how) PROVE IInv'
  <2>1. /\ attached /\ EndTransfer(how) /\ (how = "Eof" => accepted_bytes = BodyLen)
        /\ UNCHANGED <<queue, buffered>> /\ UNCHANGED readerVars
        /\ closed' \in BOOLEAN /\ commands' \in Seq(Command)
    BY <1>0, <1>5 DEF complete_transfer, TypeOK
  <2> QED
    BY <2>1, EndKeepsIInv
<1>6. CASE fail_pool
  <2>1. /\ attached /\ EndTransfer("Failed") /\ discard_buffer /\ UNCHANGED readerVars
        /\ closed' \in BOOLEAN /\ commands' \in Seq(Command)
    BY <1>0, <1>6 DEF fail_pool, TypeOK
  <2> QED
    BY <2>1, EndKeepsIInv
<1>7. CASE DriverExits
  <2>1. /\ closed' = TRUE /\ commands' = <<>> /\ UNCHANGED <<queue, buffered>>
        /\ UNCHANGED readerVars
    BY <1>7 DEF DriverExits
  <2>2. commands' \in Seq(Command)
    BY <2>1, EmptySeq, ZenonT(60)
  <2>3. CASE attached
    <3>1. PICK how \in {"Failed", "Cancelled"} : EndTransfer(how)
      BY <1>7, <2>3, ZenonT(60) DEF DriverExits
    <3> QED
      BY <2>1, <2>2, <2>3, <3>1, EndKeepsIInv
  <2>4. CASE ~attached
    <3>1. UNCHANGED <<attached, blocked, terminal, paused, drained_since_pause,
                      paused_for_wait, notify, accepted_bytes, reader, saw_eof, consumed>>
      BY <1>7, <2>4 DEF DriverExits, readerVars
    <3>2. TypeOK'
      BY <1>0, <2>1, <2>2, <3>1, ZenonT(60) DEF TypeOK, Command
    <3>3. StreamIsExact' /\ WakeupIsKept'
      BY <2>1, <3>1 DEF IInv, StreamIsExact, WakeupIsKept
    <3>4. SinkInv' /\ FlagsFollowHandle' /\ BlockedIsResumed'
      BY <1>0, <2>1, <2>4, <3>1 DEF SinkInv, FlagsFollowHandle, BlockedIsResumed
    <3> QED
      BY <3>2, <3>3, <3>4 DEF IInv
  <2> QED
    BY <2>3, <2>4
<1>8. CASE Reads \/ ReadTimeout \/ DropStream
  BY <1>8, PollKeepsIInv, CheckKeepsIInv, RequestKeepsIInv, WaitKeepsIInv, DropKeepsIInv
     DEF Reads
<1>9. CASE UNCHANGED vars
  BY <1>9 DEF vars, sinkVars, driverVars, readerVars, IInv, TypeOK, StreamIsExact, SinkInv,
              FlagsFollowHandle, BlockedIsResumed, WakeupIsKept, Pending, OneResume,
              ResumeDue, needs_resume
<1> QED
  BY <1>1, <1>2, <1>3, <1>4, <1>5, <1>6, <1>7, <1>8, <1>9 DEF Next, DriverHandles

(* The inductive invariant holds throughout.                                *)
LEMMA Invariance == Spec => []IInv
  BY InitIInv, NextKeepsIInv, PTL DEF Spec

-----------------------------------------------------------------------------
(* BodySink::write, poll and finish together pass the body on exactly: for  *)
(* every body, chunking and budget the reader has got the accepted bytes in *)
(* order, each once, and only failed transfers lose bytes.                  *)
THEOREM StreamExact == Spec => []StreamIsExact
<1>1. IInv => StreamIsExact
  BY ZenonT(60) DEF IInv
<1> QED
  BY <1>1, Invariance, PTL

(* A reader of next_chunk that sees a clean end has the whole body.         *)
THEOREM CleanEof == Spec => []EofMeansWhole
<1>1. IInv => EofMeansWhole
  BY DEF IInv, SinkInv, StreamIsExact, EofMeansWhole
<1> QED
  BY <1>1, Invariance, PTL

(* No handle that write paused is forgotten: whatever the driver does       *)
(* between poll and needs_resume, reading on resumes it.                    *)
THEOREM PauseIsResumed == Spec => []BlockedIsResumed
<1>1. IInv => BlockedIsResumed
  BY ZenonT(60) DEF IInv
<1> QED
  BY <1>1, Invariance, PTL

(* The pause flag and its mirror follow the handle, and a pause is resumed  *)
(* by one command (needs_resume).                                           *)
THEOREM FlagsFollow == Spec => []FlagsFollowHandle
<1>1. IInv => FlagsFollowHandle
  BY ZenonT(60) DEF IInv
<1> QED
  BY <1>1, Invariance, PTL

(* No wake-up of next_chunk is lost.                                        *)
THEOREM WakeupKept == Spec => []WakeupIsKept
<1>1. IInv => WakeupIsKept
  BY ZenonT(60) DEF IInv
<1> QED
  BY <1>1, Invariance, PTL

(* All of them together, as the run on a small instance checks them.        *)
THEOREM SinkSound == Spec => []SinkIsSound
<1>1. StreamIsExact /\ EofMeansWhole /\ BlockedIsResumed /\ FlagsFollowHandle /\ WakeupIsKept
        => SinkIsSound
  BY DEF SinkIsSound
<1> QED
  BY <1>1, StreamExact, CleanEof, PauseIsResumed, FlagsFollow, WakeupKept, PTL
=============================================================================

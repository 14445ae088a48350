----------------------------- MODULE MCChannels -----------------------------
(***************************************************************************)
(* What passes between the tasks of a client and its driver thread, for    *)
(* TLC: a response head, a body, the command queue; and what passes        *)
(* between a download and its caller: permits and the progress callback.   *)
(* A behaviour is about one of them; the others keep their initial state.  *)
(***************************************************************************)
EXTENDS BodySink

CONSTANTS
  None, NoPool, Holders, h1, Pools, Downloads, d1

VARIABLES
  part,   \* the component this behaviour is about
  route, sending, lines, interim, reported, connect_seen, block, published,
  value, failed, queue_commands, queue_closed, poll_waker, token, notified,
  refs, pc, dpc, target, sent, limit, sem, task, hashed, result, signal,
  handle, progress, control, callback

Heads == INSTANCE HeadParser WITH
  Routes <- {"direct", "tunnel"}, MAX_HEADER_BLOCK_BYTES <- 3, MaxLines <- 4,
  MaxInterim <- 2

Queue == INSTANCE CommandQueue WITH
  FirstHolder <- h1, MaxCommands <- 1, commands <- queue_commands,
  closed <- queue_closed

Managed == INSTANCE Manager WITH
  Limits <- {0, 1, None}, Verified <- {d1}, Watched <- {d1}, HashChunks <- 1,
  MaxReports <- 1

headVars == <<
  route, sending, lines, interim, reported, connect_seen, block, published,
  value, failed>>
queueVars == <<
  queue_commands, queue_closed, poll_waker, token, notified, refs, pc, dpc,
  target, sent>>
managerVars == <<
  limit, sem, task, hashed, result, signal, handle, progress, control,
  callback>>

ASSUME ConstantsAreLegal == Queue!QueueAssumption /\ Managed!LimitsAreNumbers

BenchInit ==
  /\ part \in {"body", "head", "queue", "manager"}
  /\ Init /\ Heads!Init /\ Queue!Init /\ Managed!Init
  /\ part # "head" => route = "direct"
  /\ part # "manager" => limit = 1

(* Only the component that was chosen moves.                                *)
BenchNext ==
  /\ UNCHANGED part
  /\ \/ part = "body" /\ Next /\ UNCHANGED <<headVars, queueVars, managerVars>>
     \/ part = "head" /\ Heads!Next /\ UNCHANGED <<vars, queueVars, managerVars>>
     \/ part = "queue" /\ Queue!Next /\ UNCHANGED <<vars, headVars, managerVars>>
     \/ part = "manager" /\ Managed!Next /\ UNCHANGED <<vars, headVars, queueVars>>

BenchVars == <<part, vars, headVars, queueVars, managerVars>>

(* The fairness of each component's own module, for the one that moves.   *)
BenchFairness ==
  /\ WF_vars(part = "body" /\ DriverHandles)
  /\ WF_vars(part = "body" /\ Deliver)
  /\ WF_vars(part = "body" /\ complete_transfer("Eof"))
  /\ WF_vars(part = "body" /\ Reads)
  /\ WF_queueVars(part = "queue" /\ Queue!DriverStep)
  /\ \A h \in Holders : WF_queueVars(part = "queue" /\ Queue!Wake(h))
  /\ \A d \in Downloads :
       /\ WF_managerVars(part = "manager" /\ Managed!TaskStep(d))
       /\ WF_managerVars(part = "manager" /\ Managed!CallbackStep(d))

BenchSpec == BenchInit /\ [][BenchNext]_BenchVars /\ BenchFairness

-----------------------------------------------------------------------------
(* BodySink: the reader of a body reaches its end, and a dropped stream     *)
(* ends its transfer.                                                       *)
BodyStreamsEnd == part = "body" => StreamsEnd


(* CommandQueue: no command is overlooked, neither by a driver thread about *)
(* to sleep nor by one that ends.                                           *)
NoCommandIsLost == part = "queue" => Queue!NoCommandIsLost

(* CommandQueue: the thread ends after the last reference is released, also *)
(* when two references are released at once.                                *)
ThreadEnds == part = "queue" => Queue!ThreadEnds

(* Manager: acquire_download_permit and the permit guard neither lose nor   *)
(* invent a permit, and none is free while a download waits.                *)
PermitsAreAccounted == part = "manager" => Managed!PermitsAreAccounted

=============================================================================

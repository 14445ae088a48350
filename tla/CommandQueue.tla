---------------------------- MODULE CommandQueue ----------------------------
(***************************************************************************)
(* The command channel between Tokio tasks and the libcurl driver thread   *)
(* (src/network/curl/driver/mod.rs, CommandQueue), at the granularity of   *)
(* its locks: every critical section, wake-up and reference-count read is  *)
(* a step of its own.                                                      *)
(*                                                                         *)
(* A holder is one strong reference to the queue kept outside the driver   *)
(* thread: a DriverHandle, a PendingHead or a BodyStream.  The driver      *)
(* thread owns one reference more until its loop ends.                     *)
(***************************************************************************)
EXTENDS Naturals, Sequences, FiniteSets

CONSTANTS Holders,     \* every reference that may ever exist
          FirstHolder, \* the DriverHandle spawn returns
          Pools,       \* multi handles the driver may block on
          MaxCommands, \* bound: commands ever sent
          NoPool

(* What the constants have to satisfy.                                      *)
QueueAssumption == FirstHolder \in Holders /\ NoPool \notin Pools /\ MaxCommands \in Nat

VARIABLES commands,   \* the VecDeque of pending commands: who sent each
          closed,     \* CommandState::closed
          poll_waker, \* the parked MultiWaker, or NoPool
          token,      \* multi handles whose wakeup socket is readable
          notified,   \* the condvar woke the waiting driver
          refs,       \* holders whose strong reference still counts
          pc,         \* what each holder is doing
          dpc,        \* where the driver thread is
          target,     \* the pool it polls, or NoPool
          sent        \* commands ever sent

vars == <<commands, closed, poll_waker, token, notified, refs, pc, dpc, target, sent>>
queue == <<commands, closed>>
wakers == <<poll_waker, token, notified>>
holding == <<refs, pc, sent>>
driver == <<dpc, target>>

InLoop == {"drain", "check", "perform", "register", "recheck", "poll", "unregister", "wait", "blocked"}

Init == /\ commands = <<>> /\ closed = FALSE
        /\ poll_waker = NoPool /\ token = {} /\ notified = FALSE
        /\ refs = {FirstHolder}
        /\ pc = [h \in Holders |-> IF h = FirstHolder THEN "idle" ELSE "unused"]
        /\ dpc = "drain" /\ target = NoPool
        /\ sent = 0

strong_count == Cardinality(refs) + IF dpc \in InLoop THEN 1 ELSE 0

-----------------------------------------------------------------------------
(* Holders *)

Step(h, from, to) == pc[h] = from /\ pc' = [pc EXCEPT ![h] = to]

\* A DriverHandle is cloned, or get() makes a PendingHead or a BodyStream.
Clone(h, new) ==
    /\ pc[h] = "idle" /\ pc[new] = "unused"
    /\ pc' = [pc EXCEPT ![new] = "idle"]
    /\ refs' = refs \cup {new}
    /\ UNCHANGED <<queue, wakers, driver, sent>>

\* send: after close the command is dropped, and its waiter with it.
send(h) ==
    /\ sent < MaxCommands
    /\ Step(h, "idle", IF closed THEN "idle" ELSE "send_wake")
    /\ commands' = IF closed THEN commands ELSE Append(commands, h)
    /\ sent' = sent + 1
    /\ UNCHANGED <<closed, wakers, refs, driver>>

\* wake_poll: rings the registered multi handle, under the poll_waker lock.
wake_poll(h, from, to) ==
    /\ Step(h, from, to)
    /\ token' = token \cup ({poll_waker} \ {NoPool})
    /\ UNCHANGED <<queue, poll_waker, notified, refs, sent, driver>>

\* ready.notify_one / notify_all: only a driver inside the wait is woken.
notify(h, from, to) ==
    /\ Step(h, from, to)
    /\ notified' = (notified \/ dpc = "blocked")
    /\ UNCHANGED <<queue, poll_waker, token, refs, sent, driver>>

\* release_or_close: the count is read while the caller still holds its
\* reference, which it drops only after waking or closing.
release_or_close(h) ==
    /\ Step(h, "idle", IF strong_count = 2 THEN "close" ELSE "release_wake")
    /\ UNCHANGED <<queue, wakers, refs, sent, driver>>

close(h) ==
    /\ Step(h, "close", "close_wake")
    /\ closed' = TRUE /\ commands' = <<>>
    /\ UNCHANGED <<wakers, refs, sent, driver>>

DropRef(h) ==
    /\ Step(h, "drop", "gone")
    /\ refs' = refs \ {h}
    /\ UNCHANGED <<queue, wakers, sent, driver>>

Wake(h) == \/ wake_poll(h, "send_wake", "send_notify")
           \/ notify(h, "send_notify", "idle")
           \/ wake_poll(h, "release_wake", "release_notify")
           \/ notify(h, "release_notify", "drop")
           \/ close(h)
           \/ wake_poll(h, "close_wake", "close_notify")
           \/ notify(h, "close_notify", "drop")
           \/ DropRef(h)

-----------------------------------------------------------------------------
(* The driver thread: the frame of run_driver *)

DriverGoes(from, to) == dpc = from /\ dpc' = to

drain ==
    /\ DriverGoes("drain", "check")
    /\ commands' = <<>>
    /\ UNCHANGED <<closed, wakers, holding, target>>

\* The mutant trusts the close alone.
CheckClosedOnly ==
    /\ DriverGoes("check", IF closed THEN "exiting" ELSE "perform")
    /\ UNCHANGED <<queue, wakers, holding, target>>

\* queue.is_closed() || Arc::strong_count(&queue) == 1
CheckShutdown ==
    /\ DriverGoes("check", IF closed \/ strong_count = 1 THEN "exiting" ELSE "perform")
    /\ UNCHANGED <<queue, wakers, holding, target>>

\* Pools performed and reclaimed: a pool with a transfer is polled, and the
\* queue is waited on when no transfer is in flight.
Perform ==
    \/ /\ DriverGoes("perform", "register")
       /\ target' \in Pools
       /\ UNCHANGED <<queue, wakers, holding>>
    \/ /\ DriverGoes("perform", "wait")
       /\ UNCHANGED <<queue, wakers, holding, target>>

\* The mutant registers the waker without looking at the queue again.
PreparePollBlindly ==
    /\ DriverGoes("register", "poll")
    /\ poll_waker' = target
    /\ UNCHANGED <<queue, token, notified, holding, target>>

\* prepare_poll: first the waker is parked, then the queue is looked at.
prepare_poll_register ==
    /\ DriverGoes("register", "recheck")
    /\ poll_waker' = target
    /\ UNCHANGED <<queue, token, notified, holding, target>>

prepare_poll_recheck ==
    /\ DriverGoes("recheck", IF commands = <<>> /\ ~closed THEN "poll" ELSE "unregister")
    /\ UNCHANGED <<queue, wakers, holding, target>>

\* Multi::poll returns on a wakeup (consumed here), on a socket and on the
\* timeout: the wait slice is at most DRIVER_WAIT_SLICE.
PollReturns ==
    /\ DriverGoes("poll", "unregister")
    /\ token' = token \ {target}
    /\ UNCHANGED <<queue, poll_waker, notified, holding, target>>

Unregister ==
    /\ DriverGoes("unregister", "drain")
    /\ poll_waker' = NoPool /\ target' = NoPool
    /\ UNCHANGED <<queue, token, notified, holding>>

\* wait: the emptiness check and the block are one critical section.
wait ==
    /\ DriverGoes("wait", IF commands # <<>> \/ closed THEN "drain" ELSE "blocked")
    /\ notified' = FALSE
    /\ UNCHANGED <<queue, poll_waker, token, holding, target>>

\* wait_for: woken by the condvar or by the timeout (next_idle_wait).
WaitReturns ==
    /\ DriverGoes("blocked", "drain")
    /\ notified' = FALSE
    /\ UNCHANGED <<queue, poll_waker, token, holding, target>>

\* The loop ended, or the thread unwinds after a panic: ExitGuard fails the
\* waiters, then closes the queue if anyone can still reach it.
Panic ==
    /\ dpc \in InLoop /\ dpc' = "exiting"
    /\ UNCHANGED <<queue, wakers, holding, target>>

ExitGuardDrop ==
    \/ /\ DriverGoes("exiting", IF refs # {} THEN "closing" ELSE "done")
       /\ UNCHANGED <<queue, wakers, holding, target>>
    \/ /\ DriverGoes("closing", "done")
       /\ closed' = TRUE /\ commands' = <<>>
       /\ UNCHANGED <<wakers, holding, target>>

DriverStep == \/ drain \/ CheckShutdown \/ Perform
              \/ prepare_poll_register \/ prepare_poll_recheck \/ PollReturns \/ Unregister
              \/ wait \/ WaitReturns
              \/ ExitGuardDrop

Next == \/ \E h, new \in Holders : Clone(h, new)
        \/ \E h \in Holders : send(h) \/ release_or_close(h) \/ Wake(h)
        \/ DriverStep
        \/ Panic

\* Sleeps are bounded, so the driver always takes its next step; a holder in
\* the middle of a call finishes it.
Fairness == WF_vars(DriverStep) /\ \A h \in Holders : WF_vars(Wake(h))

Spec == Init /\ [][Next]_vars /\ Fairness

-----------------------------------------------------------------------------
(* Properties *)

\* Something the driver must see: a command or the close.
News == commands # <<>> \/ closed

\* No lost wake-up: while the driver sleeps in Multi::poll or on the condvar
\* with news in the queue, its wake-up has been rung already or belongs to a
\* send or close that is still running; it never has to wait for the timeout.
SleepIsInterrupted ==
    /\ dpc = "poll" /\ News =>
         target \in token \/ \E h \in Holders : pc[h] \in {"send_wake", "close_wake"}
    /\ dpc = "blocked" /\ News =>
         notified \/ \E h \in Holders : pc[h] \in {"send_wake", "send_notify", "close_wake", "close_notify"}

\* Once the thread is gone nothing stays queued for a caller that can still
\* wait, whatever was being sent while it unwound: a command left behind would
\* keep its head channel open.  (Without a reference the queue itself is gone.)
GoneMeansEmptied == dpc = "done" /\ refs # {} => commands = <<>>

(* No command is overlooked: not by a thread about to sleep, nor by one     *)
(* that ends.                                                               *)
NoCommandIsLost == SleepIsInterrupted /\ GoneMeansEmptied

\* When the last reference outside the thread is released the thread ends,
\* also when two references are released at once and neither sees itself as
\* the last one.
ThreadEnds == (refs = {}) ~> (dpc = "done")

\* What release_or_close promises of the last reference: it closes the queue.
LastReleaseCloses == refs = {} /\ dpc \in InLoop => closed
=============================================================================

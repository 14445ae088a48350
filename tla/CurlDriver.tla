----------------------------- MODULE CurlDriver -----------------------------
(***************************************************************************)
(* The libcurl driver thread and its callers                               *)
(* (src/network/curl/driver/mod.rs): transfers submitted through the       *)
(* command queue, attached to a pool, retried on another address, finished,*)
(* cancelled or failed, with the address policy (IpPolicy) they reserve    *)
(* from and the attempt records that join libcurl's outcome with what the  *)
(* consumer did with the body.                                             *)
(*                                                                         *)
(* One pool: a pool owns its Multi, and pools share only the exploration   *)
(* counter.  The queue is FIFO and its wake-ups are CommandQueue's subject;*)
(* the body channel is BodySink's; the connection cache is IdlePool's.     *)
(***************************************************************************)
EXTENDS IpPolicy

CONSTANTS Transfers,
          Answers,          \* what DNS answers, in order of time
          AnswerTtl,        \* how long an answer may be used
          head_timeout,
          MAX_INTERNAL_CONNECT_ATTEMPTS,
          Codes,            \* curl error codes that occur
          Sample,           \* the body window a transfer measures
          SetupErrors,      \* whether libcurl may refuse options, handles or perform
          MaxTime           \* bound on the clock

VARIABLES now,
          dns,         \* the current answer
          caller,      \* where each caller of DriverHandle::get is
          options,     \* each request's candidate snapshot and its caller's deadline
          head,        \* each head channel: "pending" while its sender lives
          sink,        \* each body channel's terminal
          sinks,       \* DriverShared::sinks
          queue,       \* pending commands
          active,      \* Pool::active
          attempts,    \* the attempt records
          origin,      \* the policy's state of this origin
          selections,  \* IpPolicy::selections, modulo its period
          counters,
          handle,      \* the DriverHandle exists
          phase,       \* the thread: "running", "exiting" (sinks failed), "gone"
          sent,        \* ghost: how often each request went out on a wire
          ranked,      \* ghost: transfers whose window ranked an address
          newest       \* ghost: the latest DNS answer the policy has seen

outside == <<now, dns, caller, options, handle>>
policy == <<origin, selections, newest>>
ghosts == <<sent, ranked>>
channels == <<head, sink, sinks>>
vars == <<outside, channels, queue, active, attempts, policy, counters, phase, ghosts>>

Init == /\ now = 0 /\ dns = 1
        /\ caller = [t \in Transfers |-> "idle"]
        /\ options = [t \in Transfers |-> None]
        /\ head = [t \in Transfers |-> "none"]
        /\ sink = [t \in Transfers |-> "open"]
        /\ sinks = {} /\ queue = <<>>
        /\ active = <<>> /\ attempts = <<>>
        /\ origin = NewOrigin(0) /\ selections = 0 /\ newest = 0
        /\ counters = [submitted |-> 0, completed |-> 0, cancelled |-> 0]
        /\ handle = TRUE /\ phase = "running"
        /\ sent = [t \in Transfers |-> 0] /\ ranked = {}

Without(f, t) == [u \in DOMAIN f \ {t} |-> f[u]]
With(f, t, v) == [u \in DOMAIN f \cup {t} |-> IF u = t THEN v ELSE f[u]]
Count(field) == counters' = [counters EXCEPT ![field] = @ + 1]
Becomes(t, state) == caller' = [caller EXCEPT ![t] = state]

\* Whether anybody outside the thread holds the queue.
Referenced == handle \/ \E t \in Transfers : caller[t] \in {"waiting", "reading"}

\* CommandQueue::send; the last holder to go closes the queue and clears it.
Send(cmds) == queue' = IF phase # "gone" /\ Referenced' THEN queue \o cmds ELSE <<>>

\* A head sender is used or dropped once.
Answer(t, value) == [head EXCEPT ![t] = IF @ = "pending" THEN value ELSE @]

\* BodySink::finish: the first terminal stays.
Finish(t, terminal) == [sink EXCEPT ![t] = IF @ = "open" THEN terminal ELSE @]

-----------------------------------------------------------------------------
(* Callers *)

\* get starts with the snapshot its transport resolved, on a living driver.
get(t) ==
    /\ caller[t] = "idle" /\ handle
    /\ IF phase = "running"
       THEN /\ options' = [options EXCEPT ![t] = [addresses |-> Answers[dns], version |-> dns,
                                                   valid_until |-> now + AnswerTtl, gives_up |-> None]]
            /\ Becomes(t, "checked")
       ELSE Becomes(t, "failed") /\ UNCHANGED options
    /\ UNCHANGED <<now, dns, handle, channels, queue, active, attempts, policy, counters, phase, ghosts>>

\* The rest of get: the driver may have exited since the check.
Submit(t) ==
    /\ caller[t] = "checked"
    /\ Becomes(t, "waiting")
    /\ options' = [options EXCEPT ![t].gives_up = now + head_timeout]
    /\ head' = [head EXCEPT ![t] = IF phase = "gone" THEN "error" ELSE "pending"]
    /\ sinks' = sinks \cup {t}
    /\ Count("submitted")
    /\ UNCHANGED <<now, dns, handle>>
    /\ Send(<<[cmd |-> "Submit", id |-> t]>>)
    /\ UNCHANGED <<sink, active, attempts, policy, phase, ghosts>>

\* The head arrived: the body stream takes over from PendingHead.
HeadArrives(t) ==
    /\ caller[t] = "waiting" /\ head[t] = "ok"
    /\ Becomes(t, "reading")
    /\ UNCHANGED <<now, dns, options, handle, channels, queue, active, attempts, policy, counters,
                   phase, ghosts>>

\* An error, a dropped sender or the caller's deadline ends get; PendingHead is
\* still armed and cancels the transfer.
HeadFails(t) ==
    /\ caller[t] = "waiting" /\ head[t] # "ok"
    /\ head[t] = "pending" => now >= options[t].gives_up
    /\ Becomes(t, "failed")
    /\ sinks' = sinks \ {t}
    /\ UNCHANGED <<now, dns, options, handle>>
    /\ Send(<<[cmd |-> "Cancel", id |-> t]>>)
    /\ UNCHANGED <<head, sink, active, attempts, policy, counters, phase, ghosts>>

\* The future is dropped: the caller's own timeout, an abort, a losing arm.
DropFuture(t) ==
    /\ caller[t] = "waiting"
    /\ Becomes(t, "failed")
    /\ UNCHANGED <<now, dns, options, handle>>
    /\ Send(<<[cmd |-> "Cancel", id |-> t]>>)
    /\ UNCHANGED <<channels, active, attempts, policy, counters, phase, ghosts>>

\* BodyStream::drop, after its last byte or before.
DropBody(t, saw_eof) ==
    /\ caller[t] = "reading"
    /\ saw_eof => sink[t] = "eof"
    /\ Becomes(t, IF saw_eof THEN "consumed" ELSE "abandoned")
    /\ UNCHANGED <<now, dns, options, handle>>
    /\ Send(<<[cmd |-> "BodyDone", id |-> t]>>
            \o IF saw_eof THEN <<>> ELSE <<[cmd |-> "Cancel", id |-> t]>>)
    /\ UNCHANGED <<channels, active, attempts, policy, counters, phase, ghosts>>

\* DriverHandle::drop; get borrows the handle.
DropHandle ==
    /\ handle /\ \A t \in Transfers : caller[t] \notin {"checked", "waiting"}
    /\ handle' = FALSE
    /\ UNCHANGED <<now, dns, caller, options>>
    /\ Send(<<>>)
    /\ UNCHANGED <<channels, active, attempts, policy, counters, phase, ghosts>>

-----------------------------------------------------------------------------
(* Starting a transfer, for the first time or again *)

\* release_candidate: a transfer that never ran leaves no cooldown.
release_candidate(o, claim) == settle(o, claim.address, claim.generation, "Cancelled", now)

max_attempts(t) == Min({Len(options[t].addresses), MAX_INTERNAL_CONNECT_ATTEMPTS})

\* Everything the transfer holds is given back; its caller gets the error.
GiveUp(t, o, rs) ==
    /\ origin' = o
    /\ active' = Without(active, t)
    /\ attempts' = Without(rs, t)
    /\ head' = Answer(t, "error")
    /\ sink' = Finish(t, "failed")
    /\ sinks' = sinks \ {t}

\* attach_transfer, after build_easy: rejected options fail the head and the
\* handle still runs; a refused handle gives everything back.
attach_transfer(t, claim, o, rs, retry) ==
    \/ /\ origin' = o
       /\ active' = With(active, t, [claim |-> claim, attempts |-> retry.attempts,
                                     deadline |-> retry.deadline, published |-> FALSE])
       /\ attempts' = With(rs, t, [claim |-> claim, outcome |-> None, sample |-> None,
                                   consumed |-> IF t \in DOMAIN rs THEN rs[t].consumed ELSE None])
       /\ head' \in {head} \cup IF SetupErrors THEN {Answer(t, "error")} ELSE {}
       /\ UNCHANGED <<sink, sinks>>
    \/ /\ SetupErrors
       /\ GiveUp(t, release_candidate(o, claim), rs)

\* reserve_candidate folds the request's snapshot in and reserves an address;
\* then the transfer is attached, or given up without one.
Start(t, o, rs, retry) ==
    /\ newest' = Max({newest, options[t].version})
    /\ \E seen \in {observe(o, options[t], now)} :
       \E r \in {select(seen, (selections + 1) % EXPLORE_PERIOD = 0, now)} :
         IF r = None
         THEN GiveUp(t, seen, rs) /\ UNCHANGED selections
         ELSE /\ selections' = (selections + 1) % EXPLORE_PERIOD
              /\ attach_transfer(t, [address |-> r.address, generation |-> r.generation], r.origin, rs, retry)

start_transfer(t) == Start(t, origin, attempts, [attempts |-> 1, deadline |-> now + head_timeout])

\* start_retry: the same request, its snapshot and its deadline, one attempt more.
start_retry(t, o, rs) ==
    Start(t, o, rs, [attempts |-> active[t].attempts + 1, deadline |-> active[t].deadline])

-----------------------------------------------------------------------------
(* Commands *)

\* fold_attempt: nothing until libcurl and the consumer have both reported;
\* only a completed, consumed transfer ranks its address.
fold_attempt(o, rs, t) ==
    IF t \notin DOMAIN rs \/ rs[t].outcome = None \/ rs[t].consumed = None
    THEN [origin |-> o, attempts |-> rs, folded |-> {}]
    ELSE LET ranks == rs[t].outcome = "Completed" /\ rs[t].consumed /\ rs[t].sample # None
         IN [origin |-> IF ranks THEN record_sample(o, rs[t].claim.address, rs[t].sample, now) ELSE o,
             attempts |-> Without(rs, t), folded |-> IF ranks THEN {t} ELSE {}]

BodyDone(t) ==
    LET rs == [u \in DOMAIN attempts |->
                 IF u = t THEN [attempts[t] EXCEPT !.consumed = (caller[t] = "consumed"), !.sample = Sample]
                 ELSE attempts[u]]
    IN \E f \in {fold_attempt(origin, rs, t)} :
         /\ origin' = f.origin /\ attempts' = f.attempts /\ ranked' = ranked \cup f.folded
         /\ UNCHANGED <<active, channels, selections, newest, counters>>

\* The mutant takes the claim back only from transfers whose head is out.
CancelQuietly(t) ==
    IF t \notin DOMAIN active
    THEN UNCHANGED <<active, attempts, origin, channels, counters>>
    ELSE /\ active' = Without(active, t) /\ attempts' = Without(attempts, t)
         /\ origin' = IF active[t].published THEN release_candidate(origin, active[t].claim) ELSE origin
         /\ head' = Answer(t, "error") /\ sink' = Finish(t, "cancelled") /\ sinks' = sinks \ {t}
         /\ Count("cancelled")

\* cancel_transfer: a transfer that is finished already is left alone.
cancel_transfer(t) ==
    IF t \notin DOMAIN active
    THEN UNCHANGED <<active, attempts, origin, channels, counters>>
    ELSE /\ active' = Without(active, t)
         /\ attempts' = Without(attempts, t)
         /\ origin' = release_candidate(origin, active[t].claim)
         /\ head' = Answer(t, "error")
         /\ sink' = Finish(t, "cancelled")
         /\ sinks' = sinks \ {t}
         /\ Count("cancelled")

\* One command of a driver round.
Command ==
    /\ phase = "running" /\ queue # <<>>
    /\ queue' = Tail(queue)
    /\ LET t == Head(queue).id IN
       \/ /\ Head(queue).cmd = "Submit"
          /\ start_transfer(t)
          /\ UNCHANGED <<counters, ranked>>
       \/ /\ Head(queue).cmd = "BodyDone"
          /\ BodyDone(t)
       \/ /\ Head(queue).cmd = "Cancel"
          /\ cancel_transfer(t)
          /\ UNCHANGED <<selections, newest, ranked>>
    /\ UNCHANGED <<outside, phase, sent>>

-----------------------------------------------------------------------------
(* libcurl *)

\* The header callback: the response head, or a block that cannot be one,
\* reaches the caller; with its sender gone nothing is published.
HeaderCallback(t) ==
    /\ phase = "running" /\ t \in DOMAIN active
    /\ head[t] = "pending"
    /\ active' = [active EXCEPT ![t].published = TRUE]
    /\ head' \in {Answer(t, "ok"), Answer(t, "error")}
    /\ sent' = [sent EXCEPT ![t] = @ + 1]
    /\ UNCHANGED <<outside, sink, sinks, queue, attempts, policy, counters, phase, ranked>>

is_safe_connect_failure(code, head_published, request_bytes, connect_finished) ==
    /\ ~head_published
    /\ request_bytes = 0
    /\ (code \in {5, 6, 7, 35} \/ (code = 28 /\ connect_finished = 0))

\* How libcurl can fail: before or after the connection stood, before or after
\* the request went out; codes 5 to 7 only before.
Failures(t) ==
    {f \in [code : Codes, established : BOOLEAN, wire : BOOLEAN] :
        /\ active[t].published => f.wire
        /\ f.wire => f.established
        /\ f.code \in {5, 6, 7} => ~f.established}

\* getinfo may tell, or not.
Info(happened) == {IF happened THEN 1 ELSE 0, None}

\* complete_transfer: the reservation is settled and the record joined; then a
\* safe connect failure is retried, and everything else ends the transfer.
complete_transfer(t, outcome, mismatch) ==
    LET a == active[t]
        rs == [u \in DOMAIN attempts |->
                 IF u = t THEN [attempts[t] EXCEPT !.outcome = outcome,
                                                   !.consumed = IF mismatch THEN FALSE ELSE @]
                 ELSE attempts[u]]
    IN \E f \in {fold_attempt(settle(origin, a.claim.address, a.claim.generation, outcome, now), rs, t)} :
       /\ ranked' = ranked \cup f.folded
       /\ IF /\ outcome = "ConnectFailed"
             /\ a.attempts < max_attempts(t) /\ now < a.deadline /\ head[t] = "pending"
          THEN start_retry(t, f.origin, f.attempts) /\ UNCHANGED counters
          ELSE /\ origin' = f.origin
               /\ active' = Without(active, t)
               /\ attempts' = IF a.published THEN f.attempts ELSE Without(f.attempts, t)
               /\ head' = Answer(t, "error")
               /\ sink' = Finish(t, IF outcome = "Completed" THEN "eof" ELSE "failed")
               /\ sinks' = sinks \ {t}
               /\ Count("completed")
               /\ UNCHANGED <<selections, newest>>

\* Curl is done with the whole response, wherever it really connected.
Succeed(t) ==
    /\ phase = "running" /\ t \in DOMAIN active
    /\ active[t].published \/ head[t] # "pending"
    /\ \E mismatch \in BOOLEAN : complete_transfer(t, "Completed", mismatch)
    /\ UNCHANGED <<outside, queue, phase, sent>>

Fail(t) ==
    /\ phase = "running" /\ t \in DOMAIN active
    /\ \E f \in Failures(t) :
         /\ sent' = [sent EXCEPT ![t] = IF f.wire /\ ~active[t].published THEN @ + 1 ELSE @]
         /\ \E request_bytes \in Info(f.wire), connect_finished \in Info(f.established) :
              complete_transfer(t, IF is_safe_connect_failure(f.code, active[t].published,
                                                              request_bytes, connect_finished)
                                   THEN "ConnectFailed" ELSE "Failed", FALSE)
    /\ UNCHANGED <<outside, queue, phase>>

\* Every transfer of the pool ends with this terminal, its claim released.
EndAll(terminal) ==
    LET T == DOMAIN active
    IN /\ active' = <<>>
       /\ origin' = FoldSet(LAMBDA t, o : release_candidate(o, active[t].claim), origin, T)
       /\ head' = [t \in Transfers |-> IF t \in T /\ head[t] = "pending" THEN "error" ELSE head[t]]
       /\ sink' = [t \in Transfers |-> IF t \in T /\ sink[t] = "open" THEN terminal ELSE sink[t]]
       /\ UNCHANGED <<selections, newest, counters, ghosts>>

\* fail_pool: a Multi that cannot perform fails what it runs.
fail_pool ==
    /\ phase = "running" /\ SetupErrors /\ active # <<>>
    /\ EndAll("failed")
    /\ attempts' = [t \in DOMAIN attempts \ DOMAIN active |-> attempts[t]]
    /\ sinks' = sinks \ DOMAIN active
    /\ UNCHANGED <<outside, queue, phase>>

-----------------------------------------------------------------------------
(* The end of the thread *)

\* The loop ends once nothing outside references the driver: what is in flight
\* is cancelled, then the exit guard fails what is left.
Shutdown ==
    /\ phase = "running" /\ ~Referenced
    /\ EndAll("cancelled")
    /\ attempts' = <<>> /\ sinks' = {} /\ phase' = "exiting"
    /\ UNCHANGED <<outside, queue>>

\* The thread unwinds: its handles drop their head senders, then the exit
\* guard marks the driver dead and fails every sink.
Panic ==
    /\ phase = "running"
    /\ active' = <<>> /\ attempts' = <<>> /\ origin' = NewOrigin(0)
    /\ head' = [t \in Transfers |-> IF t \in DOMAIN active /\ head[t] = "pending" THEN "error" ELSE head[t]]
    /\ sink' = [t \in Transfers |-> IF t \in sinks /\ sink[t] = "open" THEN "failed" ELSE sink[t]]
    /\ sinks' = {}
    /\ phase' = "exiting"
    /\ UNCHANGED <<outside, queue, selections, newest, counters, ghosts>>

\* The guard then closes the queue: commands still in it drop their senders.
CloseQueue ==
    /\ phase = "exiting"
    /\ phase' = "gone"
    /\ head' = [t \in Transfers |-> IF head[t] = "pending" THEN "error" ELSE head[t]]
    /\ queue' = <<>>
    /\ UNCHANGED <<outside, sink, sinks, active, attempts, policy, counters, ghosts>>

-----------------------------------------------------------------------------
(* The environment *)

DnsChanges == /\ dns < Len(Answers) /\ dns' = dns + 1
              /\ UNCHANGED <<now, caller, options, handle, channels, queue, active, attempts, policy,
                             counters, phase, ghosts>>

Tick == /\ now < MaxTime /\ now' = now + 1
        /\ UNCHANGED <<dns, caller, options, handle, channels, queue, active, attempts, policy,
                       counters, phase, ghosts>>

Next == \/ \E t \in Transfers : \/ get(t) \/ Submit(t) \/ HeadArrives(t) \/ HeadFails(t)
                                \/ DropFuture(t) \/ HeaderCallback(t) \/ Succeed(t) \/ Fail(t)
        \/ \E t \in Transfers, saw_eof \in BOOLEAN : DropBody(t, saw_eof)
        \/ DropHandle \/ Command \/ fail_pool \/ Shutdown \/ Panic \/ CloseQueue
        \/ DnsChanges \/ Tick

Spec == Init /\ [][Next]_vars

-----------------------------------------------------------------------------
(* Properties *)

\* Each address carries exactly the reservations of the transfers that run on
\* it, whatever the order of retries, cancels, failures and DNS changes: no
\* reservation leaks and none is released twice (settle, release_candidate).
ReservationsBalance ==
    /\ \A i \in Places(origin) : origin.candidates[i].in_flight =
          Cardinality({t \in DOMAIN active : active[t].claim.address = AddressAt(origin, i)})
    /\ \A t \in DOMAIN active : PlaceOf(origin, active[t].claim.address) # {}

\* Callers and transfers keep track of each other.  Nobody waits for what
\* cannot come: an open head has its Submit queued or its transfer running, an
\* open body its transfer running, also after the thread panicked.  And no
\* transfer runs on for a caller that left: its Cancel is on the way, or the
\* thread is about to stop (PendingHead, BodyStream::drop, ExitGuard).
Queued(cmd, t) == \E k \in DOMAIN queue : queue[k] = [cmd |-> cmd, id |-> t]
CallersAndTransfersAgree ==
    \A t \in Transfers :
        /\ caller[t] = "waiting" /\ head[t] = "pending" => t \in DOMAIN active \/ Queued("Submit", t)
        /\ caller[t] \in {"waiting", "reading"} /\ head[t] = "ok" /\ sink[t] = "open" => t \in DOMAIN active
        /\ caller[t] \in {"failed", "abandoned"} /\ (t \in DOMAIN active \/ Queued("Submit", t)) =>
              Queued("Cancel", t) \/ ~Referenced

\* The driver's own retries never repeat a request that was on the wire, and
\* stay within the candidates of the snapshot (is_safe_connect_failure).
RetriesAreSafe ==
    \A t \in Transfers : /\ sent[t] <= 1
                         /\ t \in DOMAIN active => active[t].attempts <= max_attempts(t)

\* Only a response that was read to its end ranks the address it came from;
\* the two reports arrive in either order (fold_attempt).
RankedWereRead == \A t \in ranked : caller[t] = "consumed" /\ sink[t] = "eof"

(* The books of the driver thread: reservations, callers, retries and the   *)
(* samples that rank an address.                                            *)
DriverKeepsItsBooks ==
  ReservationsBalance /\ CallersAndTransfersAgree /\ RetriesAreSafe /\ RankedWereRead

-----------------------------------------------------------------------------
(* What the repository says of this code, and the code does not do *)

\* The comment on count_cancelled: every submission is completed, cancelled or
\* active, whenever the queue is empty.
CountersBalance ==
    phase = "running" /\ handle /\ queue = <<>> =>
        counters.submitted = counters.completed + counters.cancelled + Cardinality(DOMAIN active)

\* An attempt record waits only for reports that can still come: its transfer
\* runs, or its body is open, or a BodyDone is queued (complete_transfer).
RecordsAreClosed ==
    \A t \in DOMAIN attempts :
        \/ t \in DOMAIN active \/ ~handle
        \/ caller[t] \in {"waiting", "reading"}
        \/ \E k \in DOMAIN queue : queue[k].id = t

\* An address the newest DNS answer no longer has gets no new transfer.
RemovedGetsNothing ==
    [][\A t \in Transfers :
        t \in DOMAIN active' /\ (t \in DOMAIN active => active'[t].attempts # active[t].attempts)
        => active'[t].claim.address \in ToSet(Answers[newest'])]_vars
=============================================================================

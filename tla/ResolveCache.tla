---------------------------- MODULE ResolveCache ----------------------------
(***************************************************************************)
(* How a DNS answer reaches libcurl without the multi-IP policy: a request *)
(* looks its hop up (curl/transport.rs, dns.rs), the driver decides what   *)
(* to inject into the pool's DNS cache (plan_resolve), records it once the *)
(* handle joined the pool (commit_resolve), and libcurl loads it when it   *)
(* first drives the handle.  One pool, one host.  An answer is a model     *)
(* value standing for its list of addresses; OwnLookup stands for what     *)
(* libcurl's own resolver would find.                                      *)
(***************************************************************************)
EXTENDS Sequences, FiniteSets, Naturals, SequencesExt

CONSTANTS
  Requests, Answers, None, OwnLookup,
  EarlyDrops        \* callers may give up before libcurl drove their handle

VARIABLES
  dns,              \* the answer the resolver gives now
  state, own,       \* per request: how far it is, its answer
  queue, batch,     \* CommandQueue; the commands the driver took from it
  plan,             \* per request: the ResolvePlan of its handle
  added,            \* handles that joined the multi and were not driven yet
  entry,            \* Pool.resolve for the host: spec and whether its TTL passed
  cache,            \* libcurl's DNS cache of this pool
  idle,             \* idle connections, by the answer they were opened for
  used              \* per request: its connection, and whether that was cached

request_vars == <<state, own>>
vars == <<dns, state, own, queue, batch, plan, added, entry, cache, idle, used>>

NoPlan == [inject |-> FALSE, force_fresh_connect |-> FALSE]
NoConnection == [to |-> None, reused |-> FALSE]

Init ==
  /\ dns \in Answers
  /\ state = [r \in Requests |-> "new"] /\ own = [r \in Requests |-> None]
  /\ queue = <<>> /\ batch = <<>> /\ added = <<>>
  /\ plan = [r \in Requests |-> NoPlan]
  /\ entry = None /\ cache = None /\ idle = {}
  /\ used = [r \in Requests |-> NoConnection]

-----------------------------------------------------------------------------
(* The zone changes, or the injected answer's time to live runs out.        *)
DnsChanges ==
  /\ dns' \in Answers \ {dns}
  /\ UNCHANGED <<request_vars, queue, batch, plan, added, entry, cache, idle, used>>

Expires ==
  /\ entry # None /\ ~entry.expired
  /\ entry' = [entry EXCEPT !.expired = TRUE]
  /\ UNCHANGED <<dns, request_vars, queue, batch, plan, added, cache, idle, used>>

(* resolve_for: the answer of now, as a ResolveEntry.                       *)
resolve_for(r) ==
  /\ state[r] = "new"
  /\ state' = [state EXCEPT ![r] = "resolved"] /\ own' = [own EXCEPT ![r] = dns]
  /\ UNCHANGED <<dns, queue, batch, plan, added, entry, cache, idle, used>>

(* DriverHandle::get: submitted some time after the lookup.                 *)
Submit(r) ==
  /\ state[r] = "resolved"
  /\ state' = [state EXCEPT ![r] = "queued"]
  /\ queue' = Append(queue, [op |-> "Submit", r |-> r])
  /\ UNCHANGED <<dns, own, batch, plan, added, entry, cache, idle, used>>

(* The caller gives up; PendingHead or BodyStream sends the cancellation.   *)
DropFuture(r) ==
  /\ state[r] \in {"running"} \cup (IF EarlyDrops THEN {"queued", "added"} ELSE {})
  /\ \A i \in 1..Len(queue \o batch) : (queue \o batch)[i] # [op |-> "Cancel", r |-> r]
  /\ queue' = Append(queue, [op |-> "Cancel", r |-> r])
  /\ UNCHANGED <<dns, request_vars, batch, plan, added, entry, cache, idle, used>>

-----------------------------------------------------------------------------
(* One round of run_driver: all commands, then all handles.                 *)
drain ==
  /\ batch = <<>> /\ added = <<>> /\ queue # <<>>
  /\ batch' = queue /\ queue' = <<>>
  /\ UNCHANGED <<dns, request_vars, plan, added, entry, cache, idle, used>>

(* plan_resolve: inject the first answer, a changed one and an expired one; *)
(* a changed one also forces a new connection.                              *)
plan_resolve(answer) ==
  IF entry = None THEN [inject |-> TRUE, force_fresh_connect |-> FALSE]
  ELSE [inject |-> entry.spec # answer \/ entry.expired,
        force_fresh_connect |-> entry.spec # answer]


commit_resolve(joined, r, p) ==
  IF joined /\ p.inject THEN [spec |-> own[r], expired |-> FALSE] ELSE entry

(* start_transfer and attach_transfer; adding the handle may fail.          *)
start_transfer(joined) ==
  /\ batch # <<>> /\ Head(batch).op = "Submit"
  /\ LET r == Head(batch).r
         p == plan_resolve(own[r])
     IN /\ entry' = commit_resolve(joined, r, p)
        /\ plan' = [plan EXCEPT ![r] = IF joined THEN p ELSE NoPlan]
        /\ added' = IF joined THEN Append(added, r) ELSE added
        /\ state' = [state EXCEPT ![r] = IF joined THEN "added" ELSE "done"]
  /\ batch' = Tail(batch)
  /\ UNCHANGED <<dns, own, queue, cache, idle, used>>

(* cancel_transfer: the handle leaves the pool and its connection closes.   *)
cancel_transfer ==
  /\ batch # <<>> /\ Head(batch).op = "Cancel"
  /\ LET r == Head(batch).r IN
       /\ state' = [state EXCEPT ![r] = "done"]
       /\ added' = Remove(added, r)
       /\ plan' = [plan EXCEPT ![r] = NoPlan]
       /\ used' = [used EXCEPT ![r] = NoConnection]
  /\ batch' = Tail(batch)
  /\ UNCHANGED <<dns, own, queue, entry, cache, idle>>

(* libcurl drives a new handle: it loads the handle's list, then takes a    *)
(* cached connection unless the handle demands a new one, or opens one.     *)
Perform ==
  /\ batch = <<>> /\ added # <<>>
  /\ LET r == Head(added)
         known == IF plan[r].inject THEN own[r] ELSE cache
         opened == [to |-> IF known = None THEN OwnLookup ELSE known, reused |-> FALSE]
     IN /\ cache' = known
        /\ used' \in {[used EXCEPT ![r] = c] : c \in
             {opened} \cup {[to |-> a, reused |-> TRUE] :
                              a \in IF plan[r].force_fresh_connect THEN {} ELSE idle}}
        /\ idle' = IF used'[r].reused THEN idle \ {used'[r].to} ELSE idle
        /\ state' = [state EXCEPT ![r] = "running"]
  /\ added' = Tail(added)
  /\ UNCHANGED <<dns, own, queue, batch, plan, entry>>

(* complete_transfer: the connection goes back to the pool or is closed.    *)
complete_transfer(r) ==
  /\ batch = <<>> /\ added = <<>> /\ state[r] = "running"
  /\ state' = [state EXCEPT ![r] = "done"]
  /\ idle' \in {idle, idle \cup {used[r].to}}
  /\ used' = [used EXCEPT ![r] = NoConnection] /\ plan' = [plan EXCEPT ![r] = NoPlan]
  /\ UNCHANGED <<dns, own, queue, batch, added, entry, cache>>

(* reclaim_idle_pools drops the pool with everything it cached.             *)
reclaim_idle_pools ==
  /\ batch = <<>> /\ added = <<>>
  /\ \A r \in Requests : state[r] # "running"
  /\ entry' = None /\ cache' = None /\ idle' = {}
  /\ UNCHANGED <<dns, request_vars, queue, batch, plan, added, used>>

Next ==
  \/ DnsChanges \/ Expires
  \/ \E r \in Requests : resolve_for(r) \/ Submit(r) \/ DropFuture(r) \/ complete_transfer(r)
  \/ drain \/ cancel_transfer \/ Perform \/ reclaim_idle_pools
  \/ \E joined \in BOOLEAN : start_transfer(joined)

Spec == Init /\ [][Next]_vars

-----------------------------------------------------------------------------

(* plan_resolve, where it injects nothing: "libcurl still holds this answer *)
(* in the pool's cache."                                                    *)
LibcurlHoldsAnswer ==
  \A r \in Requests : state[r] = "running" /\ ~used[r].reused => used[r].to = own[r]
=============================================================================

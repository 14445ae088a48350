------------------------------ MODULE IdlePool ------------------------------
(***************************************************************************)
(* The idle connections of one pool (struct Pool and the reclamation passes*)
(* of src/network/curl/driver/mod.rs) beside libcurl's real connection     *)
(* cache, which the driver cannot see.  Transfers pinned by the address    *)
(* policy are followed by libcurl's connection identity; the others by an  *)
(* estimate: a joining transfer takes the oldest date.                     *)
(*                                                                         *)
(* The cache is libcurl's: it reuses any idle connection it likes, closes  *)
(* what failed, and evicts its oldest idle connection above the bound.     *)
(* libcurl is recent enough to tell connection ids and to clear a cache.   *)
(***************************************************************************)
EXTENDS Integers, FiniteSets, FiniteSetsExt, TLC

CONSTANTS None, Transfers,
          Kinds,              \* of transfers: "pinned", "plain"
          max_idle_per_host, pool_idle_timeout,
          DRIVER_WAIT_SLICE, DRIVER_IDLE_WAIT,
          MaxTime, MaxConns   \* bounds: the clock, connections of one Multi

VARIABLES now,
          wake_at,           \* until when the driver waits
          conns,             \* libcurl: connection id -> its state
          opened,            \* libcurl: ids handed out by this Multi
          active,            \* transfer -> what it holds
          idle_since, idle, pinned_idle, clear_generation, cache_bound, cache_high_water

estimate == <<idle, pinned_idle, clear_generation>>
pool == <<idle_since, estimate, cache_bound, cache_high_water>>
libcurl == <<conns, opened>>
vars == <<now, wake_at, libcurl, active, pool>>

Symmetry == Permutations(Transfers)

Instants == 0..MaxTime
NoDates == [d \in Instants |-> 0]
Without(f, x) == [y \in DOMAIN f \ {x} |-> f[y]]
With(f, x, v) == [y \in DOMAIN f \cup {x} |-> IF y = x THEN v ELSE f[y]]

\* Pool::new
NewPool ==
    /\ conns' = <<>> /\ opened' = 0
    /\ idle_since' = now /\ idle' = NoDates /\ pinned_idle' = <<>> /\ clear_generation' = 0
    /\ cache_bound' = max_idle_per_host /\ cache_high_water' = max_idle_per_host

Init ==
    /\ now = 0 /\ wake_at = 0
    /\ conns = <<>> /\ opened = 0 /\ active = <<>>
    /\ idle_since = 0 /\ idle = NoDates /\ pinned_idle = <<>> /\ clear_generation = 0
    /\ cache_bound = max_idle_per_host /\ cache_high_water = max_idle_per_host

-----------------------------------------------------------------------------
(* The estimate *)

Dates == {d \in Instants : idle[d] > 0}

\* idle_connections
idle_connections == FoldSet(LAMBDA d, n : n + idle[d], 0, Instants) + Cardinality(DOMAIN pinned_idle)

\* oldest_idle, over both kinds
oldest_idle ==
    LET all == Dates \cup {pinned_idle[c] : c \in DOMAIN pinned_idle}
    IN IF all = {} THEN None ELSE Min(all)

\* settle_pinned_connection
settle_pinned_connection(generation, conn, completed) ==
    IF generation # clear_generation \/ conn = None THEN UNCHANGED estimate
    ELSE /\ pinned_idle' = IF completed THEN With(pinned_idle, conn, now) ELSE Without(pinned_idle, conn)
         /\ UNCHANGED <<idle, clear_generation>>

\* settle_connection: an unused claim keeps its date, what the transfer leaves
\* behind starts now.
settle_connection(a, exit) ==
    LET returned == IF a.claim # None /\ (a.created > 0 \/ exit = "Cancelled") THEN {a.claim} ELSE {}
        left == IF exit = "Completed" THEN Max({a.created, 1}) ELSE 0
    IN IF a.generation # clear_generation THEN UNCHANGED estimate
       ELSE /\ idle' = [d \in Instants |-> idle[d] + (IF d \in returned THEN 1 ELSE 0)
                                                   + (IF d = now THEN left ELSE 0)]
            /\ UNCHANGED <<pinned_idle, clear_generation>>

-----------------------------------------------------------------------------
(* Transfers *)

\* attach_transfer's half of the pool: a plain transfer that may reuse claims
\* the oldest date.
Attach(t, kind, fresh) ==
    LET claims == kind = "plain" /\ ~fresh /\ Dates # {}
    IN /\ t \notin DOMAIN active
       /\ fresh => kind = "plain" \* of a pinned one libcurl's choice says as much
       /\ active' = With(active, t, [kind |-> kind, fresh |-> fresh, conn |-> None, created |-> 0,
                                     claim |-> IF claims THEN Min(Dates) ELSE None,
                                     generation |-> clear_generation])
       /\ idle' = IF claims THEN [idle EXCEPT ![Min(Dates)] = @ - 1] ELSE idle
       /\ idle_since' = None /\ wake_at' = now
       /\ UNCHANGED <<now, libcurl, pinned_idle, clear_generation, cache_bound, cache_high_water>>

\* The mutant believes a pinned transfer takes the connection idle for longest.
ObservePinned(conn) ==
    LET oldest == {c \in DOMAIN pinned_idle : pinned_idle[c] = Min({pinned_idle[d] : d \in DOMAIN pinned_idle})}
    IN IF oldest = {} THEN pinned_idle ELSE Without(pinned_idle, CHOOSE c \in oldest : TRUE)

\* observe_pinned_connections: the connection really used is no longer idle.
observe_pinned_connections(conn) == Without(pinned_idle, conn)

\* libcurl gives a transfer its connection inside perform: any idle one, or a
\* new one; then the pool looks.
IdleConns == {c \in DOMAIN conns : conns[c].user = None}
Assign(t, c) ==
    /\ t \in DOMAIN active /\ active[t].conn = None
    /\ \/ c \in IdleConns /\ ~active[t].fresh
       \/ c = opened + 1 /\ c <= MaxConns
    /\ active' = [active EXCEPT ![t].conn = c, ![t].created = IF c > opened THEN 1 ELSE 0]
    /\ conns' = With(conns, c, [user |-> t, since |-> now, reusable |-> max_idle_per_host # 0,
                                kind |-> active[t].kind])
    /\ opened' = Max({opened, c})
    /\ pinned_idle' = IF active[t].kind = "pinned" THEN observe_pinned_connections(c) ELSE pinned_idle
    /\ UNCHANGED <<now, wake_at, idle, clear_generation, idle_since, cache_bound, cache_high_water>>

\* What libcurl does with the connection of a finished transfer.
Returned(c) == With(conns, c, [conns[c] EXCEPT !.user = None, !.since = now])
Evicted(cs) ==
    LET free == {c \in DOMAIN cs : cs[c].user = None}
        oldest == {c \in free : \A d \in free : cs[c].since <= cs[d].since}
    IN IF Cardinality(DOMAIN cs) <= cache_bound \/ free = {} THEN {cs}
       ELSE {Without(cs, c) : c \in oldest}

\* complete_transfer's and cancel_transfer's half of the pool.
Leave(t, exit) ==
    LET a == active[t]
    IN /\ t \in DOMAIN active /\ (a.conn = None => exit # "Completed")
       /\ conns' \in IF exit = "Completed" /\ conns[a.conn].reusable THEN Evicted(Returned(a.conn))
                     ELSE {Without(conns, a.conn)}
       /\ active' = Without(active, t)
       /\ idle_since' = IF active' = <<>> THEN now ELSE idle_since
       /\ IF a.kind = "pinned" THEN settle_pinned_connection(a.generation, a.conn, exit = "Completed")
                               ELSE settle_connection(a, exit)
       /\ wake_at' = now
       /\ UNCHANGED <<now, opened, cache_bound, cache_high_water>>

\* A cached connection dies; the driver is not told.
PeerCloses(c) ==
    /\ c \in IdleConns
    /\ conns' = Without(conns, c)
    /\ UNCHANGED <<now, wake_at, opened, active, pool>>

-----------------------------------------------------------------------------
(* A driver round: the cache bound, the two reclamation passes, the wait *)

reuse_disabled == max_idle_per_host = 0

\* cache_bound(): room for the other active transfers
CacheBound == max_idle_per_host + Max({Cardinality(DOMAIN active) - 1, 0})

\* idle_deadline of a pool without transfers
idle_deadline ==
    IF reuse_disabled THEN now
    ELSE Min({idle_since} \cup {pinned_idle[c] : c \in DOMAIN pinned_idle}) + pool_idle_timeout

\* reclaim_idle_pools: an oversized or overdue pool is dropped.
PoolIsDue ==
    \/ cache_high_water > max_idle_per_host /\ idle_connections > max_idle_per_host
    \/ now >= idle_deadline

\* reclaim_idle_connections: clear_idle_connections on a busy pool.
ClearIsDue == ~reuse_disabled /\ oldest_idle # None /\ now >= oldest_idle + pool_idle_timeout
clear_idle_connections ==
    /\ conns' = [c \in DOMAIN conns \ IdleConns |-> [conns[c] EXCEPT !.reusable = FALSE]]
    /\ idle' = NoDates /\ pinned_idle' = <<>>
    /\ clear_generation' = clear_generation + 1

\* One pass: next_idle_wait, or a poll slice with transfers.
Round ==
    /\ now >= wake_at
    /\ \/ /\ active = <<>> /\ PoolIsDue
          /\ NewPool
          /\ wake_at' = now + DRIVER_IDLE_WAIT
       \/ /\ active = <<>> /\ ~PoolIsDue
          /\ wake_at' = idle_deadline
          /\ UNCHANGED <<libcurl, pool>>
       \/ /\ active # <<>>
          /\ \A t \in DOMAIN active : active[t].conn # None \* perform came first
          /\ cache_bound' = IF reuse_disabled THEN cache_bound ELSE CacheBound
          /\ cache_high_water' = Max({cache_high_water, cache_bound'})
          /\ IF ClearIsDue THEN clear_idle_connections /\ UNCHANGED opened
                           ELSE UNCHANGED <<libcurl, estimate>>
          /\ wake_at' = now + DRIVER_WAIT_SLICE
          /\ UNCHANGED idle_since
    /\ UNCHANGED <<now, active>>

Tick == now < wake_at /\ now < MaxTime /\ now' = now + 1 /\ UNCHANGED <<wake_at, libcurl, active, pool>>

Next == \/ \E t \in Transfers, kind \in Kinds, fresh \in BOOLEAN : Attach(t, kind, fresh)
        \/ \E t \in Transfers, c \in 1..MaxConns : Assign(t, c)
        \/ \E t \in Transfers, exit \in {"Completed", "Failed", "Cancelled"} : Leave(t, exit)
        \/ \E c \in 1..MaxConns : PeerCloses(c)
        \/ Round \/ Tick

Spec == Init /\ [][Next]_vars

-----------------------------------------------------------------------------

\* A connection the policy's traffic left idle is closed when its own timeout
\* ends, however busy the pool is with other connections and however often the
\* pool was idle in between (pinned_idle, idle_deadline).
PinnedDiesOnTime ==
    \A c \in IdleConns : conns[c].kind = "pinned" => now <= conns[c].since + pool_idle_timeout

\* A pool that waits without a transfer keeps no more of the policy's
\* connections than configured, whatever burst went before (cache_high_water).
QuietPoolIsBounded ==
    active = <<>> /\ wake_at > now =>
        Cardinality({c \in IdleConns : conns[c].kind = "pinned"}) <= max_idle_per_host

(* The reclamation passes: connections left by the address policy are idle  *)
(* for no longer than pool_idle_timeout and, in a pool without transfers,   *)
(* no more than max_idle_per_host.                                          *)
IdleIsBounded == PinnedDiesOnTime /\ QuietPoolIsBounded

\* The comment on Pool::idle: a connection nobody reused keeps its own deadline
\* no matter how much other traffic the pool sees.
UnusedKeepsDeadline == \A c \in IdleConns : now <= conns[c].since + pool_idle_timeout
=============================================================================

------------------------------ MODULE Transport ------------------------------
(***************************************************************************)
(* One request from the configuration to the response head: the proxies    *)
(* and timeouts of the downloader, the task and the environment            *)
(* (config.rs, network.rs), the route and the name lookup                  *)
(* (curl/transport.rs), and the connect attempts of the driver             *)
(* (curl/driver/mod.rs).  Time is counted from CurlTransport::request.     *)
(* Pool and TLS settings are copied through and left out.                  *)
(***************************************************************************)
EXTENDS Integers

CONSTANTS
  None, Blank,                      \* no setting; a setting of white space
  BaseProxies, TaskProxies, EnvProxies,   \* the settings tried at each level
  BadProxies, LiteralProxies,       \* not http or https; named by an IP address
  ConnectTimeouts, HeadDeadlines,   \* the values tried
  MaxAddresses,                     \* bound: addresses in one DNS answer
  MIN_CONNECT_SLICE, MAX_INTERNAL_CONNECT_ATTEMPTS,
  Milli                             \* units of time in a millisecond

(* What the constants have to satisfy.                                      *)
TimesArePositive ==
  ConnectTimeouts \cup HeadDeadlines \cup {Milli, MIN_CONNECT_SLICE} \subseteq Nat \ {0}

VARIABLES
  base, task, env,  \* proxy settings by label
  connect_timeout, head_deadline, multi_ip, scheme, named,  \* this request
  phase, spent,
  own, ambient,     \* the proxies the task's settings and the environment give it
  proxy,            \* options.proxy
  lookups,          \* the names looked up: "origin", or a proxy
  lookup_time,
  addresses,        \* candidates handed to the driver; 0 without the policy
  connect,          \* options.connect_timeout as handed to the driver
  deadline,         \* RetryState.deadline
  attempts, connect_by, connecting   \* attempts, end of this one, time in all of them

config == <<base, task, env>>
request_vars == <<connect_timeout, head_deadline, multi_ip, scheme, named>>
routed == <<own, ambient, proxy>>
looked == <<lookups, lookup_time>>
driver_vars == <<addresses, connect, deadline, attempts, connect_by, connecting>>
vars == <<config, request_vars, phase, spent, routed, looked, driver_vars>>

Labels == {"all", "http", "https"}
NoProxies == [l \in Labels |-> None]
MinOf(a, b) == IF a <= b THEN a ELSE b
MaxOf(a, b) == IF a >= b THEN a ELSE b

Init ==
  /\ base \in [Labels -> BaseProxies]
  /\ task \in [Labels -> TaskProxies]
  /\ env \in [Labels -> EnvProxies]
  /\ connect_timeout \in ConnectTimeouts /\ head_deadline \in HeadDeadlines
  /\ multi_ip \in BOOLEAN /\ scheme \in {"http", "https"} /\ named \in BOOLEAN
  /\ phase = "config" /\ spent = 0 /\ own = None /\ ambient = None /\ proxy = None /\ lookups = {}
  /\ lookup_time = 0 /\ addresses = 0 /\ connect = 0 /\ deadline = 0
  /\ attempts = 0 /\ connect_by = 0 /\ connecting = 0

-----------------------------------------------------------------------------
(* resolve_network_config: one proxy set by the task replaces all three.    *)
resolve_network_config(defaults, overrides) ==
  IF overrides # NoProxies THEN overrides ELSE defaults

(* proxy_uri: a setting that is not blank, else the environment's.          *)
proxy_uri(explicit, from_env) == IF explicit \notin {None, Blank} THEN explicit ELSE from_env

effective_proxies(c) == [l \in Labels |-> proxy_uri(c[l], env[l])]

proxy_for(proxies) == IF proxies[scheme] # None THEN proxies[scheme] ELSE proxies["all"]

(* resolve_for: the hop to look up; None for an IP literal.                 *)
Target(p) ==
  IF p # None THEN IF p \in LiteralProxies THEN None ELSE p
  ELSE IF named THEN "origin" ELSE None

connect_budget == MinOf(connect_timeout, head_deadline)

Remaining(budget) == MaxOf(budget - spent, 0)

(* CURLOPT_CONNECTTIMEOUT_MS takes whole milliseconds, and zero selects     *)
(* libcurl's default of 300 seconds.                                        *)
ConnectTimeoutMs(d) == IF d \div Milli = 0 THEN 300000 * Milli ELSE (d \div Milli) * Milli

connect_slice(remaining_head, attempts_left, configured) ==
  MinOf(configured, MinOf(MaxOf(remaining_head \div MaxOf(attempts_left, 1), MIN_CONNECT_SLICE),
                          remaining_head))

max_attempts == MinOf(addresses, MAX_INTERNAL_CONNECT_ATTEMPTS)

Fail == phase' = "failed"

-----------------------------------------------------------------------------
(* build_client and options_for: the request gets its route.                *)
build_client ==
  /\ phase = "config"
  /\ LET proxies == effective_proxies(resolve_network_config(base, task)) IN
       \/ /\ \E l \in Labels : proxies[l] \in BadProxies
          /\ Fail /\ UNCHANGED <<proxy, own, ambient>>
       \/ /\ \A l \in Labels : proxies[l] \notin BadProxies
          /\ proxy' = proxy_for(proxies) /\ own' = proxy_for(task) /\ ambient' = env[scheme]
          /\ phase' = "resolve"
  /\ base' = NoProxies /\ task' = NoProxies /\ env' = NoProxies
  /\ UNCHANGED <<request_vars, spent, lookups, lookup_time, driver_vars>>

(* resolve_for without a lookup: the hop is an IP literal.                  *)
Literal ==
  /\ phase = "resolve" /\ Target(proxy) = None
  /\ phase' = "resolved"
  /\ UNCHANGED <<config, request_vars, spent, routed, looked, driver_vars>>

(* The lookup answers within the connect budget, with n addresses; no       *)
(* address, or an error, fails the request.                                 *)
Lookup(n) ==
  /\ phase = "resolve" /\ Target(proxy) # None
  /\ lookups' = lookups \cup {Target(proxy)}
  /\ spent' \in 0..connect_budget /\ lookup_time' = spent'
  /\ phase' = IF n = 0 THEN "failed" ELSE "resolved"
  /\ addresses' = IF multi_ip /\ proxy = None THEN n ELSE 0
  /\ UNCHANGED <<config, request_vars, routed, connect, deadline, attempts, connect_by, connecting>>

LookupTimeout ==
  /\ phase = "resolve" /\ Target(proxy) # None
  /\ lookups' = lookups \cup {Target(proxy)}
  /\ spent' = connect_budget /\ lookup_time' = spent' /\ Fail
  /\ UNCHANGED <<config, request_vars, routed, driver_vars>>

(* request hands the transfer to the driver with what is left of both       *)
(* budgets.                                                                 *)
request ==
  /\ phase = "resolved"
  /\ \/ /\ Remaining(connect_budget) = 0
        /\ Fail /\ UNCHANGED connect
     \/ /\ Remaining(connect_budget) > 0
        /\ connect' = Remaining(connect_budget) /\ phase' = "queued"
  /\ UNCHANGED <<config, request_vars, spent, routed, looked, addresses, deadline,
                 attempts, connect_by, connecting>>

(* The caller of DriverHandle::get waits for the head until its deadline,   *)
(* then drops the transfer.                                                 *)
HeadTimeout ==
  /\ phase \in {"queued", "connecting", "connected"}
  /\ phase = "connecting" => connect_by >= head_deadline
  /\ spent' = head_deadline /\ Fail
  /\ connecting' = connecting + (IF phase = "connecting" THEN head_deadline - spent ELSE 0)
  /\ UNCHANGED <<config, request_vars, routed, looked, addresses, connect, deadline,
                 attempts, connect_by>>

(* start_transfer, after some time in the queue; with the policy the first  *)
(* attempt gets its slice.                                                  *)
start_transfer ==
  /\ phase = "queued"
  /\ spent' \in spent..head_deadline - 1
  /\ LET head_timeout == Remaining(head_deadline) IN
       /\ deadline' = spent' + head_timeout
       /\ connect_by' = spent' + ConnectTimeoutMs(
            IF addresses > 0 THEN connect_slice(head_timeout, max_attempts, connect) ELSE connect)
  /\ attempts' = 1 /\ phase' = "connecting"
  /\ UNCHANGED <<config, request_vars, routed, looked, addresses, connect, connecting>>

(* The attempt fails or its time is up.  A policy transfer tries the next   *)
(* address while attempts and time are left (complete_transfer,             *)
(* start_retry); the snapshot may have expired meanwhile.                   *)
ConnectFails(expired) ==
  /\ phase = "connecting"
  /\ spent' \in spent..MinOf(connect_by, head_deadline - 1)
  /\ connecting' = connecting + (spent' - spent)
  /\ LET remaining == MaxOf(deadline - spent', 0) IN
       \/ /\ attempts < max_attempts /\ remaining > 0 /\ ~expired
          /\ attempts' = attempts + 1 /\ phase' = "connecting"
          /\ connect_by' = spent' + ConnectTimeoutMs(
               connect_slice(remaining, max_attempts - attempts, connect))
       \/ /\ attempts >= max_attempts \/ remaining = 0 \/ expired
          /\ Fail /\ UNCHANGED <<attempts, connect_by>>
  /\ UNCHANGED <<config, request_vars, routed, looked, addresses, connect, deadline>>

Connected ==
  /\ phase = "connecting"
  /\ spent' \in spent..MinOf(connect_by, head_deadline - 1)
  /\ connecting' = connecting + (spent' - spent)
  /\ phase' = "connected"
  /\ UNCHANGED <<config, request_vars, routed, looked, addresses, connect, deadline,
                 attempts, connect_by>>

HeadArrives ==
  /\ phase = "connected"
  /\ spent' \in spent..head_deadline - 1 /\ phase' = "ok"
  /\ UNCHANGED <<config, request_vars, routed, looked, driver_vars>>

Next ==
  \/ build_client \/ Literal \/ LookupTimeout \/ request
  \/ \E n \in 0..MaxAddresses : Lookup(n)
  \/ HeadTimeout \/ start_transfer \/ Connected \/ HeadArrives
  \/ \E expired \in BOOLEAN : ConnectFails(expired)

Spec == Init /\ [][Next]_vars

-----------------------------------------------------------------------------
(* resolve_for and options_for: a proxied request looks up its proxy and    *)
(* never the origin, the policy only chooses for direct requests, and a     *)
(* task with a proxy of its own is never sent through the downloader's      *)
(* default.                                                                 *)
RouteIsSound ==
  /\ proxy # None => "origin" \notin lookups /\ addresses = 0
  /\ addresses > 0 => multi_ip /\ lookups = {"origin"}
  /\ own # None => proxy \in {own, ambient}

(* request, start_transfer and start_retry: however the time goes to the    *)
(* lookup, the queue and the attempts, the caller has its answer by its     *)
(* head deadline; lookup and connection together keep to one connect        *)
(* budget, or, when the policy retries, each attempt does.                  *)
BudgetsHold ==
  /\ spent <= head_deadline
  /\ addresses = 0 => lookup_time + connecting <= connect_budget
  /\ connecting <= attempts * (connect_budget - lookup_time)


(* request: "The connect phase - the shared Hickory lookup plus the         *)
(* connection libcurl then establishes - draws on a single budget", and     *)
(* start_retry: it "uses what is left of min(connect_timeout, head_budget)".*)
OneConnectBudget == lookup_time + connecting <= connect_budget

(* docs/troubleshooting.md: "Explicit task-level proxy settings take        *)
(* precedence over downloader defaults and environment variables."          *)
TaskProxyWins == own # None => proxy = own
=============================================================================

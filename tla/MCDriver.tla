------------------------------ MODULE MCDriver ------------------------------
(***************************************************************************)
(* The driver thread for TLC, and on their own what it uses for a request: *)
(* the address policy with more addresses and samples, the answers libcurl *)
(* is given for a name, and the proxy and the time budget.  A behaviour is *)
(* about one of them; the others keep their initial state.                 *)
(***************************************************************************)
EXTENDS MCIpPolicy, TLC

CONSTANTS
  Transfers, Requests, Zones, OwnLookup, Blank

VARIABLES
  part,   \* the component this behaviour is about
  driver_now, driver_dns, caller, options, head, sink, sinks, driver_queue,
  active, driver_attempts, driver_origin, driver_selections, counters, handle,
  driver_phase, sent, ranked, newest, resolve_dns, state, resolve_own,
  resolve_queue, batch, plan, added, entry, cache, idle, used, base, task,
  env, connect_timeout, head_deadline, multi_ip, scheme, named,
  transport_phase, spent, transport_own, ambient, proxy, lookups, lookup_time,
  addresses, connect, deadline, transport_attempts, connect_by, connecting

Driver == INSTANCE CurlDriver WITH
  MIN_SAMPLE_BYTES <- 4, SAMPLE_TTL <- 4, SAMPLE_HALF_LIFE <- 4,
  MIN_DWELL <- 1, EXPLORE_PERIOD <- 1, REMOVED_HISTORY <- 1,
  Answers <- <<<<"a", "b">>, <<"b">>>>, AnswerTtl <- 1, head_timeout <- 1,
  MAX_INTERNAL_CONNECT_ATTEMPTS <- 3, Codes <- {7, 28, 56},
  Sample <- [bytes |-> 8, window |-> 1, backpressure |-> 0],
  SetupErrors <- TRUE, MaxTime <- 1, now <- driver_now, dns <- driver_dns,
  queue <- driver_queue, attempts <- driver_attempts, origin <- driver_origin,
  selections <- driver_selections, phase <- driver_phase

Resolving == INSTANCE ResolveCache WITH
  EarlyDrops <- FALSE, Answers <- Zones, dns <- resolve_dns,
  own <- resolve_own, queue <- resolve_queue

Requesting == INSTANCE Transport WITH
  BaseProxies <- {None, Blank, "base", "ftp"}, TaskProxies <- {None, "task"},
  EnvProxies <- {None, "env"}, BadProxies <- {"ftp"},
  LiteralProxies <- {"task"}, ConnectTimeouts <- {2, 5, 9},
  HeadDeadlines <- {4, 9}, MaxAddresses <- 3, MIN_CONNECT_SLICE <- 2,
  MAX_INTERNAL_CONNECT_ATTEMPTS <- 3, Milli <- 1, phase <- transport_phase,
  own <- transport_own, attempts <- transport_attempts

driverVars == <<
  driver_now, driver_dns, caller, options, head, sink, sinks, driver_queue,
  active, driver_attempts, driver_origin, driver_selections, counters, handle,
  driver_phase, sent, ranked, newest>>
resolveVars == <<
  resolve_dns, state, resolve_own, resolve_queue, batch, plan, added, entry,
  cache, idle, used>>
transportVars == <<
  base, task, env, connect_timeout, head_deadline, multi_ip, scheme, named,
  transport_phase, spent, transport_own, ambient, proxy, lookups, lookup_time,
  addresses, connect, deadline, transport_attempts, connect_by, connecting>>

ASSUME ConstantsAreLegal == Requesting!TimesArePositive

BenchInit ==
  /\ part \in {"policy", "driver", "resolve", "transport"}
  /\ Init /\ Driver!Init /\ Resolving!Init /\ Requesting!Init
  /\ part # "resolve" => resolve_dns = CHOOSE a \in Zones : TRUE
  /\ part # "transport" =>
       /\ Range(base) = {None} /\ Range(task) = {None} /\ Range(env) = {None}
       /\ connect_timeout = 2 /\ head_deadline = 4 /\ ~multi_ip /\ scheme = "http" /\ named

(* Only the component that was chosen moves.                                *)
BenchNext ==
  /\ UNCHANGED part
  /\ \/ part = "policy" /\ Next /\ UNCHANGED <<driverVars, resolveVars, transportVars>>
     \/ part = "driver" /\ Driver!Next /\ UNCHANGED <<vars, resolveVars, transportVars>>
     \/ part = "resolve" /\ Resolving!Next /\ UNCHANGED <<vars, driverVars, transportVars>>
     \/ part = "transport" /\ Requesting!Next /\ UNCHANGED <<vars, driverVars, resolveVars>>

BenchVars == <<part, vars, driverVars, resolveVars, transportVars>>

BenchSpec == BenchInit /\ [][BenchNext]_BenchVars

BenchSymmetry == Permutations(Transfers)

-----------------------------------------------------------------------------
(* CurlDriver: reservations balance, callers and transfers agree on what is *)
(* in flight, no retry repeats a request that was sent, and only a body     *)
(* read to its end ranks an address.                                        *)
DriverKeepsItsBooks == part = "driver" => Driver!DriverKeepsItsBooks


=============================================================================

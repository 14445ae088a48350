----------------------------- MODULE MCPolicies -----------------------------
(***************************************************************************)
(* What the workers and tasks of a client share, for TLC: the redirect     *)
(* target, the rate limit, the DNS settings, the cache of clients; and the *)
(* speed estimate they are shown.  A behaviour is about one of them; the   *)
(* others keep their initial state.                                        *)
(***************************************************************************)
EXTENDS FinalUrl, TLC

CONSTANTS
  Keys

(* A DoH server by name, by address of either family, and one refused.      *)
Servers ==
  [name |-> [defects |-> {}, host |-> "dns", path |-> "/custom", query |-> "?ct"],
   four |-> [defects |-> {}, host |-> "v4", path |-> "/", query |-> "?ct"],
   six  |-> [defects |-> {}, host |-> "v6", path |-> "/", query |-> ""],
   bad  |-> [defects |-> {"fragment"}, host |-> "v4", path |-> "/dns-query", query |-> ""]]

VARIABLES
  part,   \* the component this behaviour is about
  limiter_now, tokens, last_refill, n, remaining, wake, mark, held, passed,
  late, zone, ever, changes, cache, doh_servers, dns_servers, enable_ipv6,
  dns_pc, group, parsed, entries, client, lock, made, clients_pc, key, at,
  lookups, speed_now, single, ended, samples, history, last_reported, snapshot

Limiting == INSTANCE RateLimiter WITH
  capacity <- 2, MaxChunk <- 4, MaxTime <- 6, now <- limiter_now

Naming == INSTANCE DnsConfig WITH
  Builders <- Workers, Servers <- DOMAIN Servers, Url <- Servers,
  Names <- {"dns"}, IPv4 <- {"v4"}, IPv6 <- {"v6"}, MaxServers <- 2,
  MaxChanges <- 1, pc <- dns_pc

Clients == INSTANCE ClientCache WITH
  Tasks <- Workers, CLIENT_CACHE_CAPACITY <- 2, MaxEntries <- 5,
  MaxLookups <- 6, pc <- clients_pc

Estimating == INSTANCE SpeedEstimate WITH
  window <- 3, min_span <- 1, min_interval <- 2, min_bytes <- 2,
  total_size <- 4, MaxGap <- 2, MaxTime <- 10, now <- speed_now

limiterVars == <<
  limiter_now, tokens, last_refill, n, remaining, wake, mark, held, passed,
  late>>
dnsVars == <<
  zone, ever, changes, cache, doh_servers, dns_servers, enable_ipv6, dns_pc,
  group, parsed>>
clientsVars == <<
  entries, client, lock, made, clients_pc, key, at, lookups>>
speedVars == <<
  speed_now, single, ended, samples, history, last_reported, snapshot>>

ASSUME ConstantsAreLegal == Limiting!LimitIsSet /\ Naming!HostsAreNamesOrAddresses /\ Estimating!WindowsAreOrdered

BenchInit ==
  /\ part \in {"url", "limiter", "dns", "clients", "speed"}
  /\ Init /\ Limiting!Init /\ Naming!Init /\ Clients!Init /\ Estimating!Init
  /\ part # "url" => live = (CHOOSE t \in Targets : TRUE) /\ ~direct
  /\ part # "dns" =>
       /\ zone["dns"] = {}
       /\ \A b \in Workers : doh_servers[b] = <<>> /\ ~dns_servers[b] /\ ~enable_ipv6[b]
  /\ part # "speed" => single /\ snapshot.downloaded = 0

(* Only the component that was chosen moves.                                *)
BenchNext ==
  /\ UNCHANGED part
  /\ \/ part = "url" /\ Next /\ UNCHANGED <<limiterVars, dnsVars, clientsVars, speedVars>>
     \/ part = "limiter" /\ Limiting!Next /\ UNCHANGED <<vars, dnsVars, clientsVars, speedVars>>
     \/ part = "dns" /\ Naming!Next /\ UNCHANGED <<vars, limiterVars, clientsVars, speedVars>>
     \/ part = "clients" /\ Clients!Next /\ UNCHANGED <<vars, limiterVars, dnsVars, speedVars>>
     \/ part = "speed" /\ Estimating!Next /\ UNCHANGED <<vars, limiterVars, dnsVars, clientsVars>>

BenchVars == <<part, vars, limiterVars, dnsVars, clientsVars, speedVars>>

BenchSpec == BenchInit /\ [][BenchNext]_BenchVars

BenchSymmetry == Permutations(Workers) \cup Permutations(Targets)

-----------------------------------------------------------------------------
(* RateLimiter, acquire: over every interval the configured speed is        *)
(* neither exceeded beyond one burst nor lost while a caller waits.         *)
LimitIsExact == part = "limiter" => Limiting!LimitIsExact

(* DnsConfig, parse_doh_server: whoever filled the cache, a client gets     *)
(* only addresses of the families it allows, which the host really had.     *)
ServersFitTheClient == part = "dns" => Naming!ServersFitTheClient

(* ClientCache: the cache holds exactly the most recently asked keys, and a *)
(* task gets the client of its own configuration.                           *)
CacheIsExact == part = "clients" => Clients!CacheIsExact

(* SpeedEstimate: dropping old samples never changes the speed of the last  *)
(* window, and what is published trails the last sample by less than the    *)
(* thresholds.                                                              *)
EstimateIsWindowed == part = "speed" => Estimating!EstimateIsWindowed
=============================================================================

------------------------------ MODULE DnsConfig ------------------------------
(***************************************************************************)
(* network/dns.rs: the name servers of a client.  Clients are built side   *)
(* by side (the client cache builds under a lock per key), and the parsed  *)
(* DoH servers are shared between them by a cache that is locked for the   *)
(* look and for the insertion, but not for the lookup between the two.     *)
(* A server URL is its defects, its host and its endpoint.                 *)
(***************************************************************************)
EXTENDS Integers, Sequences, SequencesExt

CONSTANTS
  None,
  Builders,
  Servers,          \* the DoH URLs, trimmed
  Url,              \* [Servers -> [defects, host, path, query]]
  Names,            \* the hosts that are names; the others are IP literals
  IPv4, IPv6,       \* addresses
  MaxServers,       \* bound: DoH servers of a configuration
  MaxChanges        \* bound: changes of the zone

(* What the constants have to satisfy.                                      *)
HostsAreNamesOrAddresses ==
  \A s \in Servers : Url[s].host \in Names \cup IPv4 \cup IPv6

Addresses == IPv4 \cup IPv6

VARIABLES
  zone,             \* per name: the addresses its lookup gives now; {} fails
  ever,             \* history: the addresses each name ever had
  changes,
  cache,            \* doh_config_cache: (server, enable_ipv6) to a parsed server
  doh_servers, dns_servers, enable_ipv6,    \* per builder: its configuration
  pc,               \* "look", "parse", "insert", "built" or "failed"
  group,            \* the name servers pushed so far
  parsed            \* the server just parsed

config == <<doh_servers, dns_servers, enable_ipv6>>
vars == <<zone, ever, changes, cache, config, pc, group, parsed>>

-----------------------------------------------------------------------------
(* Mutant: the addresses of one setting of enable_ipv6 are cached for both. *)
KeyWithoutFamily(server, ipv6) == <<server, TRUE>>

CacheKey(server, ipv6) == <<server, ipv6>>

(* The path and query; nothing for "/" and for Hickory's own default.       *)
http_endpoint(url) ==
  LET endpoint == IF url.path = "/" /\ url.query = "" THEN "" ELSE url.path \o url.query IN
    IF endpoint \in {"", "/dns-query"} THEN None ELSE endpoint

(* What parse_doh_server_uncached makes of a URL without defects, with the  *)
(* addresses `found` for its host: the addresses of a permitted family.     *)
DohServerConfig(server, ipv6, found) ==
  [protocol |-> "Https",
   socket_addrs |-> IF ipv6 THEN found ELSE found \cap IPv4,
   tls_dns_name |-> Url[server].host,
   http_endpoint |-> http_endpoint(Url[server])]

Found(server) == IF Url[server].host \in Names THEN zone[Url[server].host] ELSE {Url[server].host}

(* One name server for each protocol of a plain server.                     *)
PlainGroup(plain) == IF plain THEN <<[protocol |-> "Udp"], [protocol |-> "Tcp"]>> ELSE <<>>

-----------------------------------------------------------------------------
Init ==
  /\ zone \in [Names -> SUBSET Addresses] /\ ever = zone /\ changes = 0
  /\ cache = [k \in {CacheKey(s, v) : s \in Servers, v \in BOOLEAN} |-> None]
  /\ doh_servers \in [Builders -> BoundedSeq(Servers, MaxServers)]
  /\ dns_servers \in [Builders -> BOOLEAN] /\ enable_ipv6 \in [Builders -> BOOLEAN]
  /\ pc = [b \in Builders |-> "new"] /\ group = [b \in Builders |-> <<>>]
  /\ parsed = [b \in Builders |-> None]

ZoneChanges ==
  /\ changes < MaxChanges /\ changes' = changes + 1
  /\ \E n \in Names, found \in SUBSET Addresses :
       /\ zone' = [zone EXCEPT ![n] = found]
       /\ ever' = [ever EXCEPT ![n] = @ \cup found]
  /\ UNCHANGED <<cache, config, pc, group, parsed>>

Fail(b) ==
  /\ pc' = [pc EXCEPT ![b] = "failed"]
  /\ parsed' = [parsed EXCEPT ![b] = None]

(* BytehaulDnsResolver::new: the system's configuration, or a group that    *)
(* begins with the plain servers.                                           *)
New(b, readable) ==
  /\ pc[b] = "new"
  /\ group' = [group EXCEPT ![b] = PlainGroup(dns_servers[b])]
  /\ \/ /\ (dns_servers[b] \/ doh_servers[b] # <<>>) \/ readable
        /\ pc' = [pc EXCEPT ![b] = IF doh_servers[b] = <<>> THEN "built" ELSE "look"]
        /\ UNCHANGED parsed
     \/ /\ ~dns_servers[b] /\ doh_servers[b] = <<>> /\ ~readable
        /\ Fail(b)
  /\ UNCHANGED <<zone, ever, changes, cache, config>>

Current(b) == Head(doh_servers[b])

(* A parsed server's addresses join the group; the next server is due.      *)
Push(b, server_config) ==
  /\ group' = [group EXCEPT ![b] = Append(@, server_config)]
  /\ doh_servers' = [doh_servers EXCEPT ![b] = Tail(@)]
  /\ pc' = [pc EXCEPT ![b] = IF Len(doh_servers[b]) = 1 THEN "built" ELSE "look"]
  /\ parsed' = [parsed EXCEPT ![b] = None]

(* parse_doh_server, up to the first unlock.                                *)
parse_doh_server(b) ==
  /\ pc[b] = "look"
  /\ LET cached == cache[CacheKey(Current(b), enable_ipv6[b])] IN
       \/ /\ cached # None
          /\ Push(b, cached)
       \/ /\ cached = None
          /\ pc' = [pc EXCEPT ![b] = "parse"]
          /\ UNCHANGED <<group, doh_servers, parsed>>
  /\ UNCHANGED <<zone, ever, changes, cache, dns_servers, enable_ipv6>>

(* parse_doh_server_uncached: a blocking lookup, without the lock.          *)
parse_doh_server_uncached(b) ==
  /\ pc[b] = "parse"
  /\ LET server == Current(b)
         server_config == DohServerConfig(server, enable_ipv6[b], Found(server))
     IN \/ /\ Url[server].defects # {} \/ server_config.socket_addrs = {}
           /\ Fail(b)
        \/ /\ Url[server].defects = {} /\ server_config.socket_addrs # {}
           /\ pc' = [pc EXCEPT ![b] = "insert"]
           /\ parsed' = [parsed EXCEPT ![b] = server_config]
  /\ UNCHANGED <<zone, ever, changes, cache, config, group>>

Insert(b) ==
  /\ pc[b] = "insert"
  /\ cache' = [cache EXCEPT ![CacheKey(Current(b), enable_ipv6[b])] = parsed[b]]
  /\ Push(b, parsed[b])
  /\ UNCHANGED <<zone, ever, changes, dns_servers, enable_ipv6>>

Next ==
  \/ ZoneChanges
  \/ \E b \in Builders :
       \/ \E readable \in BOOLEAN : New(b, readable)
       \/ parse_doh_server(b) \/ parse_doh_server_uncached(b) \/ Insert(b)

Spec == Init /\ [][Next]_vars

-----------------------------------------------------------------------------
(* parse_doh_server and its cache: whichever client parsed a server first,  *)
(* the name servers of a client have only addresses of the families it      *)
(* allows, at least one each, which the host really had; the certificate    *)
(* name and the path asked for are those of the URL.                        *)
ServersFitTheClient ==
  \A b \in Builders : \A i \in DOMAIN group[b] :
    group[b][i].protocol = "Https" =>
    \E s \in Servers :
      LET entry == group[b][i] IN
        /\ Url[s].defects = {} /\ entry.tls_dns_name = Url[s].host
        /\ entry.socket_addrs # {}
        /\ entry.socket_addrs \subseteq IF enable_ipv6[b] THEN Addresses ELSE IPv4
        /\ entry.socket_addrs \subseteq IF Url[s].host \in Names THEN ever[Url[s].host]
                                        ELSE {Url[s].host}
        /\ LET asked == IF entry.http_endpoint = None THEN "/dns-query" ELSE entry.http_endpoint
           IN asked = Url[s].path \o Url[s].query \/ (Url[s].path = "/" /\ Url[s].query = "")
=============================================================================

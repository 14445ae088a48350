----------------------------- MODULE ClientCache -----------------------------
(***************************************************************************)
(* The cache of HTTP clients a Downloader's tasks share (manager.rs).  The *)
(* cache lock covers only the search and the eviction; a client is built   *)
(* under the lock of its own entry, so lookups of other keys, evictions    *)
(* and failed builds interleave with it.  An entry lives as long as the    *)
(* cache or a task refers to it.                                           *)
(***************************************************************************)
EXTENDS Integers, FiniteSets, SequencesExt

CONSTANTS
  Tasks, Keys, None,
  CLIENT_CACHE_CAPACITY,
  MaxEntries, MaxLookups    \* bounds: entries ever made, lookups ever made

VARIABLES
  entries,      \* ClientCache.entries: <<key, entry>>, least recently used first
  client,       \* per entry: the key its client was built for, or None
  lock,         \* per entry: the task that builds in it
  made,         \* entries made so far
  pc, key, at,  \* per task: where it is, what it asks for, its entry
  lookups       \* the keys looked up, in order

vars == <<entries, client, lock, made, pc, key, at, lookups>>

Init ==
  /\ entries = <<>> /\ made = 0 /\ lookups = <<>>
  /\ client = [e \in 1..MaxEntries |-> None] /\ lock = client
  /\ pc = [t \in Tasks |-> "idle"]
  /\ key = [t \in Tasks |-> None] /\ at = [t \in Tasks |-> 0]

-----------------------------------------------------------------------------
Position(k) == {i \in 1..Len(entries) : entries[i].key = k}

(* A hit that leaves the entry where it is.                                 *)
HitInPlace(i) == entries

(* A hit moves the entry to the back.                                       *)
Hit(i) == Append(RemoveAt(entries, i), entries[i])

(* A miss drops the front of a full cache and appends an empty entry.       *)
Miss(k) ==
  Append(IF Len(entries) = CLIENT_CACHE_CAPACITY THEN Tail(entries) ELSE entries,
         [key |-> k, entry |-> made + 1])

(* cached_client_for_config, under the cache lock.                          *)
Lookup(t, k) ==
  /\ pc[t] = "idle" /\ Len(lookups) < MaxLookups
  /\ \/ /\ Position(k) # {}
        /\ entries' = Hit(CHOOSE i \in Position(k) : TRUE)
        /\ at' = [at EXCEPT ![t] = entries[CHOOSE i \in Position(k) : TRUE].entry]
        /\ UNCHANGED made
     \/ /\ Position(k) = {} /\ made < MaxEntries
        /\ entries' = Miss(k) /\ made' = made + 1
        /\ at' = [at EXCEPT ![t] = made + 1]
  /\ key' = [key EXCEPT ![t] = k] /\ pc' = [pc EXCEPT ![t] = "lock"]
  /\ lookups' = Append(lookups, k)
  /\ UNCHANGED <<client, lock>>

(* The entry's lock is free: its client is there, or this task builds it.   *)
LockEntry(t) ==
  /\ pc[t] = "lock" /\ lock[at[t]] = None
  /\ IF client[at[t]] # None
     THEN pc' = [pc EXCEPT ![t] = "has"] /\ UNCHANGED lock
     ELSE pc' = [pc EXCEPT ![t] = "build"] /\ lock' = [lock EXCEPT ![at[t]] = t]
  /\ UNCHANGED <<entries, client, made, key, at, lookups>>

(* build_client ends; a failure leaves the entry empty for the next task.   *)
build_client(t, ok) ==
  /\ pc[t] = "build"
  /\ lock' = [lock EXCEPT ![at[t]] = None]
  /\ client' = IF ok THEN [client EXCEPT ![at[t]] = key[t]] ELSE client
  /\ pc' = [pc EXCEPT ![t] = IF ok THEN "has" ELSE "idle"]
  /\ UNCHANGED <<entries, made, key, at, lookups>>

(* The task ends and releases its client.                                   *)
Release(t) ==
  /\ pc[t] = "has" /\ pc' = [pc EXCEPT ![t] = "idle"]
  /\ UNCHANGED <<entries, client, lock, made, key, at, lookups>>

Next == \E t \in Tasks :
  \/ \E k \in Keys : Lookup(t, k)
  \/ LockEntry(t)
  \/ \E ok \in BOOLEAN : build_client(t, ok)
  \/ Release(t)

Spec == Init /\ [][Next]_vars

-----------------------------------------------------------------------------
(* The keys of a list of lookups by their last use, oldest first.           *)
ByLastUse(s) ==
  FoldLeft(LAMBDA acc, k : Append(SelectSeq(acc, LAMBDA x : x # k), k), <<>>, s)

Cached == {entries[i].entry : i \in 1..Len(entries)}

(* cached_client_for_config: however lookups, slow and failed builds and    *)
(* evictions interleave, the cache holds exactly the most recently asked    *)
(* keys; a task gets the client of its own configuration, and tasks of one  *)
(* configuration share it unless it was evicted between their lookups.      *)
CacheIsExact ==
  /\ LET used == ByLastUse(lookups)
         kept == IF Len(used) < CLIENT_CACHE_CAPACITY THEN Len(used) ELSE CLIENT_CACHE_CAPACITY
     IN [i \in 1..Len(entries) |-> entries[i].key]
          = SubSeq(used, Len(used) - kept + 1, Len(used))
  /\ \A t \in Tasks : pc[t] = "has" => client[at[t]] = key[t]
  /\ \A t, u \in Tasks :
       pc[t] = "has" /\ pc[u] = "has" /\ key[t] = key[u] /\ at[t] # at[u] =>
         ~({at[t], at[u]} \subseteq Cached)
=============================================================================

------------------------------ MODULE FinalUrl ------------------------------
(***************************************************************************)
(* HttpWorker (http/worker.rs): the clones of one worker share the cached  *)
(* final URL.  A call starts at the cached URL or at the download's own,   *)
(* follows redirects hop by hop, caches where it ended whatever the status *)
(* and, when a cached URL answers 403 or 404, clears the cache and starts  *)
(* again at the download's own URL.  Every await is a step of its own, so  *)
(* calls overlap and see each other's cache.                               *)
(* The server redirects Origin, perhaps over Hop, to one of Targets; it    *)
(* may move to another target, and the old ones then answer 403.           *)
(***************************************************************************)
EXTENDS Naturals, FiniteSets

CONSTANTS
  Workers,
  Origin, Hop, Targets,     \* URLs: the download's, a second redirect, where the bytes are
  None,
  MaxHops,                  \* requests one chain may send (10 in the code)
  MaxMoves                  \* bound: how often the server moves the target

Urls == {Origin, Hop} \cup Targets
Calls == {"get", "range", "resolve"}

VARIABLES
  final_url,        \* the shared cache
  live, direct,     \* server: the current target; Origin redirects to it without Hop
  moves,            \* server: moves made
  call              \* the running call of each worker

vars == <<final_url, live, direct, moves, call>>

Idle == [kind |-> None, pc |-> "idle", url |-> None, hops |-> 0, refresh |-> FALSE,
         reply |-> None, location |-> None, requests |-> 0, began |-> 0]

Init ==
  /\ final_url = None
  /\ live \in Targets /\ direct \in BOOLEAN
  /\ moves = 0
  /\ call = [w \in Workers |-> Idle]

-----------------------------------------------------------------------------
(* The server.                                                              *)

Move ==
  /\ moves < MaxMoves
  /\ live' \in Targets /\ direct' \in BOOLEAN
  /\ <<live', direct'>> # <<live, direct>>
  /\ moves' = moves + 1
  /\ UNCHANGED <<final_url, call>>

(* What the server answers to a request: a redirect with its Location, the  *)
(* bytes, a refusal; or it fails, or its redirect is unusable or a loop.    *)
Answers(kind, url) ==
  {[reply |-> "503", location |-> None], [reply |-> "NetworkError", location |-> None]}
  \cup (CASE url = Origin -> {[reply |-> "3xx", location |-> IF direct THEN live ELSE Hop],
                              [reply |-> "3xx", location |-> None]}
          [] url = Hop -> {[reply |-> "3xx", location |-> u] : u \in {live, Origin}}
          [] url = live -> {[reply |-> s, location |-> None] :
                              s \in IF kind = "range" THEN {"200", "206"} ELSE {"200"}}
          [] OTHER -> {[reply |-> "403", location |-> None]})

-----------------------------------------------------------------------------
(* Calls.                                                                   *)

Begin(w, kind) ==
  /\ call[w].pc = "idle"
  /\ LET start == IF kind = "resolve" \/ final_url = None THEN Origin ELSE final_url IN
     call' = [call EXCEPT ![w] =
       [Idle EXCEPT !.kind = kind, !.pc = "send", !.url = start,
                    !.refresh = start # Origin, !.began = moves]]
  /\ UNCHANGED <<final_url, live, direct, moves>>

send_get(w) == Begin(w, "get")
send_range(w) == Begin(w, "range")
(* final_url(): without a cached URL the chain is resolved by real GETs.    *)
resolve_final_url(w) == final_url = None /\ Begin(w, "resolve")

(* send_request: the request is counted and the server answers some time    *)
(* before the head is handled.                                              *)
send_request(w) ==
  /\ call[w].pc = "send" /\ call[w].hops < MaxHops
  /\ \E a \in Answers(call[w].kind, call[w].url) :
       call' = [call EXCEPT ![w].pc = "head", ![w].reply = a.reply, ![w].location = a.location,
                            ![w].hops = @ + 1, ![w].requests = @ + 1]
  /\ UNCHANGED <<final_url, live, direct, moves>>

Return(w, outcome) ==
  call' = [call EXCEPT ![w].pc = "done", ![w].reply = outcome, ![w].location = None]

is_stale_redirect_target_error(reply) == reply \in {"403", "404"}

(* The loop has used up its hops: 508.                                      *)
too_many_redirects_error(w) ==
  /\ call[w].pc = "send" /\ call[w].hops = MaxHops
  /\ Return(w, "508")
  /\ UNCHANGED <<final_url, live, direct, moves>>

(* A transport error, or a redirect without a usable Location, ends the call.*)
RequestFails(w) ==
  /\ call[w].pc = "head"
  /\ \/ call[w].reply = "NetworkError"
     \/ call[w].reply = "3xx" /\ call[w].location = None
  /\ Return(w, "Failed")
  /\ UNCHANGED <<final_url, live, direct, moves>>

redirect_location(w) ==
  /\ call[w].pc = "head" /\ call[w].reply = "3xx" /\ call[w].location # None
  /\ call' = [call EXCEPT ![w].pc = "send", ![w].url = call[w].location,
                          ![w].reply = None, ![w].location = None]
  /\ UNCHANGED <<final_url, live, direct, moves>>

(* The end of a chain: the URL is cached before the status is looked at.    *)
set_final_url(w) ==
  /\ call[w].pc = "head" /\ call[w].reply \notin {"3xx", "NetworkError"}
  /\ final_url' = call[w].url
  /\ IF is_stale_redirect_target_error(call[w].reply) /\ call[w].refresh
        /\ call[w].kind # "resolve"
     THEN call' = [call EXCEPT ![w].pc = "clear"]
     ELSE Return(w, IF call[w].kind = "resolve" THEN "Ok" ELSE call[w].reply)
  /\ UNCHANGED <<live, direct, moves>>

(* The second attempt takes whatever the cache holds.                       *)
RestartFromCache(w) ==
  /\ call[w].pc = "clear"
  /\ call' = [call EXCEPT ![w].pc = "send", ![w].url = IF final_url = None THEN Origin ELSE final_url,
                          ![w].hops = 0, ![w].refresh = FALSE, ![w].reply = None]
  /\ UNCHANGED <<final_url, live, direct, moves>>

(* A refused cached URL: the cache is cleared, whoever filled it meanwhile, *)
(* and a second chain starts at the download's own URL.                     *)
clear_final_url(w) ==
  /\ call[w].pc = "clear"
  /\ final_url' = None
  /\ call' = [call EXCEPT ![w].pc = "send", ![w].url = Origin, ![w].hops = 0,
                          ![w].refresh = FALSE, ![w].reply = None]
  /\ UNCHANGED <<live, direct, moves>>

(* The caller has its result; it may call again.                            *)
Finish(w) ==
  /\ call[w].pc = "done"
  /\ call' = [call EXCEPT ![w] = Idle]
  /\ UNCHANGED <<final_url, live, direct, moves>>

Next ==
  \/ Move
  \/ \E w \in Workers :
       \/ send_get(w) \/ send_range(w) \/ resolve_final_url(w)
       \/ send_request(w) \/ too_many_redirects_error(w) \/ RequestFails(w)
       \/ redirect_location(w) \/ set_final_url(w) \/ clear_final_url(w) \/ Finish(w)

Spec == Init /\ [][Next]_vars

-----------------------------------------------------------------------------
(* send_get and send_range: a call reports 403 or 404 only if the server    *)
(* moved while the call ran, however stale the cached URL was and whatever  *)
(* other workers cached or cleared; and no call sends more than two chains  *)
(* of requests.                                                             *)
OnlyFreshRefusals ==
  \A w \in Workers :
    /\ call[w].pc = "done" /\ is_stale_redirect_target_error(call[w].reply)
         => moves > call[w].began
    /\ call[w].requests <= 2 * MaxHops
=============================================================================

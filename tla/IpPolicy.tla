------------------------------ MODULE IpPolicy ------------------------------
(***************************************************************************)
(* The per-address candidate policy of one origin                          *)
(* (src/network/curl/ip_policy.rs): which address of the DNS answer a      *)
(* transfer is pinned to, and how its outcome feeds back.                  *)
(*                                                                         *)
(* The policy takes an explicit clock; instants and durations are natural  *)
(* numbers here.  A rate is an integer, its decay is applied at whole      *)
(* half-lives.  Counters that are only compared with zero or a minimum are *)
(* kept up to that minimum; the ones nobody reads are left out.            *)
(***************************************************************************)
EXTENDS Integers, Sequences, SequencesExt, FiniteSetsExt

CONSTANTS None,
          PREFERRED_SET, MIN_SAMPLES, MIN_WINDOW, MIN_SAMPLE_BYTES,
          SAMPLE_TTL, SAMPLE_HALF_LIFE, MIN_DWELL, EXPLORE_PERIOD,
          CONNECT_FAILURE_COOLDOWN, REMOVED_HISTORY

Capped(n, max) == IF n > max THEN max ELSE n

\* The index with the least key, the first of equals (Iterator::min_by_key).
Before(Key(_), i, j) == \/ Key(i) < Key(j)
                        \/ Key(i) = Key(j) /\ i < j
FirstLeast(S, Key(_)) == CHOOSE i \in S : \A j \in S \ {i} : Before(Key, i, j)

\* Candidate::new
NewCandidate(address, generation, now) ==
    [address |-> address, generation |-> generation, present |-> TRUE, last_seen |-> now,
     in_flight |-> 0, attempts |-> 0, cooldown_until |-> None, rate |-> None, samples |-> 0,
     updated_at |-> None]

\* Origin::new
NewOrigin(now) ==
    [generation |-> 0, valid_until |-> now, candidates |-> <<>>,
     preferred |-> None, preferred_since |-> None]

is_available(c, now) == c.present /\ (c.cooldown_until = None \/ now >= c.cooldown_until)

effective_rate(c, now) ==
    IF c.rate = None \/ now - c.updated_at >= SAMPLE_TTL THEN None
    ELSE c.rate \div 2^((now - c.updated_at) \div SAMPLE_HALF_LIFE)

is_proven(c) == c.samples >= MIN_SAMPLES

Places(o) == DOMAIN o.candidates
PlaceOf(o, address) == {i \in Places(o) : o.candidates[i].address = address}
candidate(o, address) == o.candidates[CHOOSE i \in PlaceOf(o, address) : TRUE]
Present(o) == {i \in Places(o) : o.candidates[i].present}
Available(o, now) == {i \in Places(o) : is_available(o.candidates[i], now)}
AddressAt(o, i) == o.candidates[i].address

\* candidate_mut: the candidate of this address, if there is one, becomes c.
UpdateCandidate(o, address, c) ==
    [o EXCEPT !.candidates = [i \in Places(o) |->
        IF AddressAt(o, i) = address THEN c ELSE o.candidates[i]]]

-----------------------------------------------------------------------------
(* Folding in a DNS answer *)

\* Origin::observe: addresses still offered keep their history; the answer's
\* order becomes the coverage order; a removed one is kept while a transfer
\* uses it or its history is young.
observe(o, set, now) ==
    LET offered == {AddressAt(o, i) : i \in Present(o)}
        same_set == Cardinality(Present(o)) = Len(set.addresses) /\ offered \subseteq ToSet(set.addresses)
        generation == IF same_set THEN o.generation ELSE o.generation + 1
        Fresh(a) == IF PlaceOf(o, a) = {} THEN NewCandidate(a, generation, now)
                    ELSE [candidate(o, a) EXCEPT !.present = TRUE, !.generation = generation,
                                                 !.last_seen = now]
        Removed == SelectSeq(o.candidates,
                     LAMBDA c : /\ c.address \notin ToSet(set.addresses)
                                /\ (c.in_flight > 0 \/ now - c.last_seen < REMOVED_HISTORY))
        kept == o.preferred = None \/ o.preferred \in ToSet(set.addresses)
    IN [generation |-> generation,
        valid_until |-> set.valid_until,
        candidates |-> [i \in DOMAIN set.addresses |-> Fresh(set.addresses[i])]
                       \o [i \in DOMAIN Removed |-> [Removed[i] EXCEPT !.present = FALSE]],
        preferred |-> IF kept THEN o.preferred ELSE None,
        preferred_since |-> IF kept THEN o.preferred_since ELSE None]

-----------------------------------------------------------------------------
(* Choosing an address *)

\* Present, proven addresses with a live rate, fastest first; equal rates keep
\* the coverage order.
Ranked(o, now) ==
    LET R(i) == effective_rate(o.candidates[i], now)
        S == {i \in Present(o) : is_proven(o.candidates[i]) /\ R(i) # None}
    IN [k \in 1..Cardinality(S) |->
          AddressAt(o, SetToSortSeq(S, LAMBDA i, j : Before(LAMBDA n : 0 - R(n), i, j))[k])]

\* SWITCH_GAP is a quarter.
ClearlyBetter(best_rate, current_rate) == current_rate = None \/ 4 * best_rate > 5 * current_rate

Prefer(o, best, now) == [o EXCEPT !.preferred = best, !.preferred_since = now]

\* A settled incumbent gives way to a clearly better address.
Switch(o, best, now) ==
    /\ o.preferred # best
    /\ now - o.preferred_since >= MIN_DWELL
    /\ ClearlyBetter(effective_rate(candidate(o, best), now),
                     effective_rate(candidate(o, o.preferred), now))

\* update_preferred, on the ranking.
PreferRanked(o, ranking, now) ==
    IF ranking = <<>> THEN [o EXCEPT !.preferred = None, !.preferred_since = None]
    ELSE IF o.preferred = None \/ Switch(o, ranking[1], now) THEN Prefer(o, ranking[1], now)
    ELSE o

update_preferred(o, now) == PreferRanked(o, Ranked(o, now), now)

Top(seq) == SubSeq(seq, 1, Min({PREFERRED_SET, Len(seq)}))
IncumbentFirst(o, seq) ==
    IF o.preferred = None THEN seq ELSE <<o.preferred>> \o SelectSeq(seq, LAMBDA a : a # o.preferred)

\* The mutant forgets the incumbent.
preferred_set_ranked(o, now) == Top(Ranked(o, now))

\* The fastest ranked addresses, with the incumbent first.
preferred_set(o, now) == Top(IncumbentFirst(o, Top(Ranked(o, now))))

\* explore_candidate: the least known available address outside the eligible
\* ones; max_by_key keeps the last of equals.
Unknown(c, now) == IF c.samples = 0 THEN 2 ELSE IF effective_rate(c, now) = None THEN 1 ELSE 0
explore_candidate(o, now, usable) ==
    LET S == {i \in Available(o, now) : AddressAt(o, i) \notin ToSet(usable)}
        Best == Max({Unknown(o.candidates[i], now) : i \in S})
    IN IF S = {} THEN None
       ELSE AddressAt(o, Max({i \in S : Unknown(o.candidates[i], now) = Best}))

\* The spread by occupancy: the first address with the fewest transfers.
LeastOccupied(o, seq) ==
    seq[FirstLeast(DOMAIN seq, LAMBDA k : candidate(o, seq[k]).in_flight)]

\* The address that leaves its cooldown soonest.
Soonest(o, now) ==
    LET W(i) == IF o.candidates[i].cooldown_until = None THEN 0
                ELSE Max({0, o.candidates[i].cooldown_until - now})
    IN AddressAt(o, FirstLeast(Present(o), W))

AddressesAt(o, S) == [k \in 1..Cardinality(S) |-> AddressAt(o, SetToSortSeq(S, <)[k])]

\* The fast addresses that are not parked, or else all that are not.
OrElse(proven, available) == IF proven # <<>> THEN proven ELSE available
eligible(o, now) ==
    OrElse(SelectSeq(preferred_set(o, now), LAMBDA a : is_available(candidate(o, a), now)),
           AddressesAt(o, Available(o, now)))

Choice(address, reason) == [address |-> address, reason |-> reason]

PickTried(o, now, usable, explored) ==
    IF usable = <<>> THEN Choice(Soonest(o, now), "Fallback")
    ELSE IF explored # None THEN Choice(explored, "Exploration")
    ELSE Choice(LeastOccupied(o, usable), "Preferred")

PickAmong(o, now, exploration_due, usable) ==
    PickTried(o, now, usable, IF exploration_due THEN explore_candidate(o, now, usable) ELSE None)

\* Present addresses no transfer was ever given.
Untried(o) == {i \in Present(o) : o.candidates[i].attempts = 0 /\ o.candidates[i].samples = 0}

pick(o, now, exploration_due) ==
    IF Cardinality(Present(o)) = 1
      THEN Choice(AddressAt(o, CHOOSE i \in Present(o) : TRUE), "Single")
    ELSE IF Untried(o) # {} THEN Choice(AddressAt(o, Min(Untried(o))), "Coverage")
    ELSE PickAmong(o, now, exploration_due, eligible(o, now))

\* select, on the updated origin and the choice: the address is reserved.
ReserveChoice(o, p) ==
    [origin |-> UpdateCandidate(o, p.address,
                  [candidate(o, p.address) EXCEPT !.in_flight = @ + 1, !.attempts = 1]),
     address |-> p.address,
     generation |-> candidate(o, p.address).generation,
     reason |-> p.reason]

PickAndReserve(o, due, now) == ReserveChoice(o, pick(o, now, due))

\* IpPolicy::select: None without a usable answer, else the updated origin and
\* the reserved address.
select(o, due, now) ==
    IF Present(o) = {} \/ now >= o.valid_until THEN None
    ELSE PickAndReserve(update_preferred(o, now), due, now)

-----------------------------------------------------------------------------
(* Feedback *)

\* IpPolicy::settle: an event of an older generation never parks the address.
settle(o, address, generation, outcome, now) ==
    UpdateCandidate(o, address,
        [candidate(o, address) EXCEPT
           !.in_flight = IF @ = 0 THEN 0 ELSE @ - 1,
           !.cooldown_until = IF outcome = "ConnectFailed" /\ generation = o.generation
                              THEN now + CONNECT_FAILURE_COOLDOWN ELSE @])

\* MAX_BACKPRESSURE_RATIO is a tenth.
sample_is_usable(s) ==
    s.window >= MIN_WINDOW /\ s.bytes >= MIN_SAMPLE_BYTES /\ 10 * s.backpressure <= s.window

\* record_sample: EWMA_ALPHA is 0.3 on the decayed rate.
record_sample(o, address, s, now) ==
    LET rate == s.bytes \div s.window
        Fold(c, previous) ==
          [c EXCEPT !.rate = IF previous = None THEN rate
                             ELSE (3 * rate + 7 * previous) \div 10,
                    !.samples = Capped(@ + 1, MIN_SAMPLES),
                    !.updated_at = now]
    IN IF sample_is_usable(s)
         THEN UpdateCandidate(o, address, Fold(candidate(o, address),
                                               effective_rate(candidate(o, address), now)))
         ELSE o
=============================================================================

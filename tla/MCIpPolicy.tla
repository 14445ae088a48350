---------------------------- MODULE MCIpPolicy ----------------------------
(***************************************************************************)
(* The candidate policy driven the way the driver thread drives it: every  *)
(* reservation folds in a DNS answer and selects, every reservation is     *)
(* settled once, and consumed bodies may add a sample.                     *)
(***************************************************************************)
EXTENDS IpPolicy

CONSTANTS Answers,  \* the address lists DNS may return
          Samples,  \* body windows a transfer may report
          Slots,    \* transfers in flight at once
          MaxTime, MaxGeneration, MaxSelections  \* bounds

MCAnswers == {<<"a", "b", "c">>, <<"c", "b">>}
MCSamples == {[bytes |-> b, window |-> 1, backpressure |-> 0] : b \in {8, 12}}
             \cup {[bytes |-> 12, window |-> 1, backpressure |-> 1]}

VARIABLES origin, selections, now, slots

vars == <<origin, selections, now, slots>>

Init == /\ origin = NewOrigin(0) /\ selections = 0 /\ now = 0
        /\ slots = [k \in Slots |-> None]

\* reserve_candidate: observe, then select.
Observed(addresses) == observe(origin, [addresses |-> addresses, valid_until |-> now + 1], now)
Selected(addresses) == select(Observed(addresses), (selections + 1) % EXPLORE_PERIOD = 0, now)

Reserve(k, addresses) ==
    /\ slots[k] = None /\ selections < MaxSelections
    /\ \E s \in {Selected(addresses)} :
         /\ s.origin.generation <= MaxGeneration
         /\ origin' = s.origin
         /\ slots' = [slots EXCEPT ![k] = [address |-> s.address, generation |-> s.generation]]
    /\ selections' = selections + 1
    /\ UNCHANGED now

Settle(k, outcome) ==
    /\ slots[k] # None
    /\ origin' = settle(origin, slots[k].address, slots[k].generation, outcome, now)
    /\ slots' = [slots EXCEPT ![k] = None]
    /\ UNCHANGED <<selections, now>>

\* A completed transfer whose body was consumed: settled, then sampled.
SettleSampled(k, s) ==
    /\ slots[k] # None
    /\ candidate(origin, slots[k].address).updated_at # now \* bound: one sample per address and instant
    /\ origin' = record_sample(settle(origin, slots[k].address, slots[k].generation, "Completed", now),
                               slots[k].address, s, now)
    /\ slots' = [slots EXCEPT ![k] = None]
    /\ UNCHANGED <<selections, now>>

Tick == now < MaxTime /\ now' = now + 1 /\ UNCHANGED <<origin, selections, slots>>

Next == \/ \E k \in Slots, a \in Answers : Reserve(k, a)
        \/ \E k \in Slots, out \in {"ConnectFailed", "Cancelled"} : Settle(k, out)
        \/ \E k \in Slots, s \in Samples : SettleSampled(k, s)
        \/ Tick

Spec == Init /\ [][Next]_vars

-----------------------------------------------------------------------------
(* What the selection rules promise *)

\* The addresses normal traffic may use: the two fastest proven ones, the
\* incumbent counting as one, as far as they are not parked, else every
\* address not parked.
FastPlaces(o, proven, incumbent, rate) ==
    incumbent \cup
    {j \in proven : Cardinality({n \in proven \ incumbent : rate[n] > rate[j] \/ (rate[n] = rate[j] /\ n < j)})
                    < PREFERRED_SET - Cardinality(incumbent)}
Eligible(o) ==
    LET rate == [j \in Places(o) |-> effective_rate(o.candidates[j], now)]
        fast == FastPlaces(o, {j \in Present(o) : is_proven(o.candidates[j]) /\ rate[j] # None},
                           PlaceOf(o, o.preferred), rate) \cap Available(o, now)
    IN IF fast # {} THEN fast ELSE Available(o, now)

\* Every choice keeps the order of the rules of Origin::pick: an untried
\* address first; a parked one only when every offered address is parked; a
\* probe only when it is due and only outside the eligible set; otherwise an
\* eligible address with the fewest transfers in flight.
FollowsRules(o, i, due, free, usable) ==
    /\ i \in Present(o)
    /\ Untried(o) # {} <=> i \in Untried(o)
    /\ Untried(o) = {} /\ free # {} =>
         IF due /\ free # usable THEN i \in free \ usable
         ELSE /\ i \in usable
              /\ \A j \in usable : o.candidates[i].in_flight <= o.candidates[j].in_flight
SelectionFollowsRules ==
    Cardinality(Present(origin)) >= 2 =>
        \A o \in {update_preferred(origin, now)}, due \in BOOLEAN :
            \A i \in PlaceOf(o, pick(o, now, due).address) :
                FollowsRules(o, i, due, Available(o, now), Eligible(o))

\* Hysteresis reaches the traffic: while nothing is in flight, an incumbent
\* that is offered and not parked keeps the requests for MIN_DWELL, however the
\* rates of the others move, unless a probe is due or an address is untried.
Sticks(o) ==
    /\ o.preferred # None /\ now - origin.preferred_since < MIN_DWELL
    /\ \E i \in PlaceOf(o, origin.preferred) : is_available(o.candidates[i], now)
PreferredIsSticky ==
    origin.preferred # None /\ (\A k \in Slots : slots[k] = None) =>
        \A a \in Answers : \A s \in {Selected(a)} :
            /\ origin.preferred \in ToSet(a) /\ s.reason = "Preferred"
            /\ Sticks(update_preferred(Observed(a), now))
            => s.address = origin.preferred

\* select, for whichever request and DNS answer come next: the rules decide in
\* their order, and a preferred address is not left before its dwell time.
SelectionIsSound == SelectionFollowsRules /\ PreferredIsSticky
=============================================================================

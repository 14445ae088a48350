----------------------------- MODULE LeaseTable ------------------------------
(***************************************************************************)
(* What the range scheduler promises its callers.  Every byte of the file  *)
(* is missing, under one lease, or acknowledged; the only step there is    *)
(* exchanges leases: some are given up, new ones are taken over bytes that *)
(* are then free, and bytes of the old ones may become acknowledged.       *)
(* Scheduler implements this specification, and the session is modelled    *)
(* on top of it.                                                           *)
(***************************************************************************)
EXTENDS PieceMap

VARIABLES
  missing,        \* bytes nobody holds and nobody wrote
  leases,         \* leases held by workers
  acked,          \* bytes the writer acknowledged
  next_lease,     \* lease ids from here on were never used
  stopped         \* a terminal failure closed the table

tableVars == <<missing, leases, acked, next_lease, stopped>>

BytesOf(ls) == UNION {RangeBytes(l) : l \in ls}
completed == {p \in Pieces : PieceBytes(p) \subseteq acked}

TableInit(done) ==
  /\ acked = UNION {PieceBytes(p) : p \in done}
  /\ missing = Bytes \ acked
  /\ leases = {}
  /\ next_lease = 1
  /\ stopped = FALSE

(* Leases are disjoint, and one that keeps the id of an old lease is part   *)
(* of it.                                                                   *)
FreshLeases(gone, new) ==
  /\ \A l \in new : /\ l.start < l.end
                    /\ \/ l.id >= next_lease
                       \/ \E g \in gone : g.id = l.id /\ RangeBytes(l) \subseteq RangeBytes(g)
  /\ \A l, m \in new : l # m => l.id # m.id /\ RangeBytes(l) \cap RangeBytes(m) = {}

Exchange(gone, new, confirmed) ==
  LET freed == missing \cup BytesOf(gone)
  IN /\ gone \subseteq leases
     /\ FreshLeases(gone, new)
     /\ confirmed \subseteq BytesOf(gone)
     /\ BytesOf(new) \subseteq freed \ confirmed
     /\ stopped => BytesOf(new) \subseteq BytesOf(gone)
     /\ leases' = (leases \ gone) \cup new
     /\ missing' = freed \ (confirmed \cup BytesOf(new))
     /\ acked' = acked \cup confirmed
     /\ next_lease' >= next_lease
     /\ \A l \in new : l.id < next_lease'
     /\ stopped => stopped'

AnyTable == \E done \in SUBSET Pieces : TableInit(done)

TableNext == Exchange(leases \ leases', leases' \ leases, acked' \ acked)

TableSpec == AnyTable /\ [][TableNext]_tableVars
=============================================================================

------------------------ MODULE SchedulerBooksProofs -------------------------
(***************************************************************************)
(* Proofs about what the scheduler keeps beside its ranges, and that it    *)
(* implements the lease table, for every file size, piece size, scheduling *)
(* mode and limit.                                                         *)
(***************************************************************************)
EXTENDS SchedulerProofs, FunctionTheorems

-----------------------------------------------------------------------------
(* The runtime map: an incomplete piece has an entry when it has a lease or *)
(* an acknowledged part, and a complete piece has none.                     *)
RuntimesAgree ==
  /\ pieces \cap completed = {}
  /\ \A l \in active_leases : l.piece \in pieces
  /\ has_completed_ranges = {p \in Pieces \ completed : acked[p] # {}}
  /\ has_completed_ranges \subseteq pieces

(* The inductive invariant: the ledger, finitely many leases under ids of   *)
(* their own, the summaries and the runtime map.                            *)
Books ==
  /\ IInv
  /\ IsFiniteSet(active_leases)
  /\ SummariesAgree
  /\ LeaseIdsUnique
  /\ RuntimesAgree

(* The ways a call changes the scheduler.                                   *)
Issues == \E first, last, grant : issue_lease(first, last, grant)
Reclaims(l) == ReclaimLease(l) /\ (stopped' = stopped \/ stopped' = TRUE)

LEMMA StepKinds ==
  ASSUME [Next]_vars
  PROVE  \/ Issues
         \/ \E r \in Ranges : RecoveryBatchRollback(r)
         \/ \E l \in active_leases : \/ \E e \in Bytes : retain_prefix(l, e)
                                     \/ renew(l)
                                     \/ complete(l)
                                     \/ Reclaims(l)
         \/ UNCHANGED vars
<1>1. CASE AssignForProbe
  BY <1>1, ZenonT(30) DEF AssignForProbe, assign_to, Issues
<1>2. CASE \E occupied \in 0 .. MaxConnections - 1 : assign_fixed_request(occupied)
  BY <1>2, ZenonT(30) DEF assign_fixed_request, Issues
<1>3. CASE \E occupied \in 0 .. MaxConnections - 1 : assign_dynamic_request(occupied)
  BY <1>3, ZenonT(30) DEF assign_dynamic_request, assign_to, Issues
<1>4. CASE \E r \in Ranges : assign_recovery_batch(r)
  BY <1>4, ZenonT(30) DEF assign_recovery_batch, Issues
<1>5. ASSUME NEW l \in active_leases, reclaim(l) \/ stop_and_reclaim(l)
      PROVE  Reclaims(l)
  BY <1>5, ZenonT(30) DEF reclaim, stop_and_reclaim, Reclaims
<1> QED
  BY <1>1, <1>2, <1>3, <1>4, <1>5, ZenonT(60) DEF Next

-----------------------------------------------------------------------------
(* Counting.                                                                *)

(* Mapping a finite set one to one keeps its size.                          *)
LEMMA SameSize ==
  ASSUME NEW S, NEW T, IsFiniteSet(S), NEW f \in [S -> T],
         \A x, y \in S : f[x] = f[y] => x = y,
         \A y \in T : \E x \in S : f[x] = y
  PROVE  IsFiniteSet(T) /\ Cardinality(T) = Cardinality(S)
<1>1. f \in Bijection(S, T)
  BY Fun_IsBij, ZenonT(30)
<1>2. ExistsBijection(S, T)
  BY <1>1, ZenonT(30) DEF ExistsBijection
<1> QED
  BY <1>2, FS_Bijection

(* Disjoint finite sets add up.                                             *)
LEMMA DisjointCount ==
  ASSUME NEW A, NEW B, IsFiniteSet(A), IsFiniteSet(B), A \cap B = {}
  PROVE  Cardinality(A \cup B) = Cardinality(A) + Cardinality(B)
<1>1. Cardinality(A \cup B) = Cardinality(A) + Cardinality(B) - Cardinality(A \cap B)
  BY FS_Union, ZenonT(30)
<1>2. Cardinality(A \cap B) = 0
  BY FS_EmptySet, ZenonT(30)
<1>3. Cardinality(A) \in Nat /\ Cardinality(B) \in Nat
  BY FS_CardinalityType, ZenonT(30)
<1> QED
  BY <1>1, <1>2, <1>3

(* The ranges of disjoint sets of pieces add up.                            *)
LEMMA RangeCountSplits ==
  ASSUME NEW ps \in SUBSET Pieces, NEW m
  PROVE  RangeCount(Pieces, m) = RangeCount(ps, m) + RangeCount(Pieces \ ps, m)
<1> DEFINE A == {x \in ps \X Bytes : x[2] \in RangeStarts(m[x[1]])}
           B == {x \in (Pieces \ ps) \X Bytes : x[2] \in RangeStarts(m[x[1]])}
<1>1. IsFiniteSet(A) /\ IsFiniteSet(B)
  <2>1. IsFiniteSet(Bytes)
    BY SizeAssumption, FS_Interval DEF Bytes
  <2>2. IsFiniteSet(ps \X Bytes) /\ IsFiniteSet((Pieces \ ps) \X Bytes)
    BY <2>1, PiecesAreFinite, FS_Product, ZenonT(30)
  <2>3. A \in SUBSET (ps \X Bytes) /\ B \in SUBSET ((Pieces \ ps) \X Bytes)
    BY ZenonT(30)
  <2> HIDE DEF A, B
  <2> QED
    BY <2>2, <2>3, FS_Subset, ZenonT(30)
<1>2. {x \in Pieces \X Bytes : x[2] \in RangeStarts(m[x[1]])} = A \cup B
  OBVIOUS
<1>3. A \cap B = {}
  OBVIOUS
<1>4. RangeCount(ps, m) = Cardinality(A) /\ RangeCount(Pieces \ ps, m) = Cardinality(B)
  BY ZenonT(30) DEF RangeCount
<1> HIDE DEF A, B
<1>5. RangeCount(Pieces, m) = Cardinality(A \cup B)
  BY <1>2, ZenonT(30) DEF RangeCount
<1>6. Cardinality(A \cup B) = Cardinality(A) + Cardinality(B)
  BY <1>1, <1>3, DisjointCount, ZenonT(30)
<1> QED
  BY <1>4, <1>5, <1>6, ZenonT(30)

(* Only the pieces that changed need to be counted again.                   *)
LEMMA RangeCountMoves ==
  ASSUME NEW ps \in SUBSET Pieces, NEW m, NEW n,
         \A p \in Pieces \ ps : m[p] = n[p]
  PROVE  RangeCount(Pieces, n) = RangeCount(Pieces, m) - RangeCount(ps, m) + RangeCount(ps, n)
<1>1. RangeCount(Pieces \ ps, m) = RangeCount(Pieces \ ps, n)
  <2>1. {x \in (Pieces \ ps) \X Bytes : x[2] \in RangeStarts(m[x[1]])}
          = {x \in (Pieces \ ps) \X Bytes : x[2] \in RangeStarts(n[x[1]])}
    OBVIOUS
  <2> QED
    BY <2>1, ZenonT(30) DEF RangeCount
<1>2. /\ RangeCount(Pieces \ ps, m) \in Nat /\ RangeCount(ps, m) \in Nat
      /\ RangeCount(ps, n) \in Nat
  BY RangeCountType
<1> QED
  BY <1>1, <1>2, RangeCountSplits

(* An untouched piece is one range.                                         *)
LEMMA WholePieceIsOneRange ==
  ASSUME NEW p \in Pieces
  PROVE  \A b : b \in RangeStarts(PieceBytes(p)) <=> b = PieceStart(p)
<1>1. /\ PieceStart(p) \in Nat /\ PieceEnd(p) \in Nat /\ PieceStart(p) < PieceEnd(p)
      /\ PieceBytes(p) = PieceStart(p) .. PieceEnd(p) - 1
  BY PieceBytesInFile
<1> QED
  BY <1>1 DEF RangeStarts

(* Untouched pieces are one range each, and pieces with nothing missing     *)
(* none.                                                                    *)
LEMMA WholePiecesCount ==
  ASSUME NEW ps \in SUBSET Pieces, NEW m, \A p \in ps : m[p] = PieceBytes(p)
  PROVE  RangeCount(ps, m) = Cardinality(ps)
<1> DEFINE T == {x \in ps \X Bytes : x[2] \in RangeStarts(m[x[1]])}
           f == [p \in ps |-> <<p, PieceStart(p)>>]
<1>1. \A x \in ps \X Bytes : x \in T <=> x[2] = PieceStart(x[1])
  BY WholePieceIsOneRange DEF RangeStarts
<1>2. \A p \in Pieces : PieceStart(p) \in Bytes
  <2> TAKE p \in Pieces
  <2>1. /\ PieceStart(p) \in Nat /\ PieceEnd(p) \in Nat /\ PieceStart(p) < PieceEnd(p)
        /\ PieceEnd(p) <= TotalSize
    BY PieceBytesInFile
  <2> QED
    BY <2>1, SizeAssumption DEF Bytes
<1>3. f \in [ps -> T]
  BY <1>1, <1>2
<1>4. \A x, y \in ps : f[x] = f[y] => x = y
  OBVIOUS
<1>5. \A y \in T : \E x \in ps : f[x] = y
  <2> SUFFICES ASSUME NEW y \in T PROVE \E x \in ps : f[x] = y
    OBVIOUS
  <2>1. y \in ps \X Bytes /\ y[1] \in ps /\ y[2] = PieceStart(y[1])
    BY <1>1
  <2>2. f[y[1]] = y
    BY <2>1
  <2> QED
    BY <2>1, <2>2
<1>6. IsFiniteSet(ps)
  BY PiecesAreFinite
<1> HIDE DEF f, T
<1>7. Cardinality(T) = Cardinality(ps)
  BY <1>3, <1>4, <1>5, <1>6, SameSize
<1> QED
  BY <1>7 DEF T, RangeCount

LEMMA EmptyPiecesCount ==
  ASSUME NEW ps \in SUBSET Pieces, NEW m, \A p \in ps : m[p] = {}
  PROVE  RangeCount(ps, m) = 0
<1>1. {x \in ps \X Bytes : x[2] \in RangeStarts(m[x[1]])} = {}
  BY DEF RangeStarts
<1> QED
  BY <1>1, FS_EmptySet, ZenonT(30) DEF RangeCount

(* A fresh or restored scheduler counts one range per incomplete piece.     *)
LEMMA InitialRangeCount ==
  ASSUME NEW done \in SUBSET Pieces
  PROVE  RangeCount(Pieces, [p \in Pieces |-> IF p \in done THEN {} ELSE PieceBytes(p)])
           = Cardinality(Pieces \ done)
<1> DEFINE m == [p \in Pieces |-> IF p \in done THEN {} ELSE PieceBytes(p)]
<1>1. /\ \A p \in done : m[p] = {}
      /\ \A p \in Pieces \ done : m[p] = PieceBytes(p)
  OBVIOUS
<1> HIDE DEF m
<1>2. RangeCount(done, m) = 0
  BY <1>1, EmptyPiecesCount
<1>3. RangeCount(Pieces \ done, m) = Cardinality(Pieces \ done)
  BY <1>1, WholePiecesCount
<1>4. Cardinality(Pieces \ done) \in Nat
  BY PiecesAreFinite
<1>5. RangeCount(Pieces, m) = RangeCount(done, m) + RangeCount(Pieces \ done, m)
  BY RangeCountSplits
<1>6. RangeCount(Pieces, m) = Cardinality(Pieces \ done)
  BY <1>2, <1>3, <1>4, <1>5
<1> QED
  BY <1>6 DEF m

-----------------------------------------------------------------------------
(* SchedulerState::new and from_piece_map start with books that agree.      *)
LEMMA InitBooks == Init => Books
<1> SUFFICES ASSUME Init PROVE Books
  OBVIOUS
<1>1. IInv
  BY InitIInv
<1>2. active_leases = {} /\ IsFiniteSet(active_leases) /\ Cardinality(active_leases) = 0
  BY FS_EmptySet DEF Init
<1>3. available_range_count = RangeCount(Pieces, missing_ranges)
  BY InitialRangeCount DEF Init
<1>4. available_pieces = {p \in Pieces : missing_ranges[p] # {}}
  BY PieceBytesInFile DEF Init
<1>5. SummariesAgree
  BY <1>2, <1>3, <1>4 DEF Init, SummariesAgree
<1>6. LeaseIdsUnique
  BY <1>2 DEF LeaseIdsUnique
<1>7. RuntimesAgree
  BY <1>2 DEF Init, RuntimesAgree
<1> QED
  BY <1>1, <1>2, <1>5, <1>6, <1>7 DEF Books

-----------------------------------------------------------------------------
(* One lemma per way the scheduler changes its ranges.                      *)

(* issue_lease hands out whole new leases: ids from next_lease_id on, one   *)
(* for each piece of the grant.                                             *)
LEMMA IssueKeepsBooks ==
  ASSUME Books, IInv', NEW first, NEW last, NEW grant, issue_lease(first, last, grant)
  PROVE  Books'
<1> DEFINE ps == first .. last
           New(p) == [id |-> next_lease_id + (p - first), piece |-> p,
                      start |-> grant[p].start, end |-> grant[p].end]
           news == {New(p) : p \in ps}
           f == [p \in ps |-> New(p)]
<1>1. /\ first \in Nat /\ last \in Nat /\ first <= last
      /\ ps \subseteq Pieces
  BY PieceCountPositive DEF issue_lease, Issuable, Pieces
<1>2. \A p \in ps : /\ RangeBytes(grant[p]) \subseteq missing_ranges[p]
                    /\ missing_ranges[p] # {}
  <2> SUFFICES ASSUME NEW p \in ps
               PROVE  /\ RangeBytes(grant[p]) \subseteq missing_ranges[p]
                      /\ missing_ranges[p] # {}
    OBVIOUS
  <2>1. RangeBytes(grant[p]) \subseteq missing_ranges[p] /\ grant[p] \in Ranges
    BY DEF issue_lease, Issuable, IsMissing
  <2>2. grant[p].start \in RangeBytes(grant[p])
    BY <2>1, SizeAssumption DEF Ranges, RangeBytes, Bytes
  <2> QED
    BY <2>1, <2>2
<1>3. /\ active_leases' = active_leases \cup news
      /\ \A p \in Pieces \ ps : missing_ranges'[p] = missing_ranges[p]
      /\ missing_ranges' = [p \in Pieces |-> missing_ranges'[p]]
      /\ next_lease_id' = next_lease_id + (last - first + 1)
      /\ pieces' = pieces \cup ps
      /\ active_lease_count' = active_lease_count + (last - first + 1)
      /\ available_range_count' = available_range_count
           - RangeCount(ps, missing_ranges) + RangeCount(ps, missing_ranges')
      /\ available_pieces' = (available_pieces \ ps) \cup {p \in ps : missing_ranges'[p] # {}}
      /\ UNCHANGED <<completed, has_completed_ranges, acked>>
  BY <1>1 DEF issue_lease
<1>4. next_lease_id \in Nat
  BY DEF Books, IInv, TypeOK
<1>5. ps \cap completed = {}
  BY <1>1, <1>2 DEF Books, IInv, BytePartition, CompleteIffAcked
<1>6. /\ IsFiniteSet(news) /\ Cardinality(news) = last - first + 1
  <2>1. f \in [ps -> news]
    OBVIOUS
  <2>2. \A x, y \in ps : f[x] = f[y] => x = y
    OBVIOUS
  <2>3. \A y \in news : \E x \in ps : f[x] = y
    OBVIOUS
  <2>4. IsFiniteSet(ps) /\ Cardinality(ps) = last - first + 1
    BY <1>1, FS_Interval
  <2> HIDE DEF f, news, ps
  <2> QED
    BY <2>1, <2>2, <2>3, <2>4, SameSize
<1>7. \A l \in news : /\ l.id >= next_lease_id /\ l.id < next_lease_id'
                      /\ l.piece \in ps
  BY <1>1, <1>3, <1>4
<1>8. \A l, m \in news : l.id = m.id => l = m
  BY <1>1, <1>4
<1>9. \A l \in active_leases : l.id \in Nat /\ l.id < next_lease_id
  BY DEF Books, LeaseIdsUnique, IInv, TypeOK, Lease
<1>10. \A l \in news : l.id \in Nat
  BY <1>1, <1>4
<1> HIDE DEF news, New, f
<1>11. active_leases \cap news = {}
  BY <1>4, <1>7, <1>9, <1>10
<1>12. /\ IsFiniteSet(active_leases')
       /\ Cardinality(active_leases') = Cardinality(active_leases) + (last - first + 1)
  <2>1. /\ IsFiniteSet(active_leases) /\ Cardinality(active_leases) \in Nat
    BY FS_CardinalityType DEF Books
  <2>2. /\ IsFiniteSet(active_leases \cup news)
        /\ Cardinality(active_leases \cup news) = Cardinality(active_leases) + Cardinality(news) - 0
    BY <1>6, <1>11, <2>1, FS_Union, FS_EmptySet
  <2> QED
    BY <1>1, <1>3, <1>6, <2>1, <2>2
<1>13. available_range_count' = RangeCount(Pieces, missing_ranges')
  BY <1>1, <1>3, RangeCountMoves DEF Books, SummariesAgree
<1>14. available_pieces' = {p \in Pieces : missing_ranges'[p] # {}}
  BY <1>1, <1>3 DEF Books, SummariesAgree
<1>15. SummariesAgree'
  BY <1>3, <1>12, <1>13, <1>14 DEF Books, SummariesAgree
<1>16. LeaseIdsUnique'
  <2>1. \A l \in active_leases : l.id < next_lease_id'
    BY <1>1, <1>3, <1>4, <1>9
  <2>2. \A l \in active_leases, m \in news : l.id # m.id
    BY <1>4, <1>7, <1>9, <1>10
  <2> QED
    BY <1>3, <1>7, <1>8, <2>1, <2>2 DEF Books, LeaseIdsUnique
<1>17. RuntimesAgree'
  BY <1>3, <1>5, <1>7 DEF Books, RuntimesAgree
<1> QED
  BY <1>12, <1>15, <1>16, <1>17 DEF Books

(* A lease that is replaced keeps the number of leases.                     *)
LEMMA ReplacedLease ==
  ASSUME Books, NEW l \in active_leases, NEW k, k \notin active_leases \ {l},
         active_leases' = (active_leases \ {l}) \cup {k}
  PROVE  IsFiniteSet(active_leases') /\ Cardinality(active_leases') = Cardinality(active_leases)
<1>1. IsFiniteSet(active_leases) /\ Cardinality(active_leases) \in Nat
  BY FS_CardinalityType DEF Books
<1>2. /\ IsFiniteSet(active_leases \ {l})
      /\ Cardinality(active_leases \ {l}) = Cardinality(active_leases) - 1
  BY <1>1, FS_RemoveElement
<1>3. /\ IsFiniteSet((active_leases \ {l}) \cup {k})
      /\ Cardinality((active_leases \ {l}) \cup {k}) = Cardinality(active_leases \ {l}) + 1
  BY <1>2, FS_AddElement
<1> QED
  BY <1>1, <1>2, <1>3

(* A lease that ends is one less.                                           *)
LEMMA EndedLeaseCount ==
  ASSUME Books, NEW l \in active_leases, active_leases' = active_leases \ {l}
  PROVE  IsFiniteSet(active_leases') /\ Cardinality(active_leases') = Cardinality(active_leases) - 1
  BY FS_RemoveElement DEF Books

(* retain_prefix: the lease shrinks under its id, its piece becomes dirty.  *)
LEMMA RetainKeepsBooks ==
  ASSUME Books, IInv', NEW l \in active_leases, NEW e \in Bytes, retain_prefix(l, e)
  PROVE  Books'
<1> DEFINE k == [l EXCEPT !.start = e]
<1>1. /\ e \in Nat /\ l.start < e /\ e < l.end
      /\ active_leases' = (active_leases \ {l}) \cup {k}
      /\ has_completed_ranges' = has_completed_ranges \cup {l.piece}
      /\ acked' = [acked EXCEPT ![l.piece] = @ \cup (l.start .. e - 1)]
      /\ UNCHANGED <<completed, pieces, missing_ranges, available_pieces,
                     active_lease_count, available_range_count, next_lease_id>>
  BY SizeAssumption DEF retain_prefix, Bytes
<1>2. /\ l \in Lease /\ l.piece \in Pieces /\ l.start \in Nat /\ l.id \in Nat
  BY LeaseFacts DEF Books
<1>3. k.id = l.id /\ k.piece = l.piece
  BY <1>2 DEF Lease
<1> HIDE DEF k
<1>4. k \notin active_leases \ {l}
  BY <1>3 DEF Books, LeaseIdsUnique
<1>5. IsFiniteSet(active_leases') /\ Cardinality(active_leases') = Cardinality(active_leases)
  BY <1>1, <1>4, ReplacedLease
<1>6. SummariesAgree'
  BY <1>1, <1>5 DEF Books, SummariesAgree
<1>7. LeaseIdsUnique'
  BY <1>1, <1>3 DEF Books, LeaseIdsUnique
<1>8. \A p \in Pieces : acked'[p] # {} <=> acked[p] # {} \/ p = l.piece
  <2>1. l.start \in l.start .. e - 1
    BY <1>1, <1>2
  <2> QED
    BY <1>1, <1>2, <2>1 DEF Books, IInv, TypeOK
<1>9. RuntimesAgree'
  <2>1. l.piece \in pieces /\ l.piece \notin completed
    BY DEF Books, RuntimesAgree
  <2> QED
    BY <1>1, <1>2, <1>3, <1>8, <2>1 DEF Books, RuntimesAgree
<1> QED
  BY <1>5, <1>6, <1>7, <1>9 DEF Books

(* renew: the lease goes on under a fresh id.                               *)
LEMMA RenewKeepsBooks ==
  ASSUME Books, IInv', NEW l \in active_leases, renew(l)
  PROVE  Books'
<1> DEFINE k == [l EXCEPT !.id = next_lease_id]
<1>1. /\ active_leases' = (active_leases \ {l}) \cup {k}
      /\ next_lease_id' = next_lease_id + 1
      /\ UNCHANGED <<completed, pieces, missing_ranges, has_completed_ranges,
                     available_pieces, active_lease_count, available_range_count, acked>>
  BY DEF renew
<1>2. next_lease_id \in Nat /\ \A m \in active_leases : m.id \in Nat /\ m.id < next_lease_id
  BY DEF Books, IInv, TypeOK, Lease, LeaseIdsUnique
<1>3. k.id = next_lease_id /\ k.piece = l.piece
  BY LeaseFacts DEF Books, Lease
<1> HIDE DEF k
<1>4. k \notin active_leases \ {l}
  BY <1>2, <1>3
<1>5. IsFiniteSet(active_leases') /\ Cardinality(active_leases') = Cardinality(active_leases)
  BY <1>1, <1>4, ReplacedLease
<1>6. SummariesAgree'
  BY <1>1, <1>5 DEF Books, SummariesAgree
<1>7. LeaseIdsUnique'
  BY <1>1, <1>2, <1>3 DEF Books, LeaseIdsUnique
<1>8. RuntimesAgree'
  BY <1>1, <1>3 DEF Books, RuntimesAgree
<1> QED
  BY <1>5, <1>6, <1>7, <1>8 DEF Books

(* complete: the lease ends, and its piece is dirty or complete.            *)
LEMMA CompleteKeepsBooks ==
  ASSUME Books, IInv', NEW l \in active_leases, complete(l)
  PROVE  Books'
<1> DEFINE piece_complete == /\ missing_ranges[l.piece] = {}
                             /\ \A m \in active_leases \ {l} : m.piece # l.piece
<1>1. /\ active_leases' = active_leases \ {l}
      /\ active_lease_count' = active_lease_count - 1
      /\ acked' = [acked EXCEPT ![l.piece] = @ \cup RangeBytes(l)]
      /\ UNCHANGED <<missing_ranges, available_pieces, available_range_count, next_lease_id>>
  BY DEF complete
<1>2. \/ /\ piece_complete
         /\ completed' = completed \cup {l.piece}
         /\ pieces' = pieces \ {l.piece}
         /\ has_completed_ranges' = has_completed_ranges \ {l.piece}
      \/ /\ has_completed_ranges' = has_completed_ranges \cup {l.piece}
         /\ UNCHANGED <<completed, pieces>>
  BY DEF complete
<1>3. l.piece \in Pieces /\ RangeBytes(l) # {}
  BY LeaseFacts DEF Books
<1>4. IsFiniteSet(active_leases') /\ Cardinality(active_leases') = Cardinality(active_leases) - 1
  BY <1>1, EndedLeaseCount
<1>5. SummariesAgree'
  BY <1>1, <1>4 DEF Books, SummariesAgree
<1>6. LeaseIdsUnique'
  BY <1>1 DEF Books, LeaseIdsUnique
<1>7. \A p \in Pieces : acked'[p] # {} <=> acked[p] # {} \/ p = l.piece
  BY <1>1, <1>3 DEF Books, IInv, TypeOK
<1>8. l.piece \in pieces /\ l.piece \notin completed
  BY DEF Books, RuntimesAgree
<1>9. RuntimesAgree'
  BY <1>1, <1>2, <1>3, <1>7, <1>8 DEF Books, RuntimesAgree
<1> QED
  BY <1>4, <1>5, <1>6, <1>9 DEF Books

(* reclaim and stop_and_reclaim: the range joins the missing ones of its    *)
(* piece, which are counted again.                                          *)
LEMMA ReclaimKeepsBooks ==
  ASSUME Books, IInv', NEW l \in active_leases, ReclaimLease(l)
  PROVE  Books'
<1>1. /\ missing_ranges' = [missing_ranges EXCEPT ![l.piece] = @ \cup RangeBytes(l)]
      /\ active_leases' = active_leases \ {l}
      /\ active_lease_count' = active_lease_count - 1
      /\ available_range_count' = available_range_count
           - RangeCount({l.piece}, missing_ranges) + RangeCount({l.piece}, missing_ranges')
      /\ available_pieces' = available_pieces \cup {l.piece}
      /\ UNCHANGED <<completed, pieces, has_completed_ranges, next_lease_id, acked>>
  BY DEF ReclaimLease
<1>2. l.piece \in Pieces /\ RangeBytes(l) # {}
  BY LeaseFacts DEF Books
<1>3. missing_ranges \in [Pieces -> SUBSET Bytes]
  BY DEF Books, IInv, TypeOK
<1>4. IsFiniteSet(active_leases') /\ Cardinality(active_leases') = Cardinality(active_leases) - 1
  BY <1>1, EndedLeaseCount
<1>5. available_range_count' = RangeCount(Pieces, missing_ranges')
  <2>1. \A p \in Pieces \ {l.piece} : missing_ranges[p] = missing_ranges'[p]
    BY <1>1, <1>3
  <2> QED
    BY <1>1, <1>2, <2>1, RangeCountMoves DEF Books, SummariesAgree
<1>6. available_pieces' = {p \in Pieces : missing_ranges'[p] # {}}
  BY <1>1, <1>2, <1>3 DEF Books, SummariesAgree
<1>7. SummariesAgree'
  BY <1>1, <1>4, <1>5, <1>6 DEF Books, SummariesAgree
<1>8. LeaseIdsUnique'
  BY <1>1 DEF Books, LeaseIdsUnique
<1>9. RuntimesAgree'
  BY <1>1 DEF Books, RuntimesAgree
<1> QED
  BY <1>4, <1>7, <1>8, <1>9 DEF Books

(* A batch that is rolled back spends ids and leaves entries for the pieces *)
(* it tried, none of them complete.                                         *)
LEMMA RollbackKeepsBooks ==
  ASSUME Books, IInv', NEW r \in Ranges, RecoveryBatchRollback(r)
  PROVE  Books'
<1> DEFINE first == PieceOf(r.start)
           last == PieceOf(r.end - 1)
<1>1. PICK bad \in first .. last :
        /\ next_lease_id' = next_lease_id + (bad - first)
        /\ pieces' = pieces \cup first .. bad
  BY DEF RecoveryBatchRollback
<1>2. /\ first .. last \cap completed = {}
      /\ UNCHANGED <<completed, missing_ranges, active_leases, has_completed_ranges,
                     available_pieces, active_lease_count, available_range_count, acked>>
  BY DEF RecoveryBatchRollback, RecoverableRange
<1>3. first \in Int /\ last \in Int
  BY SizeAssumption DEF PieceOf, Ranges, Bytes
<1> HIDE DEF first, last
<1>4. bad \in Int /\ first <= bad /\ bad <= last /\ first .. bad \subseteq first .. last
  BY <1>3
<1>5. SummariesAgree' /\ IsFiniteSet(active_leases')
  BY <1>2 DEF Books, SummariesAgree
<1>6. LeaseIdsUnique'
  <2>1. \A l \in active_leases : l.id \in Nat /\ l.id < next_lease_id
    BY DEF Books, LeaseIdsUnique, IInv, TypeOK, Lease
  <2>2. next_lease_id \in Nat
    BY DEF Books, IInv, TypeOK
  <2>3. \A l \in active_leases : l.id < next_lease_id'
    BY <1>1, <1>3, <1>4, <2>1, <2>2
  <2> QED
    BY <1>2, <2>3 DEF Books, LeaseIdsUnique
<1>7. RuntimesAgree'
  BY <1>1, <1>2, <1>4 DEF Books, RuntimesAgree
<1> QED
  BY <1>5, <1>6, <1>7 DEF Books

(* Every call on the scheduler keeps the books.                             *)
LEMMA NextKeepsBooks == Books /\ [Next]_vars => Books'
<1> SUFFICES ASSUME Books, [Next]_vars PROVE Books'
  OBVIOUS
<1>1. IInv'
  BY NextKeepsIInv DEF Books
<1>2. CASE Issues
  BY <1>1, <1>2, IssueKeepsBooks DEF Issues
<1>3. CASE \E r \in Ranges : RecoveryBatchRollback(r)
  BY <1>1, <1>3, RollbackKeepsBooks
<1>4. ASSUME NEW l \in active_leases,
             \/ \E e \in Bytes : retain_prefix(l, e)
             \/ renew(l) \/ complete(l) \/ Reclaims(l)
      PROVE  Books'
  BY <1>1, <1>4, RetainKeepsBooks, RenewKeepsBooks, CompleteKeepsBooks, ReclaimKeepsBooks
     DEF Reclaims
<1>5. CASE UNCHANGED vars
  BY <1>1, <1>5 DEF Books, vars, SummariesAgree, LeaseIdsUnique, RuntimesAgree
<1> QED
  BY <1>2, <1>3, <1>4, <1>5, StepKinds

(* The books hold throughout.                                               *)
LEMMA BooksInvariance == Spec => []Books
  BY InitBooks, NextKeepsBooks, PTL DEF Spec

(* The lease count, the range count, the availability bits, the lease ids   *)
(* and the dirty hints of control_hints always say what the ranges say:     *)
(* assignment and checkpoints read only these.                              *)
THEOREM BookkeepingIsRight == Spec => []BookkeepingAgrees
<1>1. Books => BookkeepingAgrees
  <2> SUFFICES ASSUME Books PROVE DirtyHintsCoverPartialPieces
    BY DEF Books, BookkeepingAgrees
  <2>1. ASSUME NEW p \in Pieces
        PROVE  p \in dirty_piece_ids <=>
                 p \notin completed /\ (LeasedBytes(p) # {} \/ acked[p] # {})
    <3>1. LeasesOf(p) # {} <=> LeasedBytes(p) # {}
      BY LeaseFacts DEF Books, LeasesOf, LeasedBytes
    <3>2. LeasesOf(p) # {} => p \in pieces
      BY DEF Books, RuntimesAgree, LeasesOf
    <3> QED
      BY <3>1, <3>2 DEF Books, RuntimesAgree, dirty_piece_ids
  <2>2. dirty_piece_ids \subseteq Pieces
    BY DEF dirty_piece_ids, Books, IInv, TypeOK
  <2> QED
    BY <2>1, <2>2 DEF DirtyHintsCoverPartialPieces
<1> QED
  BY <1>1, BooksInvariance, PTL

-----------------------------------------------------------------------------
(* A batch and the request slots that stay free.                            *)

(* A non-empty set of naturals with a bound has a greatest element.         *)
LEMMA MaxIsGreatest ==
  ASSUME NEW S \in SUBSET Nat, NEW bound \in Nat, S # {}, \A x \in S : x <= bound
  PROVE  Max(S) \in S
<1> DEFINE T == {bound - x : x \in S}
<1>1. \A y : y \in T <=> \E x \in S : y = bound - x
  OBVIOUS
<1>2. \A x \in S : x \in Nat /\ bound - x \in Nat
  OBVIOUS
<1> HIDE DEF T
<1>3. T \in SUBSET Nat /\ T # {}
  <2>1. PICK z \in S : z = z
    BY Zenon
  <2>2. bound - z \in T
    BY <1>1
  <2>3. \A y \in T : y \in Nat
    BY <1>1, <1>2
  <2> QED
    BY <2>2, <2>3
<1>4. Min(T) \in T /\ \A y \in T : Min(T) <= y
  BY <1>3, MinIsLeast
<1>5. PICK x \in S : Min(T) = bound - x
  BY <1>1, <1>4
<1>6. \A y \in S : x >= y
  <2> TAKE y \in S
  <2>1. bound - x <= bound - y
    BY <1>1, <1>4, <1>5
  <2> QED
    BY <1>2, <2>1
<1> QED
  BY <1>6, ZenonT(30) DEF Max

(* A piece without an entry in the runtime map is complete or untouched.    *)
LEMMA UntouchedPiece ==
  ASSUME Books, NEW p \in available_pieces \ pieces
  PROVE  p \in Pieces /\ missing_ranges[p] = PieceBytes(p)
<1>1. p \in Pieces /\ missing_ranges[p] # {}
  BY DEF Books, SummariesAgree
<1>2. LeasedBytes(p) = {}
  BY DEF Books, RuntimesAgree, LeasedBytes, LeasesOf
<1>3. p \notin completed
  BY <1>1 DEF Books, IInv, CompleteIffAcked, BytePartition
<1>4. acked[p] = {}
  BY <1>1, <1>3 DEF Books, RuntimesAgree
<1> QED
  BY <1>1, <1>2, <1>4 DEF Books, IInv, BytePartition

(* The pieces of a batch are whole and untouched, and the last of them was  *)
(* only added with enough ranges left behind.                               *)
LEMMA BatchEndFacts ==
  ASSUME NEW first \in Pieces, NEW occupied,
         BatchEnd(first, occupied) # first
  PROVE  LET last == BatchEnd(first, occupied)
         IN /\ last \in Pieces /\ first < last
            /\ \A p \in first + 1 .. last : p \in available_pieces \ pieces
            /\ available_range_count - 1 - (last - first - 1) > MaxConnections - (occupied + 1)
<1> DEFINE left == available_range_count - 1
           reserved_for_peers == MaxConnections - (occupied + 1)
           Joins(p) ==
             /\ p - first < MAX_REQUEST_LEASES
             /\ left - (p - first - 1) > reserved_for_peers
             /\ p \in available_pieces \ pieces
             /\ PieceEnd(p) - PieceStart(first) <= RequestBatchSize
           S == {e \in first .. piece_count - 1 : \A p \in first + 1 .. e : Joins(p)}
           last == BatchEnd(first, occupied)
<1>1. first \in Nat /\ first <= piece_count - 1 /\ piece_count - 1 \in Nat
  BY PieceCountPositive DEF Pieces
<1>2. last = Max(S)
  BY DEF BatchEnd
<1>3. first \in S
  BY <1>1
<1>4. S \in SUBSET Nat /\ \A x \in S : x <= piece_count - 1
  BY <1>1
<1> HIDE DEF S, last
<1>5. last \in S
  <2> DEFINE bound == piece_count - 1
  <2>1. bound \in Nat /\ \A x \in S : x <= bound
    BY <1>1, <1>4
  <2> HIDE DEF bound
  <2>2. Max(S) \in S
    BY <1>3, <1>4, <2>1, MaxIsGreatest
  <2> QED
    BY <1>2, <2>2
<1> HIDE DEF Joins
<1>6. last \in first .. piece_count - 1 /\ \A p \in first + 1 .. last : Joins(p)
  BY <1>5 DEF S
<1>7. last \in Pieces /\ first < last
  BY <1>1, <1>6 DEF last, Pieces
<1>8. last \in first + 1 .. last
  BY <1>1, <1>6, <1>7
<1>9. Joins(last)
  BY <1>6, <1>8
<1> QED
  BY <1>6, <1>7, <1>9 DEF Joins, last

(* The new leases of an assignment are as many as its pieces.               *)
LEMMA NewLeaseCount ==
  ASSUME Books, NEW first, NEW last, NEW grant, issue_lease(first, last, grant)
  PROVE  Cardinality(NewLeases) = last - first + 1
<1> DEFINE ps == first .. last
           New(p) == [id |-> next_lease_id + (p - first), piece |-> p,
                      start |-> grant[p].start, end |-> grant[p].end]
           news == {New(p) : p \in ps}
           f == [p \in ps |-> New(p)]
<1>1. first \in Nat /\ last \in Nat /\ first <= last
  BY PieceCountPositive DEF issue_lease, Issuable, Pieces
<1>2. active_leases' = active_leases \cup news
  BY DEF issue_lease
<1>3. next_lease_id \in Nat /\ \A l \in active_leases : l.id \in Nat /\ l.id < next_lease_id
  BY DEF Books, LeaseIdsUnique, IInv, TypeOK, Lease
<1>4. \A l \in news : l.id >= next_lease_id
  BY <1>1, <1>3
<1>5. NewLeases = news
  BY <1>2, <1>3, <1>4 DEF NewLeases
<1>6. f \in [ps -> news]
  OBVIOUS
<1>7. \A x, y \in ps : f[x] = f[y] => x = y
  OBVIOUS
<1>8. \A y \in news : \E x \in ps : f[x] = y
  OBVIOUS
<1>9. IsFiniteSet(ps) /\ Cardinality(ps) = last - first + 1
  BY <1>1, FS_Interval
<1> HIDE DEF f, news, ps
<1> QED
  BY <1>5, <1>6, <1>7, <1>8, <1>9, SameSize

(* extend_batch_with_occupied: a request of several leases is a batch of    *)
(* whole untouched pieces, one range each, so the ranges it leaves behind   *)
(* are the ones the batch rule counted.                                     *)
LEMMA BatchStep ==
  ASSUME Books, NEW occupied \in 0 .. MaxConnections - 1, assign_fixed_request(occupied),
         Cardinality(NewLeases) > 1
  PROVE  available_range_count' >= MaxConnections - (occupied + 1)
<1>1. PICK p \in {CandidatePiece} :
      \E r \in {assignment_range_for(FirstRange(missing_ranges[p]),
                  active_lease_count + (MaxConnections - occupied), MinSegmentSize)} :
      \E last \in {IF p \notin pieces /\ r = piece_range(p)
                     THEN BatchEnd(p, occupied) ELSE p} :
        issue_lease(p, last, [Whole EXCEPT ![p] = r])
  BY ZenonT(30) DEF assign_fixed_request
<1>2. PICK r : \E last \in {IF p \notin pieces /\ r = piece_range(p)
                              THEN BatchEnd(p, occupied) ELSE p} :
                 issue_lease(p, last, [Whole EXCEPT ![p] = r])
  BY <1>1, ZenonT(30)
<1>3. PICK last : /\ last = IF p \notin pieces /\ r = piece_range(p)
                              THEN BatchEnd(p, occupied) ELSE p
                  /\ issue_lease(p, last, [Whole EXCEPT ![p] = r])
  BY <1>2, ZenonT(30)
<1> DEFINE grant == [Whole EXCEPT ![p] = r]
           ps == p .. last
<1>4. /\ p \in Pieces /\ last \in Pieces /\ p <= last
      /\ \A q \in ps : grant[q] \in Ranges /\ RangeBytes(grant[q]) \subseteq missing_ranges[q]
  BY <1>3 DEF issue_lease, Issuable, IsMissing
<1>5. p \in Nat /\ last \in Nat /\ ps \subseteq Pieces
  BY <1>4, PieceCountPositive DEF Pieces
<1>6. last # p
  <2>1. Cardinality(NewLeases) = last - p + 1
    BY <1>3, NewLeaseCount
  <2> QED
    BY <1>5, <2>1
<1>7. p \notin pieces /\ r = piece_range(p) /\ last = BatchEnd(p, occupied)
  BY <1>3, <1>6
<1>8. /\ \A q \in p + 1 .. last : q \in available_pieces \ pieces
      /\ available_range_count - 1 - (last - p - 1) > MaxConnections - (occupied + 1)
  BY <1>4, <1>6, <1>7, BatchEndFacts
<1>9. \A q \in ps : grant[q] = piece_range(q)
  BY <1>4, <1>5, <1>7 DEF Whole
<1>10. p \in available_pieces
  <2>1. RangeBytes(grant[p]) \subseteq missing_ranges[p] /\ grant[p] = piece_range(p)
    BY <1>4, <1>5, <1>9
  <2>2. PieceBytes(p) # {} /\ PieceBytes(p) \subseteq missing_ranges[p]
    BY <1>4, <2>1, PieceBytesInFile DEF PieceBytes
  <2> QED
    BY <1>4, <2>2 DEF Books, SummariesAgree
<1>11. \A q \in ps : missing_ranges[q] = PieceBytes(q)
  <2>1. \A q \in ps : q = p \/ q \in p + 1 .. last
    BY <1>5
  <2> QED
    BY <1>7, <1>8, <1>10, <2>1, UntouchedPiece
<1>12. /\ missing_ranges' = [q \in Pieces |-> IF q \in ps
                               THEN missing_ranges[q] \ RangeBytes(grant[q])
                               ELSE missing_ranges[q]]
       /\ available_range_count' = available_range_count
            - RangeCount(ps, missing_ranges) + RangeCount(ps, missing_ranges')
  BY <1>3 DEF issue_lease
<1>13. \A q \in ps : missing_ranges'[q] = {}
  BY <1>5, <1>9, <1>11, <1>12 DEF PieceBytes
<1>14. IsFiniteSet(ps) /\ Cardinality(ps) = last - p + 1
  BY <1>4, <1>5, FS_Interval
<1>15. RangeCount(ps, missing_ranges) = last - p + 1
  BY <1>5, <1>11, <1>14, WholePiecesCount
<1>16. RangeCount(ps, missing_ranges') = 0
  <2> DEFINE m == missing_ranges'
  <2>1. \A q \in ps : m[q] = {}
    BY <1>13
  <2> HIDE DEF m
  <2>2. RangeCount(ps, m) = 0
    BY <1>5, <2>1, EmptyPiecesCount
  <2> QED
    BY <2>2 DEF m
<1>17. available_range_count \in Int
  BY DEF Books, IInv, TypeOK
<1> QED
  BY <1>5, <1>8, <1>12, <1>15, <1>16, <1>17, SchedulerAssumption

(* However many pieces a request batches, it leaves a range for every       *)
(* request slot that is still free.                                         *)
THEOREM BatchesLeaveWork == Spec => BatchLeavesPeersWork
<1>1. Books /\ [Next]_vars =>
        [\A occupied \in 0 .. MaxConnections - 1 :
           (assign_fixed_request(occupied) /\ Cardinality(NewLeases) > 1)
             => available_range_count' >= MaxConnections - (occupied + 1)]_vars
  BY BatchStep
<1> QED
  BY <1>1, BooksInvariance, PTL DEF Spec, BatchLeavesPeersWork

-----------------------------------------------------------------------------
(* Refinement: the table's view of the scheduler.                           *)
Strip(l) == [id |-> l.id, start |-> l.start, end |-> l.end]
TableMissing == UNION {missing_ranges[p] : p \in Pieces}
TableLeases == {Strip(l) : l \in active_leases}
TableAcked == UNION {acked[p] : p \in Pieces}
BytesUnder(ls) == UNION {RangeBytes(l) : l \in ls}

(* The pieces tile the file: each byte is in exactly one of them.           *)
LEMMA PiecesTile ==
  /\ \A b \in Bytes : \E p \in Pieces : b \in PieceBytes(p)
  /\ \A p, q \in Pieces : \A b : b \in PieceBytes(p) /\ b \in PieceBytes(q) => p = q
<1>1. /\ piece_count \in Nat \ {0}
      /\ TotalSize + PieceSize - 1 < PieceSize * piece_count + PieceSize
  BY PieceCountPositive, DivisionBounds, SizeAssumption DEF piece_count, div_ceil
<1>2. ASSUME NEW b \in Bytes PROVE \E p \in Pieces : b \in PieceBytes(p)
  <2> DEFINE p == b \div PieceSize
  <2>1. b \in Nat /\ b < TotalSize
    BY SizeAssumption DEF Bytes
  <2>2. p \in Nat /\ PieceSize * p <= b /\ b < PieceSize * p + PieceSize
    BY <2>1, DivisionBounds, SizeAssumption
  <2> HIDE DEF p
  <2>3. p < piece_count
    <3>1. SUFFICES ASSUME p >= piece_count PROVE FALSE
      BY <1>1, <2>2
    <3>2. PieceSize * p >= PieceSize * piece_count
      BY <1>1, <2>2, <3>1, SizeAssumption
    <3> QED
      BY <1>1, <2>1, <2>2, <3>2, SizeAssumption
  <2>4. p \in Pieces
    BY <1>1, <2>2, <2>3 DEF Pieces
  <2>5. PieceBytes(p) = PieceStart(p) .. PieceEnd(p) - 1
    BY <2>4, PieceBytesInFile
  <2>6. (p + 1) * PieceSize = PieceSize * p + PieceSize /\ p * PieceSize = PieceSize * p
    BY <2>2, SizeAssumption
  <2>7. b \in PieceBytes(p)
    BY <2>1, <2>2, <2>5, <2>6, SizeAssumption DEF PieceStart, PieceEnd, MinOf
  <2> QED
    BY <2>4, <2>7
<1>3. ASSUME NEW p \in Pieces, NEW q \in Pieces, p < q
      PROVE  \A b : ~(b \in PieceBytes(p) /\ b \in PieceBytes(q))
  <2>1. p \in Nat /\ q \in Nat /\ p + 1 <= q
    BY <1>1, <1>3 DEF Pieces
  <2>2. (p + 1) * PieceSize <= q * PieceSize
    BY <2>1, SizeAssumption
  <2>3. /\ (p + 1) * PieceSize \in Nat /\ q * PieceSize \in Nat
    BY <2>1, SizeAssumption
  <2>4. PieceEnd(p) <= PieceStart(q)
    BY <2>2, <2>3, SizeAssumption DEF PieceEnd, PieceStart, MinOf
  <2>5. /\ PieceBytes(p) = PieceStart(p) .. PieceEnd(p) - 1
        /\ PieceBytes(q) = PieceStart(q) .. PieceEnd(q) - 1
        /\ PieceEnd(p) \in Nat /\ PieceStart(q) \in Nat
        /\ PieceStart(p) \in Nat /\ PieceEnd(q) \in Nat
    BY PieceBytesInFile
  <2> QED
    BY <2>4, <2>5
<1>4. \A p, q \in Pieces : p = q \/ p < q \/ q < p
  BY <1>1 DEF Pieces
<1> QED
  BY <1>2, <1>3, <1>4

(* Across the pieces too, a byte is missing, under one lease or             *)
(* acknowledged, and never two of these.                                    *)
LEMMA LedgerOfTable ==
  ASSUME Books
  PROVE  /\ TableMissing \subseteq Bytes /\ TableAcked \subseteq Bytes
         /\ \A l \in active_leases : /\ RangeBytes(l) \cap TableMissing = {}
                                     /\ RangeBytes(l) \cap TableAcked = {}
         /\ TableMissing \cap TableAcked = {}
<1>1. \A p \in Pieces : \A b : /\ b \in missing_ranges[p] => b \in PieceBytes(p)
                               /\ b \in acked[p] => b \in PieceBytes(p)
                               /\ b \in LeasedBytes(p) => b \in PieceBytes(p)
                               /\ ~(b \in missing_ranges[p] /\ b \in acked[p])
                               /\ ~(b \in missing_ranges[p] /\ b \in LeasedBytes(p))
                               /\ ~(b \in acked[p] /\ b \in LeasedBytes(p))
  BY DEF Books, IInv, BytePartition
<1>2. \A l \in active_leases : l.piece \in Pieces /\ RangeBytes(l) \subseteq LeasedBytes(l.piece)
  BY LeaseFacts DEF Books
<1>3. \A p \in Pieces : PieceBytes(p) \subseteq Bytes
  BY PieceBytesInFile
<1>4. \A p, q \in Pieces : \A b : b \in PieceBytes(p) /\ b \in PieceBytes(q) => p = q
  BY PiecesTile
<1> QED
  BY <1>1, <1>2, <1>3, <1>4, SMTT(30) DEF TableMissing, TableAcked

(* The leases gone are exchanged for new ones, over missing bytes or bytes  *)
(* of their own, and the bytes confirmed become acknowledged.               *)
Trades(gone, new, confirmed) ==
  /\ gone \subseteq TableLeases
  /\ TableLeases' = (TableLeases \ gone) \cup new
  /\ gone \cap new = {} /\ new \cap TableLeases = {}
  /\ \A l \in new : /\ l.start < l.end
                    /\ \/ l.id >= next_lease_id
                       \/ \E g \in gone : g.id = l.id /\ RangeBytes(l) \subseteq RangeBytes(g)
                    /\ l.id < next_lease_id'
  /\ \A l, m \in new : l # m => l.id # m.id /\ RangeBytes(l) \cap RangeBytes(m) = {}
  /\ confirmed \subseteq BytesUnder(gone) /\ confirmed \cap TableAcked = {}
  /\ BytesUnder(new) \subseteq (TableMissing \cup BytesUnder(gone)) \ confirmed
  /\ stopped => BytesUnder(new) \subseteq BytesUnder(gone)
  /\ TableMissing' = (TableMissing \cup BytesUnder(gone)) \ (confirmed \cup BytesUnder(new))
  /\ TableAcked' = TableAcked \cup confirmed
  /\ next_lease_id' >= next_lease_id
  /\ stopped => stopped'

(* Such an exchange is a step of the table.                                 *)
LEMMA ExchangeIsTableStep ==
  ASSUME NEW gone, NEW new, NEW confirmed, Trades(gone, new, confirmed)
  PROVE  Table!TableNext
<1> USE DEF Trades
<1>1. /\ TableLeases \ TableLeases' = gone
      /\ TableLeases' \ TableLeases = new
      /\ TableAcked' \ TableAcked = confirmed
  OBVIOUS
<1>2. /\ BytesUnder(gone) = UNION {Table!RangeBytes(l) : l \in gone}
      /\ BytesUnder(new) = UNION {Table!RangeBytes(l) : l \in new}
      /\ \A l : Table!RangeBytes(l) = RangeBytes(l)
  BY DEF BytesUnder, Table!RangeBytes, RangeBytes
<1> DEFINE G == TableLeases \ TableLeases'
           N == TableLeases' \ TableLeases
           C == TableAcked' \ TableAcked
           UG == UNION {Table!RangeBytes(l) : l \in G}
           UN == UNION {Table!RangeBytes(l) : l \in N}
<1>3. /\ G \subseteq TableLeases
      /\ \A l \in N : /\ l.start < l.end
                      /\ \/ l.id >= next_lease_id
                         \/ \E g \in G : /\ g.id = l.id
                                         /\ Table!RangeBytes(l) \subseteq Table!RangeBytes(g)
      /\ \A l, m \in N : l # m => /\ l.id # m.id
                                  /\ Table!RangeBytes(l) \cap Table!RangeBytes(m) = {}
  BY <1>1, <1>2
<1>4. UG = BytesUnder(gone) /\ UN = BytesUnder(new)
  BY <1>1, <1>2
<1> HIDE DEF UG, UN
<1>5. /\ C \subseteq UG
      /\ UN \subseteq (TableMissing \cup UG) \ C
      /\ stopped => UN \subseteq UG
      /\ TableMissing' = (TableMissing \cup UG) \ (C \cup UN)
      /\ TableAcked' = TableAcked \cup C
  BY <1>1, <1>4
<1>6. /\ TableLeases' = (TableLeases \ G) \cup N
      /\ \A l \in N : l.id < next_lease_id'
  BY <1>1
<1> USE DEF UG, UN
<1> QED
  BY <1>3, <1>5, <1>6, Zenon
     DEF Table!TableNext, Table!Exchange, Table!FreshLeases, Table!BytesOf,
         TableLeases, TableMissing, TableAcked, Strip

(* A lease of the table is known by its id, so that the view loses none.    *)
LEMMA StripFacts ==
  /\ \A l : /\ Strip(l).id = l.id /\ Strip(l).start = l.start /\ Strip(l).end = l.end
            /\ RangeBytes(Strip(l)) = RangeBytes(l)
  /\ Books => \A l, m \in active_leases : Strip(l) = Strip(m) => l = m
<1>1. \A l : /\ Strip(l).id = l.id /\ Strip(l).start = l.start /\ Strip(l).end = l.end
             /\ RangeBytes(Strip(l)) = RangeBytes(l)
  BY DEF Strip, RangeBytes
<1> QED
  BY <1>1 DEF Books, LeaseIdsUnique

(* A call ends lease l, or replaces it by the one lease of ks.              *)
Replaces(l, ks, confirmed) ==
  /\ active_leases' = (active_leases \ {l}) \cup ks
  /\ \A k, m \in ks : k = m
  /\ \A k \in ks : /\ k.start < k.end
                   /\ RangeBytes(k) \subseteq RangeBytes(l) \ confirmed
                   /\ k.id = l.id \/ k.id = next_lease_id
                   /\ k.id < next_lease_id'
                   /\ Strip(k) # Strip(l)
  /\ confirmed \subseteq RangeBytes(l)
  /\ TableMissing' = (TableMissing \cup RangeBytes(l)) \ (confirmed \cup BytesUnder(ks))
  /\ TableAcked' = TableAcked \cup confirmed
  /\ next_lease_id' >= next_lease_id
  /\ stopped => stopped'

(* Such a call is a step of the table.                                      *)
LEMMA OneLeaseIsTableStep ==
  ASSUME Books, NEW l \in active_leases, NEW ks, NEW confirmed, Replaces(l, ks, confirmed)
  PROVE  Table!TableNext
<1> USE DEF Replaces
<1> DEFINE gone == {Strip(l)}
           new == {Strip(m) : m \in ks}
<1>1. gone \in SUBSET TableLeases
  BY DEF TableLeases
<1>2. \A m \in active_leases : m.id \in Nat /\ m.id < next_lease_id
  BY DEF Books, IInv, TypeOK, Lease, LeaseIdsUnique
<1>3. next_lease_id \in Nat
  BY DEF Books, IInv, TypeOK
<1>4. \A m \in active_leases : \A k \in ks : Strip(m) # Strip(k)
  <2> SUFFICES ASSUME NEW m \in active_leases, NEW k \in ks, Strip(m) = Strip(k) PROVE FALSE
    OBVIOUS
  <2>1. m.id = k.id
    BY StripFacts
  <2>2. m.id = l.id
    BY <1>2, <1>3, <2>1
  <2>3. m = l
    BY <2>2 DEF Books, LeaseIdsUnique
  <2> QED
    BY <2>3
<1>5. gone \cap new = {} /\ new \cap TableLeases = {}
  BY <1>4 DEF TableLeases
<1>6. TableLeases' = (TableLeases \ gone) \cup new
  <2>1. TableLeases' = {Strip(m) : m \in (active_leases \ {l}) \cup ks}
    BY DEF TableLeases, Strip
  <2>2. \A m \in active_leases : Strip(m) = Strip(l) => m = l
    BY StripFacts
  <2> QED
    BY <2>1, <2>2 DEF TableLeases
<1>7. BytesUnder(gone) = RangeBytes(l) /\ BytesUnder(new) = BytesUnder(ks)
  BY StripFacts DEF BytesUnder
<1>8. BytesUnder(ks) \subseteq RangeBytes(l) \ confirmed
  BY DEF BytesUnder
<1>9. \A m \in new : /\ m.start < m.end
                     /\ \/ m.id >= next_lease_id
                        \/ \E g \in gone : g.id = m.id /\ RangeBytes(m) \subseteq RangeBytes(g)
                     /\ m.id < next_lease_id'
  BY <1>3, StripFacts
<1>10. \A m, n \in new : m = n
  OBVIOUS
<1>11. confirmed \cap TableAcked = {}
  BY LedgerOfTable
<1> HIDE DEF gone, new
<1>12. Trades(gone, new, confirmed)
  BY <1>1, <1>5, <1>6, <1>7, <1>8, <1>9, <1>10, <1>11 DEF Trades
<1> QED
  BY <1>12, ExchangeIsTableStep

(* What one piece gains, the whole table gains.                             *)
LEMMA UnionOfOne ==
  ASSUME NEW f \in [Pieces -> SUBSET Bytes], NEW p \in Pieces, NEW more
  PROVE  UNION {[f EXCEPT ![p] = @ \cup more][q] : q \in Pieces}
           = (UNION {f[q] : q \in Pieces}) \cup more
<1> DEFINE g == [f EXCEPT ![p] = @ \cup more]
<1>1. g[p] = f[p] \cup more /\ \A q \in Pieces : q # p => g[q] = f[q]
  OBVIOUS
<1> HIDE DEF g
<1>2. UNION {g[q] : q \in Pieces} = (UNION {f[q] : q \in Pieces}) \cup more
  BY <1>1
<1> QED
  BY <1>2 DEF g

(* retain_prefix ends a lease and takes the rest of it under the same id.   *)
LEMMA RetainIsTableStep ==
  ASSUME Books, NEW l \in active_leases, NEW e \in Bytes, retain_prefix(l, e)
  PROVE  Table!TableNext
<1> DEFINE k == [l EXCEPT !.start = e]
           confirmed == l.start .. e - 1
<1>1. /\ e \in Nat /\ l.start < e /\ e < l.end
      /\ active_leases' = (active_leases \ {l}) \cup {k}
      /\ acked' = [acked EXCEPT ![l.piece] = @ \cup confirmed]
      /\ UNCHANGED <<missing_ranges, next_lease_id, stopped>>
  BY SizeAssumption DEF retain_prefix, Bytes
<1>2. /\ l \in Lease /\ l.piece \in Pieces /\ l.start \in Nat /\ l.end \in Nat /\ l.id \in Nat
  BY LeaseFacts DEF Books, Lease
<1>3. k.id = l.id /\ k.start = e /\ k.end = l.end
  BY <1>2 DEF Lease
<1>4. /\ RangeBytes(k) = e .. l.end - 1 /\ RangeBytes(l) = l.start .. l.end - 1
  BY <1>3 DEF RangeBytes
<1> HIDE DEF k
<1>5. /\ confirmed \subseteq RangeBytes(l)
      /\ RangeBytes(k) \subseteq RangeBytes(l) \ confirmed
      /\ RangeBytes(l) = confirmed \cup RangeBytes(k)
  BY <1>1, <1>2, <1>4
<1>6. Strip(k) # Strip(l)
  BY <1>1, <1>2, <1>3, StripFacts
<1>7. TableAcked' = TableAcked \cup confirmed
  <2>1. acked \in [Pieces -> SUBSET Bytes]
    BY DEF Books, IInv, TypeOK
  <2> QED
    BY <1>1, <1>2, <2>1, UnionOfOne DEF TableAcked
<1>8. TableMissing' = (TableMissing \cup RangeBytes(l)) \ (confirmed \cup BytesUnder({k}))
  <2>1. TableMissing' = TableMissing
    BY <1>1 DEF TableMissing
  <2>2. BytesUnder({k}) = RangeBytes(k)
    BY DEF BytesUnder
  <2>3. RangeBytes(l) \cap TableMissing = {}
    BY LedgerOfTable
  <2> QED
    BY <1>5, <2>1, <2>2, <2>3
<1>9. k.id < next_lease_id' /\ next_lease_id' >= next_lease_id /\ k.start < k.end
  BY <1>1, <1>2, <1>3 DEF Books, LeaseIdsUnique, IInv, TypeOK
<1> HIDE DEF confirmed
<1>10. Replaces(l, {k}, confirmed)
  BY <1>1, <1>3, <1>5, <1>6, <1>7, <1>8, <1>9 DEF Replaces
<1> QED
  BY <1>10, OneLeaseIsTableStep

(* renew exchanges a lease for one over the same bytes, even when stopped.  *)
LEMMA RenewIsTableStep ==
  ASSUME Books, NEW l \in active_leases, renew(l)
  PROVE  Table!TableNext
<1> DEFINE k == [l EXCEPT !.id = next_lease_id]
<1>1. /\ active_leases' = (active_leases \ {l}) \cup {k}
      /\ next_lease_id' = next_lease_id + 1
      /\ UNCHANGED <<missing_ranges, stopped, acked>>
  BY DEF renew
<1>2. /\ l \in Lease /\ l.start < l.end /\ l.id \in Nat /\ l.id < next_lease_id
      /\ next_lease_id \in Nat
  BY LeaseFacts DEF Books, IInv, TypeOK, Lease, LeaseIdsUnique
<1>3. k.id = next_lease_id /\ k.start = l.start /\ k.end = l.end
  BY <1>2 DEF Lease
<1>4. RangeBytes(k) = RangeBytes(l)
  BY <1>3 DEF RangeBytes
<1> HIDE DEF k
<1>5. Strip(k) # Strip(l)
  BY <1>2, <1>3, StripFacts
<1>6. TableAcked' = TableAcked \cup {} /\ TableMissing' = TableMissing
  BY <1>1 DEF TableAcked, TableMissing
<1>7. TableMissing' = (TableMissing \cup RangeBytes(l)) \ ({} \cup BytesUnder({k}))
  <2>1. BytesUnder({k}) = RangeBytes(l)
    BY <1>4 DEF BytesUnder
  <2>2. RangeBytes(l) \cap TableMissing = {}
    BY LedgerOfTable
  <2> QED
    BY <1>6, <2>1, <2>2
<1>8. k.id < next_lease_id' /\ next_lease_id' >= next_lease_id /\ k.start < k.end
  BY <1>1, <1>2, <1>3
<1>9. Replaces(l, {k}, {})
  BY <1>1, <1>3, <1>4, <1>5, <1>6, <1>7, <1>8 DEF Replaces
<1> QED
  BY <1>9, OneLeaseIsTableStep

(* complete ends a lease and acknowledges all its bytes.                    *)
LEMMA CompleteIsTableStep ==
  ASSUME Books, NEW l \in active_leases, complete(l)
  PROVE  Table!TableNext
<1>1. /\ active_leases' = active_leases \ {l}
      /\ acked' = [acked EXCEPT ![l.piece] = @ \cup RangeBytes(l)]
      /\ UNCHANGED <<missing_ranges, next_lease_id, stopped>>
  BY DEF complete
<1>2. l.piece \in Pieces /\ next_lease_id \in Nat /\ acked \in [Pieces -> SUBSET Bytes]
  BY LeaseFacts DEF Books, IInv, TypeOK
<1>3. TableAcked' = TableAcked \cup RangeBytes(l)
  BY <1>1, <1>2, UnionOfOne DEF TableAcked
<1>4. TableMissing' = (TableMissing \cup RangeBytes(l)) \ (RangeBytes(l) \cup BytesUnder({}))
  <2>1. TableMissing' = TableMissing
    BY <1>1 DEF TableMissing
  <2>2. RangeBytes(l) \cap TableMissing = {}
    BY LedgerOfTable
  <2>3. BytesUnder({}) = {}
    BY DEF BytesUnder
  <2> QED
    BY <2>1, <2>2, <2>3
<1>5. active_leases' = (active_leases \ {l}) \cup {} /\ next_lease_id' >= next_lease_id
  BY <1>1, <1>2
<1>6. Replaces(l, {}, RangeBytes(l))
  BY <1>1, <1>3, <1>4, <1>5 DEF Replaces
<1> QED
  BY <1>6, OneLeaseIsTableStep

(* reclaim and stop_and_reclaim end a lease and free its bytes.             *)
LEMMA ReclaimIsTableStep ==
  ASSUME Books, NEW l \in active_leases, Reclaims(l)
  PROVE  Table!TableNext
<1>1. /\ missing_ranges' = [missing_ranges EXCEPT ![l.piece] = @ \cup RangeBytes(l)]
      /\ active_leases' = active_leases \ {l}
      /\ UNCHANGED <<next_lease_id, acked>>
      /\ stopped => stopped'
  BY DEF Reclaims, ReclaimLease
<1>2. /\ l.piece \in Pieces /\ next_lease_id \in Nat
      /\ missing_ranges \in [Pieces -> SUBSET Bytes]
  BY LeaseFacts DEF Books, IInv, TypeOK
<1>3. TableMissing' = (TableMissing \cup RangeBytes(l)) \ ({} \cup BytesUnder({}))
  <2>1. TableMissing' = TableMissing \cup RangeBytes(l)
    BY <1>1, <1>2, UnionOfOne DEF TableMissing
  <2>2. BytesUnder({}) = {}
    BY DEF BytesUnder
  <2> QED
    BY <2>1, <2>2
<1>4. TableAcked' = TableAcked \cup {}
  BY <1>1 DEF TableAcked
<1>5. active_leases' = (active_leases \ {l}) \cup {} /\ next_lease_id' >= next_lease_id
  BY <1>1, <1>2
<1>6. Replaces(l, {}, {})
  BY <1>1, <1>3, <1>4, <1>5 DEF Replaces
<1> QED
  BY <1>6, OneLeaseIsTableStep

(* A rolled back batch spends ids, and the table sees nothing else.         *)
LEMMA RollbackIsTableStep ==
  ASSUME Books, NEW r \in Ranges, RecoveryBatchRollback(r)
  PROVE  Table!TableNext
<1> DEFINE first == PieceOf(r.start)
           last == PieceOf(r.end - 1)
<1>1. PICK bad \in first .. last : next_lease_id' = next_lease_id + (bad - first)
  BY DEF RecoveryBatchRollback
<1>2. UNCHANGED <<missing_ranges, active_leases, stopped, acked>>
  BY DEF RecoveryBatchRollback
<1>3. first \in Int /\ last \in Int
  BY SizeAssumption DEF PieceOf, Ranges, Bytes
<1> HIDE DEF first, last
<1>4. next_lease_id' >= next_lease_id
  BY <1>1, <1>3 DEF Books, IInv, TypeOK
<1>5. /\ TableLeases' = (TableLeases \ {}) \cup {}
      /\ TableMissing' = TableMissing
      /\ TableAcked' = TableAcked \cup {}
  BY <1>2 DEF TableLeases, TableMissing, TableAcked, Strip
<1>6. BytesUnder({}) = {}
  BY DEF BytesUnder
<1>7. TableMissing' = (TableMissing \cup BytesUnder({})) \ ({} \cup BytesUnder({}))
  BY <1>5, <1>6
<1>8. Trades({}, {}, {})
  BY <1>2, <1>4, <1>5, <1>6, <1>7 DEF Trades
<1> QED
  BY <1>8, ExchangeIsTableStep

(* An assignment takes new leases over missing bytes of different pieces.   *)
LEMMA IssueIsTableStep ==
  ASSUME Books, NEW first, NEW last, NEW grant, issue_lease(first, last, grant)
  PROVE  Table!TableNext
<1> DEFINE ps == first .. last
           New(p) == [id |-> next_lease_id + (p - first), piece |-> p,
                      start |-> grant[p].start, end |-> grant[p].end]
           new == {Strip(New(p)) : p \in ps}
<1>1. /\ first \in Nat /\ last \in Nat /\ first <= last
      /\ ps \subseteq Pieces
  BY PieceCountPositive DEF issue_lease, Issuable, Pieces
<1>2. \A p \in ps : /\ RangeBytes(grant[p]) \subseteq missing_ranges[p]
                    /\ grant[p].start \in Nat /\ grant[p].end \in Nat
                    /\ grant[p].start < grant[p].end
  BY SizeAssumption DEF issue_lease, Issuable, IsMissing, Ranges, Bytes
<1>3. /\ active_leases' = active_leases \cup {New(p) : p \in ps}
      /\ missing_ranges' = [p \in Pieces |-> IF p \in ps
                              THEN missing_ranges[p] \ RangeBytes(grant[p])
                              ELSE missing_ranges[p]]
      /\ next_lease_id' = next_lease_id + (last - first + 1)
      /\ ~stopped
      /\ UNCHANGED <<stopped, acked>>
  BY DEF issue_lease, Issuable
<1>4. next_lease_id \in Nat
  BY DEF Books, IInv, TypeOK
<1>5. \A p \in ps : /\ Strip(New(p)).id = next_lease_id + (p - first)
                    /\ Strip(New(p)).start = grant[p].start
                    /\ Strip(New(p)).end = grant[p].end
                    /\ RangeBytes(Strip(New(p))) = RangeBytes(grant[p])
  BY DEF Strip, RangeBytes
<1>6. \A m \in active_leases : m.id \in Nat /\ m.id < next_lease_id
  BY DEF Books, IInv, TypeOK, Lease, LeaseIdsUnique
<1> HIDE DEF New
<1>7. TableLeases' = TableLeases \cup new
  <2>1. TableLeases' = {Strip(l) : l \in active_leases \cup {New(p) : p \in ps}}
    BY <1>3 DEF TableLeases, Strip
  <2> QED
    BY <2>1 DEF TableLeases
<1>8. new \cap TableLeases = {}
  <2>1. \A p \in ps : Strip(New(p)).id >= next_lease_id /\ Strip(New(p)).id \in Nat
    BY <1>1, <1>4, <1>5
  <2>2. \A l \in TableLeases : l.id \in Nat /\ l.id < next_lease_id
    BY <1>6, StripFacts DEF TableLeases
  <2> QED
    BY <1>4, <2>1, <2>2
<1>9. \A l \in new : l.start < l.end /\ l.id >= next_lease_id /\ l.id < next_lease_id'
  BY <1>1, <1>2, <1>3, <1>4, <1>5
<1>10. \A l, m \in new : l # m => l.id # m.id /\ RangeBytes(l) \cap RangeBytes(m) = {}
  <2> SUFFICES ASSUME NEW p \in ps, NEW q \in ps, p # q
               PROVE  /\ Strip(New(p)).id # Strip(New(q)).id
                      /\ RangeBytes(Strip(New(p))) \cap RangeBytes(Strip(New(q))) = {}
    BY ZenonT(30)
  <2>1. Strip(New(p)).id # Strip(New(q)).id
    BY <1>1, <1>4, <1>5
  <2>2. missing_ranges[p] \subseteq PieceBytes(p) /\ missing_ranges[q] \subseteq PieceBytes(q)
    BY <1>1 DEF Books, IInv, BytePartition
  <2>3. p \in Pieces /\ q \in Pieces
    BY <1>1
  <2>4. PieceBytes(p) \cap PieceBytes(q) = {}
    BY <2>3, PiecesTile
  <2> QED
    BY <1>2, <1>5, <2>1, <2>2, <2>4
<1>11. \A b : b \in BytesUnder(new) <=> \E p \in ps : b \in RangeBytes(grant[p])
  BY <1>5 DEF BytesUnder
<1> HIDE DEF new
<1>12. BytesUnder(new) \subseteq TableMissing
  BY <1>1, <1>2, <1>11 DEF TableMissing
<1>13. TableMissing' = TableMissing \ BytesUnder(new)
  <2>1. \A p \in Pieces : \A b : b \in missing_ranges'[p] <=>
          b \in missing_ranges[p] /\ ~(p \in ps /\ b \in RangeBytes(grant[p]))
    BY <1>3
  <2>2. \A p, q \in Pieces : \A b : b \in missing_ranges[p] /\ b \in missing_ranges[q] => p = q
    BY PiecesTile DEF Books, IInv, BytePartition
  <2>3. \A b : b \in TableMissing' <=> \E p \in Pieces : b \in missing_ranges'[p]
    BY DEF TableMissing
  <2>4. \A b : b \in TableMissing <=> \E p \in Pieces : b \in missing_ranges[p]
    BY DEF TableMissing
  <2>5. ASSUME NEW b \in TableMissing' PROVE b \in TableMissing \ BytesUnder(new)
    <3>1. PICK p \in Pieces : b \in missing_ranges'[p]
      BY <2>3, <2>5
    <3>2. b \in missing_ranges[p] /\ ~(p \in ps /\ b \in RangeBytes(grant[p]))
      BY <2>1, <3>1
    <3>3. \A q \in ps : b \in RangeBytes(grant[q]) => q = p
      BY <1>1, <1>2, <2>2, <3>2
    <3> QED
      BY <1>11, <2>4, <3>2, <3>3
  <2>6. ASSUME NEW b \in TableMissing \ BytesUnder(new) PROVE b \in TableMissing'
    BY <1>11, <2>1, <2>3, <2>4, <2>6
  <2> QED
    BY <2>5, <2>6
<1>14. TableAcked' = TableAcked
  BY <1>3 DEF TableAcked
<1>15. BytesUnder({}) = {}
  BY DEF BytesUnder
<1>16. next_lease_id' >= next_lease_id
  BY <1>1, <1>3, <1>4
<1>17. Trades({}, new, {})
  BY <1>3, <1>7, <1>8, <1>9, <1>10, <1>12, <1>13, <1>14, <1>15, <1>16 DEF Trades
<1> QED
  BY <1>17, ExchangeIsTableStep

-----------------------------------------------------------------------------
(* A fresh or restored scheduler is a fresh table over the bytes of the     *)
(* complete pieces.                                                         *)
LEMMA InitIsTable == Init => Table!AnyTable
<1> SUFFICES ASSUME Init PROVE Table!AnyTable
  OBVIOUS
<1>1. /\ completed \subseteq Pieces
      /\ missing_ranges = [p \in Pieces |-> IF p \in completed THEN {} ELSE PieceBytes(p)]
      /\ acked = [p \in Pieces |-> IF p \in completed THEN PieceBytes(p) ELSE {}]
      /\ TableLeases = {}
      /\ next_lease_id = 1
      /\ stopped = FALSE
  BY DEF Init, TableLeases
<1>2. TableAcked = UNION {PieceBytes(p) : p \in completed}
  BY <1>1 DEF TableAcked
<1>3. TableMissing = Bytes \ TableAcked
  <2>1. \A b : b \in TableMissing <=> \E p \in Pieces \ completed : b \in PieceBytes(p)
    BY <1>1 DEF TableMissing
  <2>2. \A b : b \in TableAcked <=> \E p \in completed : b \in PieceBytes(p)
    BY <1>2
  <2>3. \A p \in Pieces : PieceBytes(p) \subseteq Bytes
    BY PieceBytesInFile
  <2>4. \A p, q \in Pieces : \A b : b \in PieceBytes(p) /\ b \in PieceBytes(q) => p = q
    BY PiecesTile
  <2>5. ASSUME NEW b \in TableMissing PROVE b \in Bytes \ TableAcked
    <3>1. PICK p \in Pieces \ completed : b \in PieceBytes(p)
      BY <2>1, <2>5
    <3>2. b \notin TableAcked
      BY <1>1, <2>2, <2>4, <3>1
    <3> QED
      BY <2>3, <3>1, <3>2
  <2>6. ASSUME NEW b \in Bytes \ TableAcked PROVE b \in TableMissing
    BY <2>1, <2>2, <2>6, PiecesTile
  <2> QED
    BY <2>5, <2>6
<1>4. /\ Table!Bytes = Bytes /\ Table!Pieces = Pieces
      /\ \A p : Table!PieceBytes(p) = PieceBytes(p)
  BY DEF Table!Bytes, Bytes, Table!Pieces, Pieces, Table!piece_count, piece_count,
         Table!div_ceil, div_ceil, Table!PieceBytes, PieceBytes, Table!RangeBytes, RangeBytes,
         Table!piece_range, piece_range, Table!PieceStart, PieceStart, Table!PieceEnd, PieceEnd,
         Table!MinOf, MinOf
<1>5. TableAcked = UNION {Table!PieceBytes(p) : p \in completed}
  BY <1>2, <1>4
<1>6. Table!TableInit(completed)
  BY <1>1, <1>3, <1>4, <1>5 DEF Table!TableInit, TableAcked, TableMissing, TableLeases, Strip
<1> QED
  BY <1>1, <1>4, <1>6 DEF Table!AnyTable

(* Every call on the scheduler is a step of the lease table or leaves it    *)
(* as it is.                                                                *)
LEMMA NextIsTableStep ==
  ASSUME Books, [Next]_vars
  PROVE  [Table!TableNext]_(Table!tableVars)
<1>1. CASE Issues
  BY <1>1, IssueIsTableStep DEF Issues
<1>2. CASE \E r \in Ranges : RecoveryBatchRollback(r)
  BY <1>2, RollbackIsTableStep
<1>3. ASSUME NEW l \in active_leases,
             \/ \E e \in Bytes : retain_prefix(l, e)
             \/ renew(l) \/ complete(l) \/ Reclaims(l)
      PROVE  Table!TableNext
  BY <1>3, RetainIsTableStep, RenewIsTableStep, CompleteIsTableStep, ReclaimIsTableStep
<1>4. CASE UNCHANGED vars
  BY <1>4 DEF vars, Table!tableVars
<1> QED
  BY <1>1, <1>2, <1>3, <1>4, StepKinds

(* The scheduler implements the lease table for every file, piece size,     *)
(* mode and limit: whatever summaries, candidates, splits and batches it    *)
(* uses, a call only exchanges leases, over bytes nobody else holds, and    *)
(* acknowledges bytes of a lease that ends or shrinks.                      *)
THEOREM SchedulerImplementsTable == Spec => ImplementsLeaseTable
<1>1. Init => Table!AnyTable
  BY InitIsTable
<1>2. Books /\ [Next]_vars => [Table!TableNext]_(Table!tableVars)
  BY NextIsTableStep
<1> QED
  BY <1>1, <1>2, BooksInvariance, PTL DEF Spec, ImplementsLeaseTable, Table!TableSpec
=============================================================================

-------------------------- MODULE SchedulerProofs ---------------------------
(***************************************************************************)
(* Proofs about the lease scheduler, for every file size, piece size,      *)
(* scheduling mode and limit.                                              *)
(***************************************************************************)
EXTENDS Scheduler, FiniteSetTheorems, WellFoundedInduction, TLAPS

-----------------------------------------------------------------------------
(* A non-empty set of naturals has a least element, which Min returns.      *)
LEMMA MinIsLeast ==
  ASSUME NEW S \in SUBSET Nat, S # {}
  PROVE  Min(S) \in S /\ \A y \in S : Min(S) <= y
<1> DEFINE R == OpToRel(<, Nat)
<1>1. IsWellFoundedOn(R, Nat)
  BY NatLessThanWellFounded
<1>2. \A x, y \in Nat : x < y => <<x, y>> \in R
  BY DEF OpToRel
<1> HIDE DEF R
<1>3. PICK x \in S : \A y \in S : ~ (<<y, x>> \in R)
  BY <1>1, WFMin, ZenonT(30)
<1>4. \A y \in S : x <= y
  <2> TAKE y \in S
  <2>1. ~ (y < x)
    BY <1>2, <1>3, ZenonT(30)
  <2> QED
    BY <2>1
<1> QED
  BY <1>4, ZenonT(30) DEF Min

-----------------------------------------------------------------------------
(* Piece geometry.                                                          *)

(* A division rounded down is within one divisor of the dividend.           *)
LEMMA DivisionBounds ==
  ASSUME NEW a \in Nat, NEW b \in Nat \ {0}
  PROVE  /\ a \div b \in Nat
         /\ b * (a \div b) <= a
         /\ a < b * (a \div b) + b
  OBVIOUS

(* A file of at least one byte has at least one piece.                      *)
LEMMA PieceCountPositive == piece_count \in Nat \ {0}
<1>1. TotalSize + PieceSize - 1 \in Nat
  BY SizeAssumption
<1>2. /\ piece_count \in Nat
      /\ PieceSize * piece_count <= TotalSize + PieceSize - 1
      /\ TotalSize + PieceSize - 1 < PieceSize * piece_count + PieceSize
  BY <1>1, DivisionBounds, SizeAssumption DEF piece_count, div_ceil
<1>3. piece_count # 0
  BY <1>2, SizeAssumption
<1> QED
  BY <1>2, <1>3

(* Every piece lies in the file and has at least one byte.                  *)
LEMMA PieceBytesInFile ==
  ASSUME NEW p \in Pieces
  PROVE  /\ PieceStart(p) \in Nat
         /\ PieceEnd(p) \in Nat
         /\ PieceBytes(p) = PieceStart(p) .. PieceEnd(p) - 1
         /\ PieceStart(p) < PieceEnd(p)
         /\ PieceEnd(p) <= TotalSize
         /\ PieceBytes(p) \subseteq Bytes
         /\ PieceBytes(p) # {}
<1>1. /\ p \in Nat
      /\ p <= piece_count - 1
  BY PieceCountPositive DEF Pieces
<1>2. PieceSize * piece_count <= TotalSize + PieceSize - 1
  BY DivisionBounds, SizeAssumption DEF piece_count, div_ceil
<1>3. p * PieceSize \in Nat /\ (p + 1) * PieceSize \in Nat
  BY <1>1, SizeAssumption
<1>4. (p + 1) * PieceSize <= PieceSize * piece_count
  BY <1>1, PieceCountPositive, SizeAssumption
<1>5. (p + 1) * PieceSize = p * PieceSize + PieceSize
  BY <1>1, SizeAssumption
<1>6. /\ PieceStart(p) \in Nat
      /\ PieceEnd(p) \in Nat
      /\ PieceStart(p) < PieceEnd(p)
      /\ PieceEnd(p) <= TotalSize
  BY <1>2, <1>3, <1>4, <1>5, PieceCountPositive, SizeAssumption
     DEF PieceStart, PieceEnd, MinOf
<1>7. PieceBytes(p) = PieceStart(p) .. PieceEnd(p) - 1
  BY DEF PieceBytes, RangeBytes, piece_range
<1>8. PieceBytes(p) \subseteq Bytes
  BY <1>6, <1>7, SizeAssumption DEF Bytes
<1>9. PieceStart(p) \in PieceBytes(p)
  BY <1>6, <1>7
<1> QED
  BY <1>6, <1>7, <1>8, <1>9

(* The wrap-around of next_candidate stays within the pieces.               *)
LEMMA CandidateWraps ==
  ASSUME NEW n \in Nat
  PROVE  n % piece_count \in Pieces
  BY PieceCountPositive DEF Pieces

(* There are finitely many pieces, so any of them can be counted.           *)
LEMMA PiecesAreFinite ==
  /\ IsFiniteSet(Pieces)
  /\ \A S \in SUBSET Pieces : IsFiniteSet(S) /\ Cardinality(S) \in Nat
<1>1. IsFiniteSet(Pieces)
  BY PieceCountPositive, FS_Interval DEF Pieces
<1> QED
  BY <1>1, FS_Subset, FS_CardinalityType

(* The number of ranges of some pieces is a natural number.                 *)
LEMMA RangeCountType ==
  ASSUME NEW ps \in SUBSET Pieces, NEW missing
  PROVE  RangeCount(ps, missing) \in Nat
<1> DEFINE S == {x \in ps \X Bytes : x[2] \in RangeStarts(missing[x[1]])}
<1>1. IsFiniteSet(Bytes)
  BY SizeAssumption, FS_Interval DEF Bytes
<1>2. IsFiniteSet(ps \X Bytes)
  BY <1>1, PiecesAreFinite, FS_Product, ZenonT(30)
<1>3. S \in SUBSET (ps \X Bytes)
  OBVIOUS
<1>4. IsFiniteSet(S)
  BY <1>2, <1>3, FS_Subset
<1> QED
  BY <1>4, FS_CardinalityType DEF RangeCount

-----------------------------------------------------------------------------
(* The inductive invariant: types (a lease is never empty), the partition   *)
(* of every piece and the meaning of a completion bit.                      *)
IInv == TypeOK /\ BytePartition /\ CompleteIffAcked

(* The bytes under lease, one byte at a time.                               *)
LEMMA LeasedBytesMember ==
  ASSUME NEW p, NEW b
  PROVE  b \in LeasedBytes(p) <=>
           \E l \in active_leases : l.piece = p /\ b \in RangeBytes(l)
  BY DEF LeasedBytes, LeasesOf

(* The same after a step.                                                   *)
LEMMA LeasedBytesMemberPrime ==
  ASSUME NEW p, NEW b
  PROVE  b \in LeasedBytes(p)' <=>
           \E l \in active_leases' : l.piece = p /\ b \in RangeBytes(l)
  BY DEF LeasedBytes, LeasesOf

(* SchedulerState::new and from_piece_map start with no lease and with the  *)
(* pieces that are not complete missing.                                    *)
LEMMA InitIInv == Init => IInv
<1> SUFFICES ASSUME Init PROVE IInv
  OBVIOUS
<1>1. \A p \in Pieces : PieceBytes(p) \subseteq Bytes /\ PieceBytes(p) # {}
  BY PieceBytesInFile
<1>2. \A p \in Pieces : LeasedBytes(p) = {} /\ LeasesOf(p) = {}
  BY DEF Init, LeasedBytes, LeasesOf
<1>3. next_candidate \in Pieces
  <2>1. CASE completed = Pieces
    BY <2>1, PieceCountPositive DEF Init, FirstMissing, Pieces
  <2>2. CASE completed # Pieces
    <3>1. Pieces \subseteq Nat
      BY PieceCountPositive DEF Pieces
    <3>2. Pieces \ completed # {}
      BY <2>2 DEF Init
    <3> QED
      BY <2>2, <3>1, <3>2, MinIsLeast DEF Init, FirstMissing
  <2> QED
    BY <2>1, <2>2
<1>4. Cardinality(Pieces \ completed) \in Nat
  BY PiecesAreFinite
<1>5. TypeOK
  <2>1. missing_ranges \in [Pieces -> SUBSET Bytes] /\ acked \in [Pieces -> SUBSET Bytes]
    BY <1>1 DEF Init
  <2>2. /\ completed \subseteq Pieces /\ pieces \subseteq Pieces
        /\ has_completed_ranges \subseteq Pieces /\ available_pieces \subseteq Pieces
        /\ active_leases \subseteq Lease
    BY DEF Init
  <2>3. /\ active_lease_count \in Int /\ available_range_count \in Int
        /\ next_lease_id \in Nat
    BY <1>4 DEF Init
  <2>4. stopped \in BOOLEAN
    BY ZenonT(30) DEF Init
  <2> QED
    BY <1>3, <2>1, <2>2, <2>3, <2>4 DEF TypeOK
<1>6. BytePartition
  BY <1>2 DEF Init, BytePartition
<1>7. CompleteIffAcked
  BY <1>1 DEF Init, CompleteIffAcked
<1> QED
  BY <1>5, <1>6, <1>7 DEF IInv

-----------------------------------------------------------------------------
(* One lemma per way the scheduler changes its ranges.                      *)

(* Handing out ranges: they leave the missing bytes of their pieces and are *)
(* under one new lease each.                                                *)
LEMMA IssueKeepsIInv ==
  ASSUME IInv, NEW first, NEW last, NEW grant,
         issue_lease(first, last, grant), next_candidate' \in Pieces
  PROVE  IInv'
<1> DEFINE ps == first .. last
           New(p) == [id |-> next_lease_id + (p - first), piece |-> p,
                      start |-> grant[p].start, end |-> grant[p].end]
<1> USE DEF IInv
<1>1. /\ first \in Nat /\ last \in Nat /\ first <= last
      /\ ps \subseteq Pieces
  BY PieceCountPositive DEF issue_lease, Issuable, Pieces
<1>2. \A p \in ps : /\ RangeBytes(grant[p]) \subseteq missing_ranges[p]
                    /\ grant[p].start \in Nat /\ grant[p].end \in Nat
                    /\ grant[p].start < grant[p].end
  BY SizeAssumption DEF issue_lease, Issuable, IsMissing, Ranges, Bytes
<1>3. \A p \in ps : /\ New(p) \in Lease
                    /\ New(p).piece = p
                    /\ RangeBytes(New(p)) = RangeBytes(grant[p])
  BY <1>1, <1>2 DEF Lease, RangeBytes, TypeOK
<1>4. /\ active_leases' = active_leases \cup {New(p) : p \in ps}
      /\ missing_ranges' = [p \in Pieces |-> IF p \in ps
                              THEN missing_ranges[p] \ RangeBytes(grant[p])
                              ELSE missing_ranges[p]]
      /\ UNCHANGED <<completed, acked, stopped, has_completed_ranges>>
  BY DEF issue_lease
<1> HIDE DEF New
<1>5. TypeOK'
  <2>1. missing_ranges' \in [Pieces -> SUBSET Bytes]
    BY <1>4 DEF TypeOK
  <2>2. active_leases' \subseteq Lease
    BY <1>3, <1>4 DEF TypeOK
  <2>3. pieces' \subseteq Pieces /\ available_pieces' \subseteq Pieces
    BY <1>1 DEF issue_lease, TypeOK
  <2>4. active_lease_count' \in Int /\ next_lease_id' \in Nat
    BY <1>1 DEF issue_lease, TypeOK
  <2>5. available_range_count' \in Int
    BY <1>1, RangeCountType DEF issue_lease, TypeOK
  <2> QED
    BY <1>4, <2>1, <2>2, <2>3, <2>4, <2>5 DEF TypeOK
<1>6. \A p \in Pieces : \A b : b \in LeasedBytes(p)' <=>
        b \in LeasedBytes(p) \/ (p \in ps /\ b \in RangeBytes(grant[p]))
  BY <1>3, <1>4, LeasedBytesMember, LeasedBytesMemberPrime
<1>7. BytePartition'
  <2> SUFFICES ASSUME NEW p \in Pieces
               PROVE  /\ PieceBytes(p) = missing_ranges'[p] \cup LeasedBytes(p)' \cup acked'[p]
                      /\ missing_ranges'[p] \cap LeasedBytes(p)' = {}
                      /\ missing_ranges'[p] \cap acked'[p] = {}
                      /\ LeasedBytes(p)' \cap acked'[p] = {}
                      /\ \A l, m \in LeasesOf(p)' : l # m => RangeBytes(l) \cap RangeBytes(m) = {}
    BY DEF BytePartition
  <2>1. /\ PieceBytes(p) = missing_ranges[p] \cup LeasedBytes(p) \cup acked[p]
        /\ missing_ranges[p] \cap LeasedBytes(p) = {}
        /\ missing_ranges[p] \cap acked[p] = {}
        /\ LeasedBytes(p) \cap acked[p] = {}
        /\ \A l, m \in LeasesOf(p) : l # m => RangeBytes(l) \cap RangeBytes(m) = {}
    BY DEF BytePartition
  <2>2. \A b : b \in missing_ranges'[p] <=>
          b \in missing_ranges[p] /\ ~(p \in ps /\ b \in RangeBytes(grant[p]))
    BY <1>4
  <2>3. \A b : (p \in ps /\ b \in RangeBytes(grant[p])) => b \in missing_ranges[p]
    BY <1>2
  <2>4. \A l \in LeasesOf(p)' : l \in LeasesOf(p) \/ (p \in ps /\ l = New(p))
    BY <1>3, <1>4 DEF LeasesOf
  <2>5. \A l \in LeasesOf(p) : RangeBytes(l) \subseteq LeasedBytes(p)
    BY DEF LeasedBytes
  <2>6. \A l, m \in LeasesOf(p)' : l # m => RangeBytes(l) \cap RangeBytes(m) = {}
    BY <1>3, <2>1, <2>3, <2>4, <2>5
  <2> QED
    BY <1>4, <1>6, <2>1, <2>2, <2>3, <2>6
<1>8. CompleteIffAcked'
  BY <1>4 DEF CompleteIffAcked
<1> QED
  BY <1>5, <1>7, <1>8

(* The bytes of one lease and the bytes of the others on its piece.         *)
LEMMA LeaseFacts ==
  ASSUME IInv, NEW l \in active_leases
  PROVE  /\ l \in Lease /\ l.piece \in Pieces
         /\ l.id \in Nat /\ l.start \in Nat /\ l.end \in Nat /\ l.start < l.end
         /\ RangeBytes(l) = l.start .. l.end - 1
         /\ RangeBytes(l) # {}
         /\ RangeBytes(l) \subseteq LeasedBytes(l.piece)
         /\ RangeBytes(l) \subseteq Bytes
         /\ \A m \in active_leases : m # l /\ m.piece = l.piece
              => RangeBytes(m) \cap RangeBytes(l) = {}
<1> USE DEF IInv
<1>1. /\ l \in Lease /\ l.piece \in Pieces
      /\ l.id \in Nat /\ l.start \in Nat /\ l.end \in Nat /\ l.start < l.end
  BY DEF TypeOK, Lease
<1>2. RangeBytes(l) = l.start .. l.end - 1
  BY DEF RangeBytes
<1>3. l.start \in RangeBytes(l)
  BY <1>1, <1>2
<1>4. RangeBytes(l) \subseteq LeasedBytes(l.piece)
  BY DEF LeasedBytes, LeasesOf
<1>5. LeasedBytes(l.piece) \subseteq PieceBytes(l.piece)
  BY <1>1 DEF BytePartition
<1>6. PieceBytes(l.piece) \subseteq Bytes
  BY <1>1, PieceBytesInFile
<1>7. \A m \in active_leases : m # l /\ m.piece = l.piece
              => RangeBytes(m) \cap RangeBytes(l) = {}
  BY <1>1 DEF BytePartition, LeasesOf
<1> QED
  BY <1>1, <1>2, <1>3, <1>4, <1>5, <1>6, <1>7

(* A confirmed prefix moves from under its lease to the acknowledged bytes. *)
LEMMA RetainKeepsIInv ==
  ASSUME IInv, NEW l \in active_leases, NEW e \in Bytes, retain_prefix(l, e)
  PROVE  IInv'
<1> DEFINE k == [l EXCEPT !.start = e]
           kept == l.start .. e - 1
<1> USE DEF IInv
<1>1. /\ e \in Nat /\ l.start < e /\ e < l.end
      /\ active_leases' = (active_leases \ {l}) \cup {k}
      /\ acked' = [acked EXCEPT ![l.piece] = @ \cup kept]
      /\ has_completed_ranges' = has_completed_ranges \cup {l.piece}
      /\ UNCHANGED <<completed, pieces, missing_ranges, available_pieces,
                     active_lease_count, available_range_count, next_candidate,
                     next_lease_id, stopped>>
  BY SizeAssumption DEF retain_prefix, Bytes
<1>2. /\ k \in Lease /\ k.piece = l.piece
      /\ RangeBytes(k) = e .. l.end - 1
  BY <1>1, LeaseFacts DEF Lease, RangeBytes
<1>3. /\ \A b : b \in RangeBytes(l) <=> b \in kept \/ b \in RangeBytes(k)
      /\ kept \cap RangeBytes(k) = {}
      /\ e \in RangeBytes(k)
  <2>1. /\ l.start \in Nat /\ l.end \in Nat
        /\ RangeBytes(l) = l.start .. l.end - 1
    BY LeaseFacts
  <2> HIDE DEF k
  <2> QED
    BY <1>1, <1>2, <2>1
<1> HIDE DEF k, kept
<1>4. TypeOK'
  <2>1. acked' \in [Pieces -> SUBSET Bytes]
    BY <1>1, <1>3, LeaseFacts DEF TypeOK
  <2>2. active_leases' \subseteq Lease /\ has_completed_ranges' \subseteq Pieces
    BY <1>1, <1>2, LeaseFacts DEF TypeOK
  <2> QED
    BY <1>1, <2>1, <2>2 DEF TypeOK
<1>5. \A p \in Pieces : \A b : b \in LeasedBytes(p)' <=>
        b \in LeasedBytes(p) /\ ~(p = l.piece /\ b \in kept)
  <2> SUFFICES ASSUME NEW p \in Pieces, NEW b
               PROVE  b \in LeasedBytes(p)' <=>
                        b \in LeasedBytes(p) /\ ~(p = l.piece /\ b \in kept)
    OBVIOUS
  <2>1. \A m \in active_leases : m # l /\ m.piece = l.piece
          => RangeBytes(m) \cap RangeBytes(l) = {}
    BY LeaseFacts
  <2>2. b \in LeasedBytes(p)' <=>
          \/ \E m \in active_leases \ {l} : m.piece = p /\ b \in RangeBytes(m)
          \/ p = l.piece /\ b \in RangeBytes(k)
    BY <1>1, <1>2, LeasedBytesMemberPrime, ZenonT(30)
  <2>3. b \in LeasedBytes(p) <=>
          \/ \E m \in active_leases \ {l} : m.piece = p /\ b \in RangeBytes(m)
          \/ p = l.piece /\ b \in RangeBytes(l)
    BY LeasedBytesMember
  <2> QED
    BY <1>3, <2>1, <2>2, <2>3
<1>6. \A p \in Pieces : \A b : b \in acked'[p] <=>
        b \in acked[p] \/ (p = l.piece /\ b \in kept)
  BY <1>1 DEF TypeOK
<1>7. BytePartition'
  <2> SUFFICES ASSUME NEW p \in Pieces
               PROVE  /\ PieceBytes(p) = missing_ranges'[p] \cup LeasedBytes(p)' \cup acked'[p]
                      /\ missing_ranges'[p] \cap LeasedBytes(p)' = {}
                      /\ missing_ranges'[p] \cap acked'[p] = {}
                      /\ LeasedBytes(p)' \cap acked'[p] = {}
                      /\ \A i, j \in LeasesOf(p)' : i # j => RangeBytes(i) \cap RangeBytes(j) = {}
    BY DEF BytePartition
  <2>1. /\ PieceBytes(p) = missing_ranges[p] \cup LeasedBytes(p) \cup acked[p]
        /\ missing_ranges[p] \cap LeasedBytes(p) = {}
        /\ missing_ranges[p] \cap acked[p] = {}
        /\ LeasedBytes(p) \cap acked[p] = {}
    BY DEF BytePartition
  <2>2. \A b : (p = l.piece /\ b \in kept) => b \in LeasedBytes(p)
    BY <1>3, LeaseFacts
  <2>3. \A i, j \in LeasesOf(p)' : i # j => RangeBytes(i) \cap RangeBytes(j) = {}
    <3>1. \A i, j \in LeasesOf(p) : i # j => RangeBytes(i) \cap RangeBytes(j) = {}
      BY DEF BytePartition
    <3>2. \A i \in LeasesOf(p)' : \/ i \in LeasesOf(p) /\ i # l
                                  \/ p = l.piece /\ i = k
      BY <1>1, <1>2 DEF LeasesOf
    <3>3. p = l.piece => l \in LeasesOf(p)
      BY DEF LeasesOf
    <3>4. RangeBytes(k) \subseteq RangeBytes(l)
      BY <1>3
    <3> QED
      BY <3>1, <3>2, <3>3, <3>4
  <2> QED
    BY <1>1, <1>5, <1>6, <2>1, <2>2, <2>3
<1>8. CompleteIffAcked'
  <2> SUFFICES ASSUME NEW p \in Pieces
               PROVE  p \in completed' <=> acked'[p] = PieceBytes(p)
    BY DEF CompleteIffAcked
  <2>1. CASE p = l.piece
    <3>1. e \in LeasedBytes(p) /\ e \in LeasedBytes(p)'
      BY <1>3, <1>5, <2>1, LeaseFacts
    <3>2. acked[p] # PieceBytes(p) /\ acked'[p] # PieceBytes(p)
      BY <1>7, <3>1 DEF BytePartition
    <3> QED
      BY <1>1, <3>2 DEF CompleteIffAcked
  <2>2. CASE p # l.piece
    BY <1>1, <2>2 DEF CompleteIffAcked, TypeOK
  <2> QED
    BY <2>1, <2>2
<1> QED
  BY <1>4, <1>7, <1>8

(* A fresh identity for a lease changes nothing else.                       *)
LEMMA RenewKeepsIInv ==
  ASSUME IInv, NEW l \in active_leases, renew(l)
  PROVE  IInv'
<1> DEFINE k == [l EXCEPT !.id = next_lease_id]
<1> USE DEF IInv
<1>1. /\ active_leases' = (active_leases \ {l}) \cup {k}
      /\ next_lease_id' = next_lease_id + 1
      /\ UNCHANGED <<completed, pieces, missing_ranges, has_completed_ranges,
                     available_pieces, active_lease_count, available_range_count,
                     next_candidate, stopped, acked>>
  BY DEF renew
<1>2. /\ k \in Lease /\ k.piece = l.piece
      /\ RangeBytes(k) = RangeBytes(l)
  BY LeaseFacts DEF Lease, RangeBytes, TypeOK
<1> HIDE DEF k
<1>3. TypeOK'
  BY <1>1, <1>2 DEF TypeOK
<1>4. ASSUME NEW p \in Pieces PROVE LeasedBytes(p)' = LeasedBytes(p)
  <2>1. ASSUME NEW b PROVE b \in LeasedBytes(p)' <=> b \in LeasedBytes(p)
    <3>1. b \in LeasedBytes(p)' <=>
            \/ \E m \in active_leases \ {l} : m.piece = p /\ b \in RangeBytes(m)
            \/ p = l.piece /\ b \in RangeBytes(k)
      BY <1>1, <1>2, LeasedBytesMemberPrime
    <3>2. b \in LeasedBytes(p) <=>
            \/ \E m \in active_leases \ {l} : m.piece = p /\ b \in RangeBytes(m)
            \/ p = l.piece /\ b \in RangeBytes(l)
      BY LeasedBytesMember
    <3> QED
      BY <1>2, <3>1, <3>2
  <2> QED
    BY <2>1, ZenonT(30)
<1>5. BytePartition'
  <2> SUFFICES ASSUME NEW p \in Pieces
               PROVE  \A i, j \in LeasesOf(p)' : i # j => RangeBytes(i) \cap RangeBytes(j) = {}
    BY <1>1, <1>4 DEF BytePartition
  <2>1. \A i, j \in LeasesOf(p) : i # j => RangeBytes(i) \cap RangeBytes(j) = {}
    BY DEF BytePartition
  <2>2. \A i \in LeasesOf(p)' : \/ i \in LeasesOf(p) /\ i # l
                                \/ p = l.piece /\ i = k
    BY <1>1, <1>2 DEF LeasesOf
  <2>3. p = l.piece => l \in LeasesOf(p)
    BY DEF LeasesOf
  <2> QED
    BY <1>2, <2>1, <2>2, <2>3
<1>6. CompleteIffAcked'
  BY <1>1 DEF CompleteIffAcked
<1> QED
  BY <1>3, <1>5, <1>6

(* Ending a lease frees exactly its bytes.                                  *)
LEMMA EndedLease ==
  ASSUME IInv, NEW l \in active_leases, active_leases' = active_leases \ {l}
  PROVE  /\ active_leases' \subseteq Lease
         /\ \A p \in Pieces : \A b : b \in LeasedBytes(p)' <=>
              b \in LeasedBytes(p) /\ ~(p = l.piece /\ b \in RangeBytes(l))
         /\ \A p \in Pieces : \A i, j \in LeasesOf(p)' :
              i # j => RangeBytes(i) \cap RangeBytes(j) = {}
<1> USE DEF IInv
<1>1. active_leases' \subseteq Lease
  BY DEF TypeOK
<1>2. ASSUME NEW p \in Pieces, NEW b
      PROVE  b \in LeasedBytes(p)' <=>
               b \in LeasedBytes(p) /\ ~(p = l.piece /\ b \in RangeBytes(l))
  <2>1. \A m \in active_leases : m # l /\ m.piece = l.piece
          => RangeBytes(m) \cap RangeBytes(l) = {}
    BY LeaseFacts
  <2>2. b \in LeasedBytes(p)' <=>
          \E m \in active_leases \ {l} : m.piece = p /\ b \in RangeBytes(m)
    BY LeasedBytesMemberPrime
  <2>3. b \in LeasedBytes(p) <=>
          \/ \E m \in active_leases \ {l} : m.piece = p /\ b \in RangeBytes(m)
          \/ p = l.piece /\ b \in RangeBytes(l)
    BY LeasedBytesMember
  <2> QED
    BY <2>1, <2>2, <2>3
<1>3. \A p \in Pieces : \A i, j \in LeasesOf(p)' :
        i # j => RangeBytes(i) \cap RangeBytes(j) = {}
  BY DEF BytePartition, LeasesOf
<1> QED
  BY <1>1, <1>2, <1>3

(* A completed lease moves its bytes to the acknowledged ones, and its      *)
(* piece is marked complete exactly when nothing else of it is outstanding. *)
LEMMA CompleteKeepsIInv ==
  ASSUME IInv, NEW l \in active_leases, complete(l)
  PROVE  IInv'
<1> DEFINE piece_complete == /\ missing_ranges[l.piece] = {}
                             /\ \A m \in active_leases \ {l} : m.piece # l.piece
<1> USE DEF IInv
<1>1. /\ active_leases' = active_leases \ {l}
      /\ active_lease_count' = active_lease_count - 1
      /\ acked' = [acked EXCEPT ![l.piece] = @ \cup RangeBytes(l)]
      /\ UNCHANGED <<missing_ranges, available_pieces, available_range_count,
                     next_candidate, next_lease_id, stopped>>
  BY DEF complete
<1>2. completed' = IF piece_complete THEN completed \cup {l.piece} ELSE completed
  BY DEF complete
<1>3. pieces' \subseteq pieces /\ has_completed_ranges' \subseteq has_completed_ranges \cup {l.piece}
  BY DEF complete
<1>4. l.piece \in Pieces /\ RangeBytes(l) \subseteq LeasedBytes(l.piece)
      /\ RangeBytes(l) \subseteq Bytes
  BY LeaseFacts
<1>5. TypeOK'
  <2>1. acked' \in [Pieces -> SUBSET Bytes]
    BY <1>1, <1>4 DEF TypeOK
  <2>2. /\ active_leases' \subseteq Lease /\ has_completed_ranges' \subseteq Pieces
        /\ pieces' \subseteq Pieces /\ completed' \subseteq Pieces
    BY <1>1, <1>2, <1>3, <1>4 DEF TypeOK
  <2> QED
    BY <1>1, <2>1, <2>2 DEF TypeOK
<1>6. \A p \in Pieces : \A b : b \in acked'[p] <=>
        b \in acked[p] \/ (p = l.piece /\ b \in RangeBytes(l))
  BY <1>1 DEF TypeOK
<1>7. /\ \A p \in Pieces : \A b : b \in LeasedBytes(p)' <=>
           b \in LeasedBytes(p) /\ ~(p = l.piece /\ b \in RangeBytes(l))
      /\ \A p \in Pieces : \A i, j \in LeasesOf(p)' :
           i # j => RangeBytes(i) \cap RangeBytes(j) = {}
  BY <1>1, EndedLease
<1>8. BytePartition'
  <2> SUFFICES ASSUME NEW p \in Pieces
               PROVE  /\ PieceBytes(p) = missing_ranges'[p] \cup LeasedBytes(p)' \cup acked'[p]
                      /\ missing_ranges'[p] \cap LeasedBytes(p)' = {}
                      /\ missing_ranges'[p] \cap acked'[p] = {}
                      /\ LeasedBytes(p)' \cap acked'[p] = {}
                      /\ \A i, j \in LeasesOf(p)' : i # j => RangeBytes(i) \cap RangeBytes(j) = {}
    BY DEF BytePartition
  <2>1. /\ PieceBytes(p) = missing_ranges[p] \cup LeasedBytes(p) \cup acked[p]
        /\ missing_ranges[p] \cap LeasedBytes(p) = {}
        /\ missing_ranges[p] \cap acked[p] = {}
        /\ LeasedBytes(p) \cap acked[p] = {}
    BY DEF BytePartition
  <2> QED
    BY <1>1, <1>4, <1>6, <1>7, <2>1, SMTT(30)
<1>9. CompleteIffAcked'
  <2> SUFFICES ASSUME NEW p \in Pieces
               PROVE  p \in completed' <=> acked'[p] = PieceBytes(p)
    BY DEF CompleteIffAcked
  <2>1. CASE p # l.piece
    BY <1>1, <1>2, <2>1 DEF CompleteIffAcked, TypeOK
  <2>2. CASE p = l.piece /\ piece_complete
    <3>1. missing_ranges'[p] = {} /\ LeasedBytes(p)' = {}
      BY <1>1, <2>2, LeasedBytesMemberPrime
    <3>2. acked'[p] = PieceBytes(p)
      BY <1>8, <3>1, ZenonT(30) DEF BytePartition
    <3> QED
      BY <1>2, <2>2, <3>2
  <2>3. CASE p = l.piece /\ ~piece_complete
    <3>1. acked[p] # PieceBytes(p)
      BY <1>4, <2>3, LeaseFacts DEF BytePartition
    <3>2. PICK b : b \in missing_ranges[p] \/
                   \E m \in active_leases \ {l} : m.piece = p /\ b \in RangeBytes(m)
      BY <2>3, LeaseFacts, ZenonT(30)
    <3>3. b \in missing_ranges'[p] \/ b \in LeasedBytes(p)'
      BY <1>1, <3>2, LeasedBytesMemberPrime
    <3>4. acked'[p] # PieceBytes(p)
      BY <1>8, <3>3 DEF BytePartition
    <3> QED
      BY <1>2, <2>3, <3>1, <3>4 DEF CompleteIffAcked
  <2> QED
    BY <2>1, <2>2, <2>3
<1> QED
  BY <1>5, <1>8, <1>9

(* A reclaimed lease returns its bytes to the missing ones.                 *)
LEMMA ReclaimKeepsIInv ==
  ASSUME IInv, NEW l \in active_leases, ReclaimLease(l), stopped' \in BOOLEAN
  PROVE  IInv'
<1> USE DEF IInv
<1>1. /\ missing_ranges' = [missing_ranges EXCEPT ![l.piece] = @ \cup RangeBytes(l)]
      /\ active_leases' = active_leases \ {l}
      /\ active_lease_count' = active_lease_count - 1
      /\ available_pieces' = available_pieces \cup {l.piece}
      /\ next_candidate' = MinOf(next_candidate, l.piece)
      /\ UNCHANGED <<completed, pieces, has_completed_ranges, next_lease_id, acked>>
  BY DEF ReclaimLease
<1>2. l.piece \in Pieces /\ RangeBytes(l) \subseteq LeasedBytes(l.piece)
      /\ RangeBytes(l) \subseteq Bytes
  BY LeaseFacts
<1>3. TypeOK'
  <2>1. missing_ranges' \in [Pieces -> SUBSET Bytes]
    BY <1>1, <1>2 DEF TypeOK
  <2>2. active_leases' \subseteq Lease /\ available_pieces' \subseteq Pieces
    BY <1>1, <1>2 DEF TypeOK
  <2>3. next_candidate' \in Pieces
    BY <1>1, <1>2 DEF MinOf, TypeOK
  <2>4. available_range_count' \in Int
    BY <1>2, RangeCountType DEF ReclaimLease, TypeOK
  <2> QED
    BY <1>1, <2>1, <2>2, <2>3, <2>4 DEF TypeOK
<1>4. \A p \in Pieces : \A b : b \in missing_ranges'[p] <=>
        b \in missing_ranges[p] \/ (p = l.piece /\ b \in RangeBytes(l))
  BY <1>1 DEF TypeOK
<1>5. /\ \A p \in Pieces : \A b : b \in LeasedBytes(p)' <=>
           b \in LeasedBytes(p) /\ ~(p = l.piece /\ b \in RangeBytes(l))
      /\ \A p \in Pieces : \A i, j \in LeasesOf(p)' :
           i # j => RangeBytes(i) \cap RangeBytes(j) = {}
  BY <1>1, EndedLease, SMTT(30)
<1>6. BytePartition'
  <2> SUFFICES ASSUME NEW p \in Pieces
               PROVE  /\ PieceBytes(p) = missing_ranges'[p] \cup LeasedBytes(p)' \cup acked'[p]
                      /\ missing_ranges'[p] \cap LeasedBytes(p)' = {}
                      /\ missing_ranges'[p] \cap acked'[p] = {}
                      /\ LeasedBytes(p)' \cap acked'[p] = {}
                      /\ \A i, j \in LeasesOf(p)' : i # j => RangeBytes(i) \cap RangeBytes(j) = {}
    BY DEF BytePartition
  <2>1. /\ PieceBytes(p) = missing_ranges[p] \cup LeasedBytes(p) \cup acked[p]
        /\ missing_ranges[p] \cap LeasedBytes(p) = {}
        /\ missing_ranges[p] \cap acked[p] = {}
        /\ LeasedBytes(p) \cap acked[p] = {}
    BY DEF BytePartition
  <2> QED
    BY <1>1, <1>2, <1>4, <1>5, <2>1, SMTT(30)
<1>7. CompleteIffAcked'
  BY <1>1 DEF CompleteIffAcked
<1> QED
  BY <1>3, <1>6, <1>7

(* A rolled-back recovery batch touches no range.                           *)
LEMMA RollbackKeepsIInv ==
  ASSUME IInv, NEW r \in Ranges, RecoveryBatchRollback(r)
  PROVE  IInv'
<1> DEFINE first == PieceOf(r.start)
           last == PieceOf(r.end - 1)
<1> USE DEF IInv
<1>1. UNCHANGED <<completed, missing_ranges, active_leases, has_completed_ranges,
                  available_pieces, active_lease_count, available_range_count,
                  stopped, acked>>
  BY DEF RecoveryBatchRollback
<1>2. first \in Nat /\ last \in Nat /\ first .. last \subseteq Pieces
  <2>1. /\ r.start \in Nat /\ r.end \in Nat /\ r.start < r.end /\ r.end <= TotalSize
    BY SizeAssumption DEF Ranges, Bytes
  <2>2. first \in Nat /\ last \in Nat
    BY <2>1, DivisionBounds, SizeAssumption DEF PieceOf
  <2>3. PieceSize * last <= TotalSize - 1
    BY <2>1, DivisionBounds, SizeAssumption DEF PieceOf
  <2>4. TotalSize <= PieceSize * piece_count
    BY DivisionBounds, SizeAssumption DEF piece_count, div_ceil
  <2>5. last < piece_count
    BY <2>2, <2>3, <2>4, PieceCountPositive, SizeAssumption
  <2> QED
    BY <2>2, <2>5, PieceCountPositive DEF Pieces
<1>3. PICK bad \in first .. last :
        /\ next_lease_id' = next_lease_id + (bad - first)
        /\ pieces' = pieces \cup first .. bad
        /\ next_candidate' = IF bad = first THEN next_candidate
                                           ELSE MinOf(next_candidate, first)
  BY DEF RecoveryBatchRollback
<1> HIDE DEF first, last
<1>4. TypeOK'
  <2>1. bad \in Nat /\ first <= bad /\ bad <= last
    BY <1>2
  <2>2. first .. bad \subseteq Pieces /\ first \in Pieces
    BY <1>2, <2>1
  <2>3. pieces' \subseteq Pieces /\ next_candidate' \in Pieces
    BY <1>3, <2>2 DEF MinOf, TypeOK
  <2>4. next_lease_id' \in Nat
    BY <1>2, <1>3, <2>1, SMTT(30) DEF TypeOK
  <2> QED
    BY <1>1, <2>3, <2>4 DEF TypeOK
<1>5. BytePartition' /\ CompleteIffAcked'
  BY <1>1 DEF BytePartition, CompleteIffAcked, LeasedBytes, LeasesOf
<1> QED
  BY <1>4, <1>5

-----------------------------------------------------------------------------
(* issue_lease refuses pieces outside the file.                             *)
LEMMA IssuedPieces ==
  ASSUME NEW first, NEW last, NEW grant, issue_lease(first, last, grant)
  PROVE  first \in Nat /\ last \in Nat
<1>1. Issuable(first, last, grant)
  BY Zenon DEF issue_lease
<1>2. first \in Pieces /\ last \in Pieces
  BY <1>1, Zenon DEF Issuable
<1> QED
  BY <1>2, PieceCountPositive DEF Pieces

(* A single assignment issues one range and moves the cursor on.            *)
LEMMA AssignToKeepsIInv ==
  ASSUME IInv, assign_to
  PROVE  IInv'
<1>1. PICK p \in {CandidatePiece} :
        /\ issue_lease(p, p, [q \in {p} |-> FirstRange(missing_ranges[p])])
        /\ next_candidate' = (p + 1) % piece_count
  BY DEF assign_to
<1>2. p \in Nat
  BY <1>1, IssuedPieces
<1>3. next_candidate' \in Pieces
  BY <1>1, <1>2, CandidateWraps
<1> QED
  BY <1>1, <1>3, IssueKeepsIInv

(* Every call on the scheduler keeps the inductive invariant.               *)
LEMMA NextKeepsIInv == IInv /\ [Next]_vars => IInv'
<1> SUFFICES ASSUME IInv, [Next]_vars PROVE IInv'
  OBVIOUS
<1>1. CASE AssignForProbe
  BY <1>1, AssignToKeepsIInv DEF AssignForProbe
<1>2. ASSUME NEW occupied \in 0 .. MaxConnections - 1, assign_fixed_request(occupied)
      PROVE  IInv'
  <2>1. PICK p, r, last :
          /\ issue_lease(p, last, [Whole EXCEPT ![p] = r])
          /\ next_candidate' = (last + 1) % piece_count
    BY <1>2, ZenonT(30) DEF assign_fixed_request
  <2>2. last \in Nat
    BY <2>1, IssuedPieces
  <2>3. next_candidate' \in Pieces
    BY <2>1, <2>2, CandidateWraps
  <2> QED
    BY <2>1, <2>3, IssueKeepsIInv
<1>3. ASSUME NEW occupied \in 0 .. MaxConnections - 1, assign_dynamic_request(occupied)
      PROVE  IInv'
  <2>1. CASE assign_to
    BY <2>1, AssignToKeepsIInv
  <2>2. CASE ~assign_to
    <3>1. PICK plan : /\ issue_lease(plan.first_piece, plan.end_piece - 1, Whole)
                      /\ UNCHANGED next_candidate
      BY <1>3, <2>2 DEF assign_dynamic_request
    <3>2. next_candidate' \in Pieces
      BY <3>1 DEF IInv, TypeOK
    <3> QED
      BY <3>1, <3>2, IssueKeepsIInv
  <2> QED
    BY <2>1, <2>2
<1>4. ASSUME NEW r \in Ranges, assign_recovery_batch(r)
      PROVE  IInv'
  <2>1. next_candidate' \in Pieces
    BY <1>4 DEF assign_recovery_batch, IInv, TypeOK
  <2> QED
    BY <1>4, <2>1, IssueKeepsIInv DEF assign_recovery_batch
<1>5. ASSUME NEW r \in Ranges, RecoveryBatchRollback(r)
      PROVE  IInv'
  BY <1>5, RollbackKeepsIInv
<1>6. ASSUME NEW l \in active_leases, NEW e \in Bytes, retain_prefix(l, e)
      PROVE  IInv'
  BY <1>6, RetainKeepsIInv
<1>7. ASSUME NEW l \in active_leases, renew(l)
      PROVE  IInv'
  BY <1>7, RenewKeepsIInv
<1>8. ASSUME NEW l \in active_leases, complete(l)
      PROVE  IInv'
  BY <1>8, CompleteKeepsIInv
<1>9. ASSUME NEW l \in active_leases, reclaim(l)
      PROVE  IInv'
  <2>1. stopped' \in BOOLEAN
    BY <1>9 DEF reclaim, IInv, TypeOK
  <2> QED
    BY <1>9, <2>1, ReclaimKeepsIInv DEF reclaim
<1>10. ASSUME NEW l \in active_leases, stop_and_reclaim(l)
       PROVE  IInv'
  <2>1. stopped' \in BOOLEAN
    BY <1>10, SMTT(30) DEF stop_and_reclaim
  <2> QED
    BY <1>10, <2>1, ReclaimKeepsIInv DEF stop_and_reclaim
<1>11. CASE UNCHANGED vars
  BY <1>11 DEF vars, IInv, TypeOK, BytePartition, CompleteIffAcked, LeasedBytes, LeasesOf
<1> QED
  BY <1>1, <1>2, <1>3, <1>4, <1>5, <1>6, <1>7, <1>8, <1>9, <1>10, <1>11, SMTT(30) DEF Next

(* The inductive invariant holds throughout.                                *)
LEMMA Invariance == Spec => []IInv
  BY InitIInv, NextKeepsIInv, PTL DEF Spec

-----------------------------------------------------------------------------
(* Every variable of the scheduler keeps its type, whatever the callers do. *)
THEOREM SchedulerTypes == Spec => []TypeOK
<1>1. IInv => TypeOK
  BY ZenonT(30) DEF IInv
<1> QED
  BY <1>1, Invariance, PTL

(* Each byte of each piece is missing, or under exactly one lease, or       *)
(* acknowledged, and never two of these: no assignment, split, batch,       *)
(* recovery, retained prefix, renewal or reclaim loses or duplicates a byte.*)
THEOREM BytesPartitioned == Spec => []BytePartition
<1>1. IInv => BytePartition
  BY ZenonT(30) DEF IInv
<1> QED
  BY <1>1, Invariance, PTL

(* scheduler.complete sets a completion bit exactly when the writer has     *)
(* acknowledged every byte of the piece.                                    *)
THEOREM CompletionIsSound == Spec => []CompleteIffAcked
<1>1. IInv => CompleteIffAcked
  BY ZenonT(30) DEF IInv
<1> QED
  BY <1>1, Invariance, PTL

(* The three together, as the run on a small instance checks them.          *)
THEOREM LedgerSound == Spec => []LedgerIsSound
<1>1. TypeOK /\ BytePartition /\ CompleteIffAcked => LedgerIsSound
  BY DEF LedgerIsSound
<1> QED
  BY <1>1, SchedulerTypes, BytesPartitioned, CompletionIsSound, PTL

(* No step withdraws a completion bit or forgets an acknowledged byte.      *)
LEMMA StepsKeepProgress ==
  ASSUME IInv, [Next]_vars
  PROVE  /\ completed \subseteq completed'
         /\ \A p \in Pieces : acked[p] \subseteq acked'[p]
<1> DEFINE Kept == /\ completed \subseteq completed'
                   /\ \A p \in Pieces : acked[p] \subseteq acked'[p]
<1> USE DEF IInv
<1>1. ASSUME UNCHANGED <<completed, acked>> PROVE Kept
  BY <1>1
<1>2. ASSUME NEW l \in active_leases, NEW e \in Bytes, retain_prefix(l, e)
      PROVE  Kept
  BY <1>2 DEF retain_prefix, TypeOK
<1>3. ASSUME NEW l \in active_leases, complete(l)
      PROVE  Kept
  BY <1>3 DEF complete, TypeOK
<1>4. ASSUME NEW l \in active_leases, renew(l) \/ reclaim(l) \/ stop_and_reclaim(l)
      PROVE  Kept
  <2>1. UNCHANGED <<completed, acked>>
    BY <1>4 DEF renew, reclaim, stop_and_reclaim, ReclaimLease
  <2> QED
    BY <1>1, <2>1
<1>5. ASSUME NEW first, NEW last, NEW grant, issue_lease(first, last, grant)
      PROVE  Kept
  <2>1. UNCHANGED <<completed, acked>>
    BY <1>5 DEF issue_lease
  <2> QED
    BY <1>1, <2>1, SMTT(30)
<1>6. ASSUME AssignForProbe \/ \E occupied \in 0 .. MaxConnections - 1 :
                assign_fixed_request(occupied) \/ assign_dynamic_request(occupied)
      PROVE  Kept
  <2>1. \E first, last, grant : issue_lease(first, last, grant)
    BY <1>6, Zenon DEF AssignForProbe, assign_to, assign_fixed_request, assign_dynamic_request
  <2> QED
    BY <1>5, <2>1
<1>7. ASSUME NEW r \in Ranges, assign_recovery_batch(r) \/ RecoveryBatchRollback(r)
      PROVE  Kept
  <2>1. CASE assign_recovery_batch(r)
    BY <1>5, <2>1 DEF assign_recovery_batch
  <2>2. CASE RecoveryBatchRollback(r)
    <3>1. UNCHANGED <<completed, acked>>
      BY <2>2 DEF RecoveryBatchRollback
    <3> QED
      BY <1>1, <3>1
  <2> QED
    BY <1>7, <2>1, <2>2, SMTT(30)
<1>8. ASSUME UNCHANGED vars PROVE Kept
  BY <1>1, <1>8 DEF vars
<1> HIDE DEF Kept
<1>9. Kept
  BY <1>2, <1>3, <1>4, <1>6, <1>7, <1>8 DEF Next
<1> QED
  BY <1>9 DEF Kept

(* A completion bit is never withdrawn, an acknowledged byte is never       *)
(* forgotten and never leased again.                                        *)
THEOREM ProgressKept == Spec => ProgressIsKept
<1> DEFINE A == /\ completed \subseteq completed'
                /\ \A p \in Pieces : acked[p] \subseteq acked'[p] \ LeasedBytes(p)'
<1>1. IInv /\ IInv' /\ [Next]_vars => [A]_vars
  <2> SUFFICES ASSUME IInv, IInv', [Next]_vars PROVE A
    OBVIOUS
  <2>1. /\ completed \subseteq completed'
        /\ \A p \in Pieces : acked[p] \subseteq acked'[p]
    BY StepsKeepProgress
  <2>2. \A p \in Pieces : LeasedBytes(p)' \cap acked'[p] = {}
    BY DEF IInv, BytePartition
  <2> QED
    BY <2>1, <2>2
<1> QED
  BY <1>1, Invariance, PTL DEF Spec, ProgressIsKept
=============================================================================

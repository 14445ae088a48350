--------------------------- MODULE DynamicPlanner ---------------------------
(***************************************************************************)
(* The pure part of dynamic range scheduling (scheduler.rs): given the     *)
(* pieces nobody has touched and the number of free request slots, which   *)
(* run of pieces does the next HTTP request cover?                         *)
(*                                                                         *)
(* A candidate is a maximal run [first_piece, end_piece) of untouched      *)
(* pieces.  Candidates get virtual slots greedily, the one with the        *)
(* largest share per slot is served next, and its first share, rounded to  *)
(* a piece boundary and limited by the request caps, becomes the request.  *)
(***************************************************************************)
EXTENDS PieceMap

CONSTANT MAX_REQUEST_LEASES     \* 64 in the code

ASSUME LeaseLimitAssumption == MAX_REQUEST_LEASES \in Nat \ {0}

CandidateStart(c) == PieceStart(c.first_piece)
CandidateEnd(c) == PieceEnd(c.end_piece - 1)
CandidateLen(c) == CandidateEnd(c) - CandidateStart(c)

(* Touched pieces cut a run apart, so the runs are those of the untouched   *)
(* available pieces.                                                        *)
dynamic_candidates(untouched) ==
  {c \in [first_piece : Pieces, end_piece : 1 .. piece_count] :
     /\ c.first_piece < c.end_piece
     /\ c.first_piece .. c.end_piece - 1 \subseteq untouched
     /\ c.first_piece - 1 \notin untouched
     /\ c.end_piece \notin untouched}

(* The configured minimum, raised to a whole number of pieces.              *)
effective_dynamic_min_split_size(configured) ==
  div_ceil(MaxOf(configured, PieceSize), PieceSize) * PieceSize

(* The piece boundaries that leave at least min_split bytes on both sides.  *)
FirstLegalPiece(c, min_split) == c.first_piece + div_ceil(min_split, PieceSize)
LastLegalPiece(c, min_split) ==
  MinOf(MaxOf(CandidateEnd(c) - min_split, 0) \div PieceSize, c.end_piece - 1)

dynamic_legal_split(c, min_split) ==
  /\ c.end_piece > c.first_piece + 1
  /\ CandidateLen(c) \div min_split >= 2
  /\ FirstLegalPiece(c, min_split) <= LastLegalPiece(c, min_split)

max_dynamic_slots(c, min_split) ==
  IF dynamic_legal_split(c, min_split)
    THEN MinOf(c.end_piece - c.first_piece, CandidateLen(c) \div min_split)
    ELSE 1

(* Mutant: the lengths are compared without the slots already given.        *)
CompareLengths(left, left_slots, right, right_slots) ==
  \/ CandidateLen(left) < CandidateLen(right)
  \/ CandidateLen(left) = CandidateLen(right) /\ right.first_piece < left.first_piece

(* left has the smaller share per slot; of equal shares the one that starts *)
(* earlier in the file counts as the larger.                                *)
compare_dynamic_shares(left, left_slots, right, right_slots) ==
  LET left_share == CandidateLen(left) * right_slots
      right_share == CandidateLen(right) * left_slots
  IN \/ left_share < right_share
     \/ left_share = right_share /\ right.first_piece < left.first_piece

LargestShare(candidates, slots) ==
  CHOOSE c \in candidates :
    \A d \in candidates \ {c} : compare_dynamic_shares(d, slots[d], c, slots[c])

(* One slot each; every slot beyond that goes to the candidate whose share  *)
(* is largest among those that may still be split.                          *)
slot_counts(candidates, requested, min_split) ==
  LET Splittable(n) == {c \in candidates : n[c] < max_dynamic_slots(c, min_split)}
      extra_slots == MaxOf(requested - Cardinality(candidates), 0)
      counts[k \in 0 .. extra_slots] ==
        IF k = 0
          THEN [c \in candidates |-> 1]
          ELSE LET n == counts[k - 1]
               IN IF Splittable(n) = {}
                    THEN n
                    ELSE [n EXCEPT ![LargestShare(Splittable(n), n)] = @ + 1]
  IN counts[extra_slots]

plan_dynamic_share(candidates, requested, min_split) ==
  LET slots == slot_counts(candidates, requested, min_split)
      chosen == LargestShare(candidates, slots)
  IN [candidate |-> chosen, candidate_slots |-> slots[chosen]]

(* The boundary nearest to the first share's end, kept legal.               *)
dynamic_share_end_piece(c, slots, min_split) ==
  LET target_end == CandidateStart(c) + div_ceil(CandidateLen(c), slots)
      round_up == IF target_end % PieceSize > PieceSize \div 2 THEN 1 ELSE 0
      ideal == target_end \div PieceSize + round_up
  IN IF slots <= 1 \/ ~dynamic_legal_split(c, min_split)
       THEN c.end_piece
       ELSE MinOf(MaxOf(ideal, FirstLegalPiece(c, min_split)),
                  LastLegalPiece(c, min_split))

(* Mutant: the request is cut by the caps and not moved back to a legal     *)
(* boundary.                                                                *)
RequestEndUnaligned(c, desired_end_piece, min_split, max_request) ==
  LET byte_bound == CandidateStart(c) + MaxOf(max_request, PieceSize)
      byte_end_piece ==
        IF byte_bound >= CandidateEnd(c)
          THEN c.end_piece
          ELSE MinOf(MaxOf(byte_bound \div PieceSize, c.first_piece + 1), c.end_piece)
      lease_end_piece == c.first_piece + MAX_REQUEST_LEASES
  IN MinOf(MinOf(desired_end_piece, byte_end_piece), lease_end_piece)

(* The end piece (exclusive) of the request: the desired end, cut by the    *)
(* byte cap and the lease cap, then moved back to a legal split boundary    *)
(* when the caps leave room for one.                                        *)
dynamic_request_end(c, desired_end_piece, min_split, max_request) ==
  LET byte_bound == CandidateStart(c) + MaxOf(max_request, PieceSize)
      byte_end_piece ==
        IF byte_bound >= CandidateEnd(c)
          THEN c.end_piece
          ELSE MinOf(MaxOf(byte_bound \div PieceSize, c.first_piece + 1), c.end_piece)
      lease_end_piece == c.first_piece + MAX_REQUEST_LEASES
      raw == MinOf(MinOf(desired_end_piece, byte_end_piece), lease_end_piece)
  IN IF /\ raw < c.end_piece
        /\ dynamic_legal_split(c, min_split)
        /\ raw >= FirstLegalPiece(c, min_split)
       THEN MinOf(raw, LastLegalPiece(c, min_split))
       ELSE raw

(* The run of pieces [first_piece, end_piece) of the next dynamic request.  *)
PlannedRequest(untouched, free_slots, configured_min_split, max_request) ==
  LET min_split == effective_dynamic_min_split_size(configured_min_split)
      plan == plan_dynamic_share(dynamic_candidates(untouched), free_slots, min_split)
      c == plan.candidate
      desired == dynamic_share_end_piece(c, plan.candidate_slots, min_split)
  IN [first_piece |-> c.first_piece,
      end_piece |-> dynamic_request_end(c, desired, min_split, max_request)]
=============================================================================

------------------------------ MODULE PieceMap ------------------------------
(***************************************************************************)
(* The piece geometry of storage/piece_map.rs: a file of TotalSize bytes   *)
(* cut into pieces of PieceSize bytes, the last one possibly shorter.      *)
(* Byte ranges are half open, [start, end), as everywhere in the code.     *)
(***************************************************************************)
EXTENDS Integers, FiniteSets

CONSTANTS
  TotalSize,    \* length of the file in bytes
  PieceSize     \* PieceMap.piece_size

(* SchedulingConfig rejects a zero piece size and a multi-connection        *)
(* download is only started for a file with at least one byte.              *)
ASSUME SizeAssumption ==
  /\ TotalSize \in Nat \ {0}
  /\ PieceSize \in Nat \ {0}

div_ceil(a, b) == (a + b - 1) \div b
MinOf(a, b) == IF a <= b THEN a ELSE b
MaxOf(a, b) == IF a >= b THEN a ELSE b

piece_count == div_ceil(TotalSize, PieceSize)
Pieces == 0 .. piece_count - 1
Bytes == 0 .. TotalSize - 1

PieceStart(p) == p * PieceSize
PieceEnd(p) == MinOf((p + 1) * PieceSize, TotalSize)
piece_range(p) == [start |-> PieceStart(p), end |-> PieceEnd(p)]

(* The bytes of a half-open range.                                          *)
RangeBytes(r) == r.start .. r.end - 1
PieceBytes(p) == RangeBytes(piece_range(p))
=============================================================================

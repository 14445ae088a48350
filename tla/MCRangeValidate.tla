--------------------------- MODULE MCRangeValidate ---------------------------
(***************************************************************************)
(* Every range request a session makes for a file of at most MaxSize bytes *)
(* against every response a server may send to it.                         *)
(***************************************************************************)
EXTENDS RangeValidate

CONSTANT MaxSize

VARIABLES mode, expected, status, meta
vars == <<mode, expected, status, meta>>

Position == 0 .. MaxSize
MaybePosition == Position \cup {None}
Metas == {ResponseMeta(length, start, end, total, None, encoded) :
            length \in (1 .. MaxSize + 1) \cup {None}, start, end, total \in MaybePosition,
            encoded \in BOOLEAN}

(* probe_or_fallback_get asks for the first piece of a file of unknown      *)
(* size; the other requests lie within a file of known size.                *)
Requests ==
  {<<"FreshProbe", [start |-> 0, end_inclusive |-> e, total_size |-> None]>> : e \in Position}
    \cup
  {<<m, [start |-> s, end_inclusive |-> e, total_size |-> t]>> :
     m \in {"ResumeProbe", "Segment"}, s, e \in Position, t \in 1 .. MaxSize}

Inside(e) == e.total_size # None => e.start <= e.end_inclusive /\ e.end_inclusive < e.total_size

Pick ==
  /\ \E r \in Requests : Inside(r[2]) /\ mode' = r[1] /\ expected' = r[2]
  /\ status' \in {200, 206, 404, 429, 503}
  /\ meta' \in IF status' = 206 THEN Metas ELSE {ResponseMeta(None, None, None, None, None, FALSE)}

Init ==
  /\ mode = "FreshProbe"
  /\ expected = [start |-> 0, end_inclusive |-> 0, total_size |-> None]
  /\ status = 200
  /\ meta = ResponseMeta(None, None, None, None, None, FALSE)
Next == status = 200 /\ Pick
Spec == Init /\ [][Next]_vars

(* A range response is accepted exactly if a conforming server sends it for *)
(* the request: for the known size of the object, or for any size it        *)
(* announces when the size is not known.  A weaker check writes bytes of    *)
(* another range into the file, a stronger one refuses small files.         *)
AcceptsExactlyHonest ==
  validate_range_response(status, meta, mode, expected) = "Accept"
    <=> \E size \in IF mode = "FreshProbe" THEN 1 .. MaxSize ELSE {expected.total_size} :
          /\ status = 206
          /\ expected.start < size
          /\ \E length \in {None, Least(expected.end_inclusive, size - 1) - expected.start + 1} :
               meta = HonestRange(size, expected.start, expected.end_inclusive, None, length)
=============================================================================

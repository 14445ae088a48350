---------------------------- MODULE RangeValidate ----------------------------
(***************************************************************************)
(* What the sessions believe of a response: ResponseMeta                   *)
(* (http/response.rs), the validation of range responses                   *)
(* (session/range_validate.rs) and of object metadata (session/mod.rs,     *)
(* session/single.rs).  ETag and Last-Modified are compared in the same    *)
(* way and are one validator here.  Ranges are inclusive, as in HTTP.      *)
(***************************************************************************)
EXTENDS DownloadError

(* The headers the code reads.  A Content-Range that does not parse leaves  *)
(* its three fields absent; a total of "*" leaves only the total absent.    *)
ResponseMeta(length, start, end, total, validator, encoded) ==
  [content_length |-> length, content_range_start |-> start, content_range_end |-> end,
   content_range_total |-> total, validator |-> validator, encoded |-> encoded]

FallbackToSingle == {"RangeNotSupported", "EncodedResponse"}

range_response_allowed(meta) == ~meta.encoded

(* What the status alone decides: Accept lets the headers decide.           *)
validate_range_status(status, mode) ==
  CASE status = 206 -> "Accept"
    [] status = 200 -> IF mode = "FreshProbe" THEN "RangeNotSupported" ELSE "OtherStatus"
    [] status = 429 -> "Http429"
    [] status = 503 -> "Http503"
    [] OTHER -> "OtherStatus"

(* The size of the object, or None if the response cannot be used.          *)
resolve_response_total(meta, mode, expected_total_size) ==
  IF mode = "FreshProbe" \/ meta.content_range_total = expected_total_size
  THEN meta.content_range_total
  ELSE None

(* Mutant: the last byte of a short file is computed without the -1.        *)
resolve_expected_end_off(expected, response_total, mode) ==
  IF mode # "FreshProbe"
  THEN expected.end_inclusive
  ELSE Least(expected.end_inclusive, response_total)

(* A fresh probe may ask beyond the end of a file it does not know.         *)
resolve_expected_end(expected, response_total, mode) ==
  IF mode # "FreshProbe"
  THEN expected.end_inclusive
  ELSE IF response_total - 1 < expected.start
  THEN None
  ELSE Least(expected.end_inclusive, response_total - 1)

validate_range_response(status, meta, mode, expected) ==
  LET by_status == validate_range_status(status, mode)
      response_total == resolve_response_total(meta, mode, expected.total_size)
      expected_end == resolve_expected_end(expected, response_total, mode)
  IN CASE by_status # "Accept" -> by_status
       [] by_status = "Accept" /\ ~range_response_allowed(meta) ->
            IF mode = "FreshProbe" THEN "EncodedResponse" ELSE "ResumeMismatch"
       [] OTHER ->
            IF \/ response_total = None
               \/ expected_end = None
               \/ meta.content_range_start # expected.start
               \/ meta.content_range_end # expected_end
               \/ expected_end < expected.start
            THEN "ResumeMismatch"
            ELSE IF meta.content_length \notin {None, expected_end - expected.start + 1}
            THEN IF mode = "Segment" THEN "Body" ELSE "ResumeMismatch"
            ELSE "Accept"

-----------------------------------------------------------------------------

(* The object a response describes is the one the control file recorded.    *)
validate_metadata(meta, ctrl) ==
  /\ meta.content_range_total # None => meta.content_range_total = ctrl.total_size
  /\ ctrl.validator # None => meta.validator = ctrl.validator

(* The same for the first response of this transfer.                        *)
metadata_matches_baseline(meta, baseline, total_size) ==
  /\ baseline # None => meta.validator = baseline
  /\ meta.content_range_total # None => meta.content_range_total = total_size

range_probe_response_covers_full_file(meta) ==
  /\ meta.content_range_start = 0
  /\ meta.content_range_end # None /\ meta.content_range_total # None
  /\ meta.content_range_end + 1 = meta.content_range_total

single_response_total_size(status, meta) ==
  IF status = 206 THEN meta.content_range_total ELSE meta.content_length

-----------------------------------------------------------------------------
(* The body: chunks, in order, are the bytes of the requested range.  A     *)
(* conforming server sends this 206 response for an object of size bytes.   *)
HonestRange(size, start, end, validator, length) ==
  ResponseMeta(length, start, Least(end, size - 1), size, validator, FALSE)
=============================================================================

---------------------------- MODULE DownloadError ----------------------------
(***************************************************************************)
(* The errors of a download and their classification (error.rs).           *)
(***************************************************************************)
EXTENDS Integers

CONSTANT None         \* an absent Option

Least(a, b) == IF a <= b THEN a ELSE b

(* The variants of DownloadError that some caller tells apart: kinds of     *)
(* transport and I/O errors and HTTP statuses are variants of their own.    *)
TransportErrors == {"Connect", "Timeout", "Request", "Body"}
RetryableStatus == {"Http429", "Http500", "Http502", "Http503", "Http504"}
TransientIo == {"ConnectionReset", "ConnectionAborted", "TimedOut", "UnexpectedEof"}
StopErrors == {"Cancelled", "Paused"}
FatalErrors ==
  StopErrors \cup {"OtherTransport", "OtherIo", "OtherStatus", "ChannelClosed",
    "InvalidConfig", "ResumeMismatch", "ControlFileCorrupted", "RetryBudgetExceeded",
    "TaskFailed", "Internal", "ChecksumMismatch"}
Errors == TransportErrors \cup RetryableStatus \cup TransientIo \cup FatalErrors

is_retryable(error) == error \in TransportErrors \cup RetryableStatus \cup TransientIo

(* The hint of a Retry-After header is kept for 429 and 503 only.           *)
retry_after_secs(error, header) ==
  IF error \in {"Http429", "Http503"} THEN header ELSE None
=============================================================================

----------------------------- MODULE HeadParser -----------------------------
(***************************************************************************)
(* The response-head state machine of a transfer (struct HeadParser in     *)
(* src/network/curl/driver/mod.rs): libcurl's header callback hands it     *)
(* every line of every block, and it publishes one head.                   *)
(*                                                                         *)
(* A line is a status line, a field or the blank line; a block's size is   *)
(* its number of lines.  What libcurl reports depends on the route: a new  *)
(* proxy tunnel starts with the proxy's CONNECT answer, a tunnel that is   *)
(* reused reports nothing of the proxy.                                    *)
(***************************************************************************)
EXTENDS Naturals

CONSTANTS None,
          Routes,                  \* "direct", "tunnel", "reused"
          MAX_HEADER_BLOCK_BYTES,
          MaxLines, MaxInterim     \* bounds: lines of a block, 1xx blocks

VARIABLES route,
          sending,   \* libcurl: the block it is in, or None
          lines,     \* libcurl: lines of it so far
          interim,   \* libcurl: 1xx blocks so far
          reported,  \* libcurl: blocks completed, but for 1xx
          connect_seen, block, published,
          value,     \* what the head channel got: "pending", "error" or a block
          failed     \* ghost: a block was garbled or too large before the head

wire == <<route, sending, lines, interim, reported>>
parser == <<connect_seen, block, published, value>>
vars == <<wire, parser, failed>>

\* expects_proxy_tunnel: HTTPS through a proxy
expect_connect == route \in {"tunnel", "reused"}

\* HeadParser::new
Init == /\ route \in Routes /\ sending = None /\ lines = 0 /\ interim = 0 /\ reported = {}
        /\ connect_seen = FALSE /\ block = None /\ published = FALSE /\ value = "pending"
        /\ failed = FALSE

\* The sender is used once.
Publish(v) == published' = TRUE /\ value' = IF value = "pending" THEN v ELSE value

\* push of one line that is not blank: it opens a block or joins it, and an
\* oversized block fails the head.
push(kind) ==
    IF published THEN UNCHANGED parser
    ELSE LET grown == IF block = None THEN [kind |-> kind, bytes |-> 1] ELSE [block EXCEPT !.bytes = @ + 1]
         IN IF grown.bytes > MAX_HEADER_BLOCK_BYTES
            THEN block' = None /\ Publish("error") /\ UNCHANGED connect_seen
            ELSE block' = grown /\ UNCHANGED <<connect_seen, published, value>>


\* push of a blank line: finish_block.
finish_block ==
    IF published \/ block = None THEN UNCHANGED parser
    ELSE /\ block' = None
         /\ IF block.kind = "garbled" THEN Publish("error") /\ UNCHANGED connect_seen
            ELSE IF block.kind = "interim" THEN UNCHANGED <<connect_seen, published, value>>
            ELSE IF expect_connect /\ ~connect_seen THEN connect_seen' = TRUE /\ UNCHANGED <<published, value>>
            ELSE Publish(block.kind) /\ UNCHANGED connect_seen

-----------------------------------------------------------------------------
(* What libcurl reports *)

\* The blocks that may come next: the tunnel's answer, 1xx, the head, trailers.
MayStart(kind) ==
    CASE kind = "connect" -> route = "tunnel" /\ "connect" \notin reported
      [] kind \in {"interim", "origin", "garbled"} ->
            /\ route = "tunnel" => "connect" \in reported
            /\ reported \cap {"origin", "garbled"} = {}
            /\ kind = "interim" => interim < MaxInterim
      [] kind = "trailers" -> "origin" \in reported /\ "trailers" \notin reported

StatusLine(kind) ==
    /\ sending = None /\ MayStart(kind)
    /\ sending' = kind /\ lines' = 1
    /\ push(kind)
    /\ UNCHANGED <<route, interim, reported, failed>>

Field ==
    /\ sending # None /\ lines < MaxLines
    /\ lines' = lines + 1
    /\ push(sending)
    /\ failed' = (failed \/ (lines' > MAX_HEADER_BLOCK_BYTES /\ "origin" \notin reported))
    /\ UNCHANGED <<route, sending, interim, reported>>

BlankLine ==
    /\ sending # None
    /\ finish_block
    /\ sending' = None /\ lines' = 0
    /\ interim' = IF sending = "interim" THEN interim + 1 ELSE interim
    /\ reported' = IF sending = "interim" THEN reported ELSE reported \cup {sending}
    /\ failed' = (failed \/ sending = "garbled")
    /\ UNCHANGED route

Kinds == {"connect", "interim", "origin", "garbled", "trailers"}
Next == (\E kind \in Kinds : StatusLine(kind)) \/ Field \/ BlankLine

Spec == Init /\ [][Next]_vars

-----------------------------------------------------------------------------

=============================================================================

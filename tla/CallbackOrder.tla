---------------------------- MODULE CallbackOrder ----------------------------
(***************************************************************************)
(* What http_parser promises its user: the order of the callbacks.  Data   *)
(* callbacks are made any number of times for one piece of data; what      *)
(* counts here is the last callback made, and whether the last chunk was   *)
(* announced, after which header fields are trailers.                      *)
(***************************************************************************)
EXTENDS Naturals

VARIABLES last, trailing

After(callback) ==
  CASE callback = "none" -> {"message_begin"}
    [] callback = "message_begin" -> {"url", "status"}
    [] callback \in {"url", "status"} -> {"header_field", "headers_complete"}
    [] callback = "header_field" -> {"header_value"}
    [] callback = "header_value" ->
         {"header_field"} \cup IF trailing THEN {"chunk_complete"} ELSE {"headers_complete"}
    [] callback = "headers_complete" -> {"body", "chunk_header", "message_complete"}
    [] callback = "body" -> {"chunk_complete", "message_complete"}
    [] callback = "chunk_header" ->
         IF trailing THEN {"header_field", "chunk_complete"} ELSE {"body"}
    [] callback = "chunk_complete" ->
         IF trailing THEN {"message_complete"} ELSE {"chunk_header"}
    [] callback = "message_complete" -> {"message_begin"}

Init == last = "none" /\ trailing = FALSE

\* Only the header of the last chunk begins the trailers, the end of the
\* message ends them.
Call(callback) ==
  /\ callback \in After(last)
  /\ last' = callback
  /\ trailing' \in CASE callback = "chunk_header" -> BOOLEAN
                     [] callback = "message_complete" -> {FALSE}
                     [] OTHER -> {trailing}

Next == \E callback \in After(last) : Call(callback)

Spec == Init /\ [][Next]_<<last, trailing>>
=============================================================================

-------------------------- MODULE MCHttpConnection --------------------------
(***************************************************************************)
(* Requests for model checking HttpConnection.                             *)
(***************************************************************************)
EXTENDS HttpConnection

\* Two header cells and a body of two bytes: read boundaries before, inside
\* and after the body.
Good == [hdr |-> 2, body |-> 2, tail |-> 0, err |-> 0, cutIn |-> 0,
         cutEnd |-> 0, length |-> TRUE, builds |-> TRUE, handler |-> "reads"]

\* The requests a server meets, each departing from Good in one way.
EveryKind ==
  { Good,
    [Good EXCEPT !.body = 3],
    [Good EXCEPT !.body = 0],
    [Good EXCEPT !.tail = 1],
    [Good EXCEPT !.err = 1],
    [Good EXCEPT !.length = FALSE],
    [Good EXCEPT !.length = FALSE, !.body = 0],
    [Good EXCEPT !.builds = FALSE],
    [Good EXCEPT !.handler = "throws"],
    [Good EXCEPT !.handler = "rejects"] }

\* Two-digit lengths, with a cell boundary inside the digits and one behind
\* them: the last digit promises none, one or two bytes.
TwoDigitLengths ==
  { [Good EXCEPT !.hdr = 3, !.body = b, !.cutIn = 1, !.cutEnd = 2] :
      b \in {10, 11, 12} }

Everything == EveryKind \cup TwoDigitLengths

=============================================================================

-------------------------- MODULE RequestExchange --------------------------
(***************************************************************************)
(* What one connection promises, without coroutines, buffers or a timer:   *)
(* a request is received, a handler is given the body piece by piece, and  *)
(* an answer follows only when the handler got exactly the promised number *)
(* of bytes.  An exchange may fail at any point, and then stays failed.    *)
(* The server goes down only on behalf of a client that left or of an      *)
(* exchange that is over.                                                  *)
(***************************************************************************)
EXTENDS Integers

VARIABLES phase,     \* how far the exchange is
          promised,  \* Content-Length, known when the handler is called
          got,       \* body bytes the handler was given
          peer,      \* "here" or "gone"
          server     \* "up" or "down"

exchangeVars == <<phase, promised, got, peer, server>>

Init ==
  /\ phase = "receiving"
  /\ promised = 0
  /\ got = 0
  /\ peer = "here"
  /\ server = "up"

Leave ==
  /\ peer = "here"
  /\ peer' = "gone"
  /\ UNCHANGED <<phase, promised, got, server>>

Call ==
  /\ phase = "receiving"
  /\ phase' = "handling"
  /\ promised' \in Nat
  /\ UNCHANGED <<got, peer, server>>

Give ==
  /\ phase = "handling"
  /\ got = promised => got = 0
  /\ got' \in Nat
  /\ got' > got
  /\ UNCHANGED <<phase, promised, peer, server>>

Answer ==
  /\ phase = "handling"
  /\ got = promised
  /\ phase' = "answering"
  /\ UNCHANGED <<promised, got, peer, server>>

Finish ==
  /\ phase = "answering"
  /\ phase' = "answered"
  /\ UNCHANGED <<promised, got, peer, server>>

Fail ==
  /\ phase \in {"receiving", "handling", "answering"}
  /\ phase = "answering" => peer = "gone"
  /\ phase' = "failed"
  /\ promised' \in Nat \cup {-1}
  /\ got' \in Nat
  /\ got' >= got
  /\ UNCHANGED <<peer, server>>

GoDown ==
  /\ server = "up"
  /\ peer = "gone" \/ phase \in {"answered", "failed"}
  /\ server' = "down"
  /\ UNCHANGED <<phase, promised, got, peer>>

Step == Call \/ Give \/ Answer \/ Finish \/ Fail

Next == server = "up" /\ (Leave \/ Step \/ GoDown)

Spec == Init /\ [][Next]_exchangeVars

=============================================================================

---------------------------- MODULE MCHttpServer ----------------------------
(***************************************************************************)
(* Two threads of the pool and three clients, one more than there are      *)
(* descriptors.                                                            *)
(***************************************************************************)
EXTENDS HttpServer

CONSTANTS t1, t2, c1, c2, c3

MCThreads == {t1, t2}
MCConnections == {c1, c2, c3}

=============================================================================

-------------------------- MODULE MCTaskDispatcher --------------------------
(***************************************************************************)
(* Two workers, so that a queue is shared and another is nobody's home,    *)
(* and tasks handed over at the same time.                                 *)
(***************************************************************************)
EXTENDS TaskDispatcher

CONSTANTS t1, t2

MCTasks == {t1, t2}
=============================================================================

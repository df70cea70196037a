----------------------------- MODULE HttpServer -----------------------------
(***************************************************************************)
(* The server around the connections (src/http/http_server.h and .cpp):    *)
(* start, the accept loop, the manager that keeps the set of active        *)
(* connections, and shutDown, on a pool of threads.                        *)
(*                                                                         *)
(* A coroutine runs on a pool thread under the strands of its executor.    *)
(* The acceptor's executor is a strand, startHandleConnection makes each   *)
(* connection a strand on top of that one, so that a connection's          *)
(* coroutine holds both.  mActiveConnections is an ordinary set that no    *)
(* mutex guards (mConnectionsMutex is never locked); an update is a read   *)
(* and a write, and other threads may come between.                        *)
(*                                                                         *)
(* What a connection does inside HttpConnection::handle is the subject of  *)
(* HttpConnection; here it suspends and resumes until it returns or        *)
(* throws.                                                                 *)
(***************************************************************************)
EXTENDS Integers, FiniteSets

CONSTANTS Threads,      \* the pool's threads
          Connections,  \* the connections clients will open
          MaxFiles,     \* descriptors left for accepted sockets
          Loop,         \* the accept loop's coroutine
          Idle          \* what a thread without work runs

ASSUME CoroutinesAssumption ==
  Loop \notin Connections /\ Idle \notin Connections \cup {Loop}
ASSUME MaxFilesAssumption == MaxFiles \in Nat \ {0}

VARIABLES
  mIsRunning,
  acceptor,            \* "closed", "open" or "listening"
  mActiveConnections,
  startPc,             \* the thread that calls start
  downPc,              \* the thread that calls shutDown
  pool,                \* "running" or "stopped"
  runs,                \* what each pool thread runs
  snapshot,            \* what each thread read of mActiveConnections
  aPc,                 \* where the accept loop is
  acceptOp,            \* its async_accept
  cPc,                 \* where each connection is
  late                 \* connections started since shutDown was called

callerVars == <<startPc, downPc>>
acceptVars == <<acceptor, aPc, acceptOp, late>>
activeVars == <<mActiveConnections, snapshot>>
vars == <<mIsRunning, callerVars, pool, acceptVars, activeVars, runs, cPc>>

Coroutines == Connections \cup {Loop}

\* Results of async_accept: a connection, or an error code of one of the
\* kinds acceptLoop tells apart.
NoOp == "none"
Errors == {"aborted", "transient", "fatal"}

TypeOK ==
  /\ mIsRunning \in BOOLEAN
  /\ acceptor \in {"closed", "open", "listening"}
  /\ mActiveConnections \subseteq Connections
  /\ startPc \in {"resolve", "listen", "run", "spawn", "join", "returned"}
  /\ downPc \in {"idle", "cancel", "stop", "join", "returned", "thrown"}
  /\ pool \in {"running", "stopped"}
  /\ runs \in [Threads -> Coroutines \cup {Idle}]
  /\ snapshot \in [Threads -> SUBSET Connections]
  /\ aPc \in {"none", "test", "initiate", "accepting", "ended"}
  /\ acceptOp \in {NoOp, "pending", "ok"} \cup Errors
  /\ cPc \in [Connections -> {"outside", "backlog", "accepted", "spawned",
                              "inserting", "handling", "suspended",
                              "erasing", "gone"}]
  /\ late \in Nat

-----------------------------------------------------------------------------
(***************************************************************************)
(* Strands.                                                                *)
(***************************************************************************)
AcceptorStrand == Loop

\* Mistake: the connections' strands are made on the pool's own executor.
StrandsOfPool(co) == IF co = Loop THEN {AcceptorStrand} ELSE {co}

\* mAcceptor's executor is a strand (http_server.h:55); a connection's is
\* make_strand of it (http_server.cpp:33).
StrandsOf(co) ==
  IF co = Loop THEN {AcceptorStrand} ELSE {AcceptorStrand, co}

StrandsFree(co) ==
  \A t \in Threads :
    runs[t] # Idle => StrandsOf(runs[t]) \cap StrandsOf(co) = {}

\* A coroutine the pool has been asked to run.
Ready(co) ==
  /\ co \notin {runs[t] : t \in Threads}
  /\ IF co = Loop
     THEN \/ aPc = "test"
          \/ aPc = "accepting" /\ acceptOp \notin {NoOp, "pending"}
     ELSE cPc[co] \in {"spawned", "suspended"}

\* Accepted sockets whose connection still exists.
OpenFiles ==
  {c \in Connections : cPc[c] \notin {"outside", "backlog", "gone"}}
FilesOut == Cardinality(OpenFiles) >= MaxFiles

Init ==
  /\ mIsRunning = FALSE
  /\ acceptor = "closed"
  /\ mActiveConnections = {}
  /\ startPc = "resolve"
  /\ downPc = "idle"
  /\ pool = "running"
  /\ runs = [t \in Threads |-> Idle]
  /\ snapshot = [t \in Threads |-> {}]
  /\ aPc = "none"
  /\ acceptOp = NoOp
  /\ cPc = [c \in Connections |-> "outside"]
  /\ late = 0

-----------------------------------------------------------------------------
(***************************************************************************)
(* start, on the thread that calls it.                                     *)
(***************************************************************************)

\* resolve and open: on an error start returns, and the acceptor is not open.
StartResolve ==
  /\ startPc = "resolve"
  /\ \/ acceptor' = "open" /\ startPc' = "listen"
     \/ startPc' = "returned" /\ UNCHANGED acceptor
  /\ UNCHANGED <<mIsRunning, downPc, pool, aPc, acceptOp, late, activeVars,
                 runs, cPc>>

\* set_option, bind and listen: on an error start closes the acceptor and
\* returns.
StartListen ==
  /\ startPc = "listen"
  /\ \/ acceptor' = "listening" /\ startPc' = "run"
     \/ acceptor' = "closed" /\ startPc' = "returned"
  /\ UNCHANGED <<mIsRunning, downPc, pool, aPc, acceptOp, late, activeVars,
                 runs, cPc>>

StartRun ==
  /\ startPc = "run"
  /\ mIsRunning' = TRUE
  /\ startPc' = "spawn"
  /\ UNCHANGED <<downPc, pool, acceptVars, activeVars, runs, cPc>>

StartSpawn ==
  /\ startPc = "spawn"
  /\ aPc' = "test"
  /\ startPc' = "join"
  /\ UNCHANGED <<mIsRunning, downPc, pool, acceptor, acceptOp, late,
                 activeVars, runs, cPc>>

\* Nothing is left that could make the pool's threads do something.
NoWork ==
  /\ aPc \in {"none", "ended"}
  /\ \A c \in Connections : cPc[c] \in {"outside", "backlog", "gone"}

\* join returns when the threads have left: each ends its handler first, and
\* without stop() all work must be over.
ThreadsLeft ==
  /\ \A t \in Threads : runs[t] = Idle
  /\ pool = "stopped" \/ NoWork

\* Mistake: start does not join the pool.
StartWithoutJoin ==
  /\ startPc = "join"
  /\ startPc' = "returned"
  /\ UNCHANGED <<mIsRunning, downPc, pool, acceptVars, activeVars, runs, cPc>>

StartJoin ==
  /\ startPc = "join"
  /\ ThreadsLeft
  /\ startPc' = "returned"
  /\ UNCHANGED <<mIsRunning, downPc, pool, acceptVars, activeVars, runs, cPc>>

-----------------------------------------------------------------------------
(***************************************************************************)
(* shutDown, on a thread of its own, at any time; again if it has thrown.  *)
(* What it and start do with the acceptor at once takes effect in one      *)
(* order or the other.                                                     *)
(***************************************************************************)
ShutFlag ==
  /\ downPc \in {"idle", "thrown"}
  /\ mIsRunning' = FALSE
  /\ downPc' = "cancel"
  /\ late' = 0
  /\ UNCHANGED <<startPc, pool, acceptor, aPc, acceptOp, activeVars, runs, cPc>>

\* mAcceptor.cancel() aborts the accept that is pending at this moment.  Of an
\* acceptor that is not open it throws, and shutDown does nothing more.
ShutCancel ==
  /\ downPc = "cancel"
  /\ IF acceptor = "closed"
     THEN downPc' = "thrown" /\ UNCHANGED acceptOp
     ELSE /\ downPc' = "stop"
          /\ acceptOp' = IF acceptOp = "pending" THEN "aborted" ELSE acceptOp
  /\ UNCHANGED <<mIsRunning, startPc, pool, acceptor, aPc, late, activeVars,
                 runs, cPc>>

\* Mistake: shutDown waits for the pool without stopping it.
ShutStopMissing ==
  /\ downPc = "stop"
  /\ downPc' = "join"
  /\ UNCHANGED <<mIsRunning, startPc, pool, acceptVars, activeVars, runs, cPc>>

ShutStop ==
  /\ downPc = "stop"
  /\ pool' = "stopped"
  /\ downPc' = "join"
  /\ UNCHANGED <<mIsRunning, startPc, acceptVars, activeVars, runs, cPc>>

ShutJoin ==
  /\ downPc = "join"
  /\ ThreadsLeft
  /\ downPc' = "returned"
  /\ UNCHANGED <<mIsRunning, startPc, pool, acceptVars, activeVars, runs, cPc>>

-----------------------------------------------------------------------------
(***************************************************************************)
(* Clients and the kernel.                                                 *)
(***************************************************************************)
Arrive(c) ==
  /\ acceptor = "listening"
  /\ cPc[c] = "outside"
  /\ cPc' = [cPc EXCEPT ![c] = "backlog"]
  /\ UNCHANGED <<mIsRunning, callerVars, pool, acceptVars, activeVars, runs>>

\* A pending accept takes a client from the backlog, once there is a
\* descriptor for its socket.
AcceptTakes(c) ==
  /\ acceptOp = "pending"
  /\ cPc[c] = "backlog"
  /\ ~FilesOut
  /\ acceptOp' = "ok"
  /\ cPc' = [cPc EXCEPT ![c] = "accepted"]
  /\ UNCHANGED <<mIsRunning, callerVars, pool, acceptor, aPc, late,
                 activeVars, runs>>

\* too_many_files_open, whether a client waits or not.
AcceptFindsNoFile ==
  /\ acceptOp = "pending"
  /\ FilesOut
  /\ acceptOp' = "transient"
  /\ UNCHANGED <<mIsRunning, callerVars, pool, acceptor, aPc, late,
                 activeVars, runs, cPc>>

\* Any other error of accept.
AcceptFails ==
  /\ acceptOp = "pending"
  /\ acceptOp' = "fatal"
  /\ UNCHANGED <<mIsRunning, callerVars, pool, acceptor, aPc, late,
                 activeVars, runs, cPc>>

-----------------------------------------------------------------------------
(***************************************************************************)
(* The pool: a thread takes a coroutine whose strands are free and runs it *)
(* until it suspends.                                                      *)
(***************************************************************************)
Take(t, co) ==
  /\ pool = "running"
  /\ runs[t] = Idle
  /\ Ready(co)
  /\ StrandsFree(co)
  /\ runs' = [runs EXCEPT ![t] = co]
  /\ cPc' = IF co = Loop \/ cPc[co] = "spawned" THEN cPc
            ELSE [cPc EXCEPT ![co] = "handling"]
  /\ UNCHANGED <<mIsRunning, callerVars, pool, acceptVars, activeVars>>

\* Mistake: the thread does not go back to the pool.
ReleaseToNothing(t) == runs' = [runs EXCEPT ![t] = NoOp]

Release(t) == runs' = [runs EXCEPT ![t] = Idle]

\* Mistake: the loop never looks at mIsRunning.
LoopTestNever(t) ==
  /\ runs[t] = Loop
  /\ aPc = "test"
  /\ aPc' = "initiate"
  /\ UNCHANGED <<mIsRunning, callerVars, pool, acceptor, acceptOp, late,
                 activeVars, runs, cPc>>

\* The accept loop on thread t.
LoopTest(t) ==
  /\ runs[t] = Loop
  /\ aPc = "test"
  /\ IF mIsRunning
     THEN aPc' = "initiate" /\ UNCHANGED runs
     ELSE aPc' = "ended" /\ Release(t)
  /\ UNCHANGED <<mIsRunning, callerVars, pool, acceptor, acceptOp, late,
                 activeVars, cPc>>

LoopAccept(t) ==
  /\ runs[t] = Loop
  /\ aPc = "initiate"
  /\ acceptOp' = "pending"
  /\ aPc' = "accepting"
  /\ Release(t)
  /\ UNCHANGED <<mIsRunning, callerVars, pool, acceptor, late, activeVars,
                 cPc>>

\* Mistake: the loop goes back to waiting for the accept that has failed.
RetryFromAccepting == "accepting"

\* `continue`: the loop tests mIsRunning and accepts again, at once.
RetryFrom == "test"

\* async_accept failed: the loop goes on or returns.
LoopError(t) ==
  /\ runs[t] = Loop
  /\ aPc = "accepting"
  /\ acceptOp \in Errors
  /\ acceptOp' = NoOp
  /\ aPc' = IF acceptOp = "transient" THEN RetryFrom ELSE "ended"
  /\ IF aPc' = "test" THEN UNCHANGED runs ELSE Release(t)
  /\ UNCHANGED <<mIsRunning, callerVars, pool, acceptor, late, activeVars,
                 cPc>>

\* A connection: its coroutine is spawned on its strand.  It may start at
\* once, on this thread, with the loop left to go on when it suspends.
LoopSpawn(t) ==
  /\ runs[t] = Loop
  /\ aPc = "accepting"
  /\ acceptOp = "ok"
  /\ acceptOp' = NoOp
  /\ aPc' = "test"
  /\ late' = IF downPc = "idle" THEN late ELSE late + 1
  /\ \E c \in Connections :
       /\ cPc[c] = "accepted"
       /\ cPc' = [cPc EXCEPT ![c] = "spawned"]
       /\ runs' \in {runs, [runs EXCEPT ![t] = c]}
  /\ UNCHANGED <<mIsRunning, callerVars, pool, acceptor, activeVars>>

\* The coroutine of connection c on thread t: mActiveConnections.insert,
\* handle, mActiveConnections.erase, the latter also when handle throws.
InsertBegin(t, c) ==
  /\ runs[t] = c
  /\ cPc[c] = "spawned"
  /\ snapshot' = [snapshot EXCEPT ![t] = mActiveConnections]
  /\ cPc' = [cPc EXCEPT ![c] = "inserting"]
  /\ UNCHANGED <<mIsRunning, callerVars, pool, acceptVars, mActiveConnections,
                 runs>>

InsertEnd(t, c) ==
  /\ runs[t] = c
  /\ cPc[c] = "inserting"
  /\ mActiveConnections' = snapshot[t] \cup {c}
  /\ cPc' = [cPc EXCEPT ![c] = "handling"]
  /\ UNCHANGED <<mIsRunning, callerVars, pool, acceptVars, snapshot, runs>>

HandleSuspends(t, c) ==
  /\ runs[t] = c
  /\ cPc[c] = "handling"
  /\ cPc' = [cPc EXCEPT ![c] = "suspended"]
  /\ Release(t)
  /\ UNCHANGED <<mIsRunning, callerVars, pool, acceptVars, activeVars>>

EraseBegin(t, c) ==
  /\ runs[t] = c
  /\ cPc[c] = "handling"
  /\ snapshot' = [snapshot EXCEPT ![t] = mActiveConnections]
  /\ cPc' = [cPc EXCEPT ![c] = "erasing"]
  /\ UNCHANGED <<mIsRunning, callerVars, pool, acceptVars, mActiveConnections,
                 runs>>

EraseEnd(t, c) ==
  /\ runs[t] = c
  /\ cPc[c] = "erasing"
  /\ mActiveConnections' = snapshot[t] \ {c}
  /\ cPc' = [cPc EXCEPT ![c] = "gone"]
  /\ Release(t)
  /\ UNCHANGED <<mIsRunning, callerVars, pool, acceptVars, snapshot>>

-----------------------------------------------------------------------------
StartStep == StartResolve \/ StartListen \/ StartRun \/ StartSpawn \/ StartJoin
DownStep == ShutCancel \/ ShutStop \/ ShutJoin
LoopStep(t) == LoopTest(t) \/ LoopAccept(t) \/ LoopError(t) \/ LoopSpawn(t)
ConnStep(t, c) ==
  \/ InsertBegin(t, c) \/ InsertEnd(t, c)
  \/ HandleSuspends(t, c)
  \/ EraseBegin(t, c) \/ EraseEnd(t, c)

\* A thread that runs something goes on with it.
ThreadStep(t) == LoopStep(t) \/ \E c \in Connections : ConnStep(t, c)

Next ==
  \/ StartStep \/ ShutFlag \/ DownStep
  \/ \E c \in Connections : Arrive(c) \/ AcceptTakes(c)
  \/ AcceptFindsNoFile \/ AcceptFails
  \/ \E t \in Threads : ThreadStep(t) \/ \E co \in Coroutines : Take(t, co)

Spec == Init /\ [][Next]_vars

(***************************************************************************)
(* start and shutDown, once called, go on; the kernel gives a pending      *)
(* accept its result; the pool runs what it has taken, and takes the loop  *)
(* when it is ready: the strands are FIFO queues, so that connections      *)
(* cannot keep it out for ever.  Nothing makes a client speak, so nothing  *)
(* resumes a connection or makes it end.                                   *)
(***************************************************************************)
Fairness ==
  /\ WF_vars(StartStep)
  /\ WF_vars(DownStep)
  /\ WF_vars(AcceptFindsNoFile \/ \E c \in Connections : AcceptTakes(c))
  /\ \A t \in Threads : WF_vars(ThreadStep(t))
  /\ SF_vars(\E t \in Threads : Take(t, Loop))

FairSpec == Spec /\ Fairness

-----------------------------------------------------------------------------
(***************************************************************************)
(* Properties.                                                             *)
(***************************************************************************)

\* mActiveConnections holds exactly the connections between the end of their
\* insert and the end of their erase (http_server.cpp:23-30): no update is
\* lost, although sixteen threads update the set and no mutex is locked.
ActiveExact ==
  mActiveConnections =
    {c \in Connections : cPc[c] \in {"handling", "suspended", "erasing"}}

\* The strands leave the pool one thread at a time: the accept loop and all
\* connections exclude each other (http_server.h:55, http_server.cpp:33).
OneThreadAtWork ==
  \A t, u \in Threads : runs[t] # Idle /\ runs[u] # Idle => t = u

\* After shutDown has cleared mIsRunning (http_server.cpp:126) the loop starts at
\* most one more connection, the one whose accept was under way (42-73).  There
\* is one exception: start may set the flag after shutDown has cleared it (115);
\* then the loop starts any number of them, until the pool is stopped.
OneLateConnection == late <= 1 \/ mIsRunning

\* When start returns without a stop of the pool, no connection is left
\* behind half handled, and no coroutine will run again.
ReturnLeavesNothing ==
  startPc = "returned" /\ pool = "running" =>
    NoWork /\ mActiveConnections = {}

\* shutDown brings both callers home, wherever start and the accept loop were
\* when it was called: also when cancel() came before the accept it was to abort,
\* or the flag was set again.  Only before the acceptor is open, or when start
\* has given up on it, shutDown ends in the exception of cancel()
\* (http_server.cpp:127), and nothing is stopped; never once start listens.
BothReturned == downPc = "returned" /\ startPc = "returned"
ShutDownReturns ==
  /\ downPc = "cancel" ~> BothReturned \/ (downPc = "thrown" /\ aPc = "none")
  /\ downPc = "cancel" /\ acceptor = "listening" ~> BothReturned

\* A waiting client is accepted unless the loop is over, the pool is
\* stopped or the descriptors run out again and again.
LoopOver == aPc = "ended" \/ pool = "stopped"
BacklogServed ==
  \/ []<>FilesOut
  \/ \A c \in Connections :
       cPc[c] = "backlog" ~> cPc[c] # "backlog" \/ LoopOver

=============================================================================

------------------------- MODULE HttpServer_proofs -------------------------
(***************************************************************************)
(* The safety properties of HttpServer for any number of threads,          *)
(* connections and descriptors.                                            *)
(***************************************************************************)
EXTENDS HttpServer, TLAPS

\* Where a coroutine is agrees with whether a thread runs it.
RunningAgrees ==
  /\ \A t \in Threads :
       runs[t] = Loop => aPc \in {"test", "initiate", "accepting"}
  /\ \A t \in Threads, c \in Connections :
       runs[t] = c =>
         cPc[c] \in {"spawned", "inserting", "handling", "erasing"}

\* A connection between two suspensions is on a thread.
AtWork == {"inserting", "handling", "erasing"}
AtWorkRuns ==
  \A c \in Connections : cPc[c] \in AtWork => \E t \in Threads : runs[t] = c

\* A thread in the middle of an update has read the set as it still is.
SnapshotCurrent ==
  \A t \in Threads, c \in Connections :
    runs[t] = c /\ cPc[c] \in {"inserting", "erasing"}
      => snapshot[t] = mActiveConnections

\* Before start spawns the loop there is nothing to do, and an accept is
\* pending only while the loop waits for it.
LoopLife ==
  /\ aPc # "none" => startPc \in {"join", "returned"}
  /\ aPc = "none" =>
       /\ \A t \in Threads : runs[t] = Idle
       /\ \A c \in Connections : cPc[c] \in {"outside", "backlog"}
  /\ acceptOp = "pending" => aPc = "accepting"

\* While the flag stays cleared, a late connection is the loop's last.
LateIsLast ==
  ~mIsRunning /\ late # 0 => late = 1 /\ aPc \in {"test", "ended"}

ThreadInv == OneThreadAtWork /\ RunningAgrees /\ AtWorkRuns
SetInv    == SnapshotCurrent /\ ActiveExact
LifeInv   == LoopLife /\ LateIsLast /\ ReturnLeavesNothing

\* The inductive invariant.
IInv == TypeOK /\ ThreadInv /\ SetInv /\ LifeInv

LEMMA InitIInv == Init => IInv
<1> SUFFICES ASSUME Init PROVE IInv
  OBVIOUS
<1> USE CoroutinesAssumption DEF Init
<1>1. TypeOK
  BY DEF TypeOK, NoOp, Coroutines
<1>2. ThreadInv
  BY DEF ThreadInv, OneThreadAtWork, RunningAgrees, AtWorkRuns, AtWork
<1>3. SetInv
  BY DEF SetInv, SnapshotCurrent, ActiveExact
<1>4. LifeInv
  BY DEF LifeInv, LoopLife, LateIsLast, ReturnLeavesNothing, NoOp
<1> QED
  BY <1>1, <1>2, <1>3, <1>4 DEF IInv

\* What a thread runs is alone: no connection but that one is at work.
LEMMA RunsAlone ==
  ASSUME IInv, NEW t \in Threads, NEW c \in Connections,
         runs[t] # Idle, runs[t] # c
  PROVE  cPc[c] \notin AtWork
<1> SUFFICES ASSUME cPc[c] \in AtWork PROVE FALSE
  OBVIOUS
<1>1. PICK u \in Threads : runs[u] = c
  BY DEF IInv, ThreadInv, AtWorkRuns
<1> QED
  BY <1>1, CoroutinesAssumption DEF IInv, ThreadInv, OneThreadAtWork

\* The acceptor's strand is one of every coroutine's: a thread takes a
\* coroutine only when no other thread runs any.
LEMMA StrandsExclude ==
  ASSUME IInv, NEW co \in Coroutines, StrandsFree(co)
  PROVE  /\ \A t \in Threads : runs[t] = Idle
         /\ \A c \in Connections : cPc[c] \notin AtWork
\* start
<1>1. ASSUME NEW t \in Threads PROVE runs[t] = Idle
  BY <1>1 DEF StrandsFree, StrandsOf
<1>2. ASSUME NEW c \in Connections PROVE cPc[c] \notin AtWork
  BY <1>1, <1>2, CoroutinesAssumption DEF IInv, ThreadInv, AtWorkRuns
<1> QED
  BY <1>1, <1>2

LEMMA StepIInv == IInv /\ [Next]_vars => IInv'
<1> SUFFICES ASSUME IInv, [Next]_vars PROVE IInv'
  OBVIOUS
<1> USE CoroutinesAssumption
    DEF IInv, callerVars, acceptVars, activeVars, NoOp, Coroutines, Errors
\* start
<1>1. ASSUME StartResolve
      PROVE  IInv'
  <2> USE <1>1 DEF StartResolve
  <2>1. TypeOK'
    BY DEF TypeOK
  <2>2. ThreadInv'
    BY DEF ThreadInv, OneThreadAtWork, RunningAgrees, AtWorkRuns, AtWork,
           TypeOK
  <2>3. SetInv'
    BY DEF SetInv, SnapshotCurrent, ActiveExact, ThreadInv,
              OneThreadAtWork, RunningAgrees, AtWorkRuns, AtWork, TypeOK
  <2>4. LifeInv'
    BY DEF LifeInv, LoopLife, LateIsLast, ReturnLeavesNothing, NoWork,
              SetInv, ActiveExact, ThreadInv, RunningAgrees, TypeOK
  <2> QED
    BY <2>1, <2>2, <2>3, <2>4
<1>2. ASSUME StartListen
      PROVE  IInv'
  <2> USE <1>2 DEF StartListen
  <2>1. TypeOK'
    <3>1. acceptor' \in {"closed", "listening"} /\ startPc' \in {"run", "returned"}
      OBVIOUS
    <3>2. UNCHANGED <<mIsRunning, downPc, pool, aPc, acceptOp, late, runs, cPc>>
          /\ mActiveConnections' = mActiveConnections /\ snapshot' = snapshot
      BY DEF activeVars
    <3> HIDE <1>2 DEF StartListen
    <3> QED
      BY <3>1, <3>2 DEF TypeOK
  <2>2. ThreadInv'
    <3>1. runs' = runs /\ aPc' = aPc /\ cPc' = cPc
      BY DEF acceptVars
    <3> QED
      BY <3>1 DEF ThreadInv, OneThreadAtWork, RunningAgrees, AtWorkRuns
  <2>3. SetInv'
    BY DEF SetInv, SnapshotCurrent, ActiveExact, ThreadInv,
              OneThreadAtWork, RunningAgrees, AtWorkRuns, AtWork, TypeOK
  <2>4. LifeInv'
    BY DEF LifeInv, LoopLife, LateIsLast, ReturnLeavesNothing, NoWork,
              SetInv, ActiveExact, ThreadInv, RunningAgrees, TypeOK
  <2> QED
    BY <2>1, <2>2, <2>3, <2>4
<1>3. ASSUME StartRun
      PROVE  IInv'
  <2> USE <1>3 DEF StartRun
  <2>1. TypeOK'
    BY DEF TypeOK
  <2>2. ThreadInv'
    BY DEF ThreadInv, OneThreadAtWork, RunningAgrees, AtWorkRuns, AtWork,
           TypeOK
  <2>3. SetInv'
    BY DEF SetInv, SnapshotCurrent, ActiveExact, ThreadInv,
              OneThreadAtWork, RunningAgrees, AtWorkRuns, AtWork, TypeOK
  <2>4. LifeInv'
    BY DEF LifeInv, LoopLife, LateIsLast, ReturnLeavesNothing, NoWork,
              SetInv, ActiveExact, ThreadInv, RunningAgrees, TypeOK
  <2> QED
    BY <2>1, <2>2, <2>3, <2>4
<1>4. ASSUME StartSpawn
      PROVE  IInv'
  <2> USE <1>4 DEF StartSpawn
  <2>1. TypeOK'
    BY DEF TypeOK
  <2>2. ThreadInv'
    BY DEF ThreadInv, OneThreadAtWork, RunningAgrees, AtWorkRuns, AtWork,
           TypeOK
  <2>3. SetInv'
    BY DEF SetInv, SnapshotCurrent, ActiveExact, ThreadInv,
              OneThreadAtWork, RunningAgrees, AtWorkRuns, AtWork, TypeOK
  <2>4. LifeInv'
    BY DEF LifeInv, LoopLife, LateIsLast, ReturnLeavesNothing, NoWork,
              SetInv, ActiveExact, ThreadInv, RunningAgrees, TypeOK
  <2> QED
    BY <2>1, <2>2, <2>3, <2>4
<1>5. ASSUME StartJoin
      PROVE  IInv'
  <2> USE <1>5 DEF StartJoin, ThreadsLeft
  <2>1. TypeOK'
    BY DEF TypeOK
  <2>2. ThreadInv'
    BY DEF ThreadInv, OneThreadAtWork, RunningAgrees, AtWorkRuns, AtWork,
           TypeOK
  <2>3. SetInv'
    BY DEF SetInv, SnapshotCurrent, ActiveExact, ThreadInv,
              OneThreadAtWork, RunningAgrees, AtWorkRuns, AtWork, TypeOK
  <2>4. LifeInv'
    BY DEF LifeInv, LoopLife, LateIsLast, ReturnLeavesNothing, NoWork,
              SetInv, ActiveExact, ThreadInv, RunningAgrees, TypeOK
  <2> QED
    BY <2>1, <2>2, <2>3, <2>4
\* shutDown
<1>6. ASSUME ShutFlag
      PROVE  IInv'
  <2> USE <1>6 DEF ShutFlag
  <2>1. TypeOK'
    BY DEF TypeOK
  <2>2. ThreadInv'
    BY DEF ThreadInv, OneThreadAtWork, RunningAgrees, AtWorkRuns, AtWork,
           TypeOK
  <2>3. SetInv'
    BY DEF SetInv, SnapshotCurrent, ActiveExact, ThreadInv,
              OneThreadAtWork, RunningAgrees, AtWorkRuns, AtWork, TypeOK
  <2>4. LifeInv'
    BY DEF LifeInv, LoopLife, LateIsLast, ReturnLeavesNothing, NoWork,
              SetInv, ActiveExact, ThreadInv, RunningAgrees, TypeOK
  <2> QED
    BY <2>1, <2>2, <2>3, <2>4
<1>7. ASSUME ShutCancel
      PROVE  IInv'
  <2> USE <1>7 DEF ShutCancel
  <2>1. TypeOK'
    BY DEF TypeOK
  <2>2. ThreadInv'
    BY DEF ThreadInv, OneThreadAtWork, RunningAgrees, AtWorkRuns, AtWork,
           TypeOK
  <2>3. SetInv'
    BY DEF SetInv, SnapshotCurrent, ActiveExact, ThreadInv,
              OneThreadAtWork, RunningAgrees, AtWorkRuns, AtWork, TypeOK
  <2>4. LifeInv'
    BY DEF LifeInv, LoopLife, LateIsLast, ReturnLeavesNothing, NoWork,
              SetInv, ActiveExact, ThreadInv, RunningAgrees, TypeOK
  <2> QED
    BY <2>1, <2>2, <2>3, <2>4
<1>8. ASSUME ShutStop
      PROVE  IInv'
  <2> USE <1>8 DEF ShutStop
  <2>1. TypeOK'
    BY DEF TypeOK
  <2>2. ThreadInv'
    BY DEF ThreadInv, OneThreadAtWork, RunningAgrees, AtWorkRuns, AtWork,
           TypeOK
  <2>3. SetInv'
    BY DEF SetInv, SnapshotCurrent, ActiveExact, ThreadInv,
              OneThreadAtWork, RunningAgrees, AtWorkRuns, AtWork, TypeOK
  <2>4. LifeInv'
    BY DEF LifeInv, LoopLife, LateIsLast, ReturnLeavesNothing, NoWork,
              SetInv, ActiveExact, ThreadInv, RunningAgrees, TypeOK
  <2> QED
    BY <2>1, <2>2, <2>3, <2>4
<1>9. ASSUME ShutJoin
      PROVE  IInv'
  <2> USE <1>9 DEF ShutJoin
  <2>1. TypeOK'
    BY DEF TypeOK
  <2>2. ThreadInv'
    BY DEF ThreadInv, OneThreadAtWork, RunningAgrees, AtWorkRuns, AtWork,
           TypeOK
  <2>3. SetInv'
    BY DEF SetInv, SnapshotCurrent, ActiveExact, ThreadInv,
              OneThreadAtWork, RunningAgrees, AtWorkRuns, AtWork, TypeOK
  <2>4. LifeInv'
    BY DEF LifeInv, LoopLife, LateIsLast, ReturnLeavesNothing, NoWork,
              SetInv, ActiveExact, ThreadInv, RunningAgrees, TypeOK
  <2> QED
    BY <2>1, <2>2, <2>3, <2>4
\* Clients and the kernel
<1>10. ASSUME NEW c \in Connections, Arrive(c)
      PROVE  IInv'
  <2> USE <1>10 DEF Arrive
  <2>1. TypeOK'
    BY DEF TypeOK
  <2>2. ThreadInv'
    BY DEF ThreadInv, OneThreadAtWork, RunningAgrees, AtWorkRuns, AtWork,
           TypeOK
  <2>3. SetInv'
    BY DEF SetInv, SnapshotCurrent, ActiveExact, ThreadInv,
              OneThreadAtWork, RunningAgrees, AtWorkRuns, AtWork, TypeOK
  <2>4. LifeInv'
    BY DEF LifeInv, LoopLife, LateIsLast, ReturnLeavesNothing, NoWork,
              SetInv, ActiveExact, ThreadInv, RunningAgrees, TypeOK
  <2> QED
    BY <2>1, <2>2, <2>3, <2>4
<1>11. ASSUME NEW c \in Connections, AcceptTakes(c)
      PROVE  IInv'
  <2> USE <1>11 DEF AcceptTakes
  <2>1. TypeOK'
    BY DEF TypeOK
  <2>2. ThreadInv'
    BY DEF ThreadInv, OneThreadAtWork, RunningAgrees, AtWorkRuns, AtWork,
           TypeOK
  <2>3. SetInv'
    BY DEF SetInv, SnapshotCurrent, ActiveExact, ThreadInv,
              OneThreadAtWork, RunningAgrees, AtWorkRuns, AtWork, TypeOK
  <2>4. LifeInv'
    BY DEF LifeInv, LoopLife, LateIsLast, ReturnLeavesNothing, NoWork,
              SetInv, ActiveExact, ThreadInv, RunningAgrees, TypeOK
  <2> QED
    BY <2>1, <2>2, <2>3, <2>4
<1>12. ASSUME AcceptFindsNoFile
      PROVE  IInv'
  <2> USE <1>12 DEF AcceptFindsNoFile
  <2>1. TypeOK'
    BY DEF TypeOK
  <2>2. ThreadInv'
    BY DEF ThreadInv, OneThreadAtWork, RunningAgrees, AtWorkRuns, AtWork,
           TypeOK
  <2>3. SetInv'
    BY DEF SetInv, SnapshotCurrent, ActiveExact, ThreadInv,
              OneThreadAtWork, RunningAgrees, AtWorkRuns, AtWork, TypeOK
  <2>4. LifeInv'
    BY DEF LifeInv, LoopLife, LateIsLast, ReturnLeavesNothing, NoWork,
              SetInv, ActiveExact, ThreadInv, RunningAgrees, TypeOK
  <2> QED
    BY <2>1, <2>2, <2>3, <2>4
<1>13. ASSUME AcceptFails
      PROVE  IInv'
  <2> USE <1>13 DEF AcceptFails
  <2>1. TypeOK'
    BY DEF TypeOK
  <2>2. ThreadInv'
    BY DEF ThreadInv, OneThreadAtWork, RunningAgrees, AtWorkRuns, AtWork,
           TypeOK
  <2>3. SetInv'
    BY DEF SetInv, SnapshotCurrent, ActiveExact, ThreadInv,
              OneThreadAtWork, RunningAgrees, AtWorkRuns, AtWork, TypeOK
  <2>4. LifeInv'
    BY DEF LifeInv, LoopLife, LateIsLast, ReturnLeavesNothing, NoWork,
              SetInv, ActiveExact, ThreadInv, RunningAgrees, TypeOK
  <2> QED
    BY <2>1, <2>2, <2>3, <2>4
\* The pool takes a coroutine
<1>14. ASSUME NEW t \in Threads, NEW co \in Coroutines, Take(t, co)
      PROVE  IInv'
  <2> USE <1>14 DEF Take
  <2>a. /\ \A u \in Threads : runs[u] = Idle
        /\ \A c \in Connections : cPc[c] \notin AtWork
    BY StrandsExclude
  <2>b. IF co = Loop
        THEN aPc = "test" \/ (aPc = "accepting" /\ acceptOp # "pending")
        ELSE cPc[co] \in {"spawned", "suspended"}
    BY DEF Ready
  <2>1. TypeOK'
    BY DEF TypeOK
  <2>2. ThreadInv'
    BY <2>a, <2>b DEF ThreadInv, OneThreadAtWork, RunningAgrees,
              AtWorkRuns, AtWork, TypeOK
  <2>3. SetInv'
    BY <2>a, <2>b DEF SetInv, SnapshotCurrent, ActiveExact, ThreadInv,
              OneThreadAtWork, RunningAgrees, AtWorkRuns, AtWork, TypeOK
  <2>4. LifeInv'
    BY <2>a, <2>b DEF LifeInv, LoopLife, LateIsLast, ReturnLeavesNothing,
              NoWork, SetInv, ActiveExact, ThreadInv, RunningAgrees, TypeOK
  <2> QED
    BY <2>1, <2>2, <2>3, <2>4
\* The accept loop
<1>15. ASSUME NEW t \in Threads, LoopTest(t)
      PROVE  IInv'
  <2> USE <1>15 DEF LoopTest, Release
  <2>a. \A d \in Connections : runs[t] # d => cPc[d] \notin AtWork
    BY RunsAlone
  <2>1. TypeOK'
    BY DEF TypeOK
  <2>2. ThreadInv'
    BY <2>a DEF ThreadInv, OneThreadAtWork, RunningAgrees, AtWorkRuns,
              AtWork, TypeOK
  <2>3. SetInv'
    BY <2>a DEF SetInv, SnapshotCurrent, ActiveExact, ThreadInv,
              OneThreadAtWork, RunningAgrees, AtWorkRuns, AtWork, TypeOK
  <2>4. LifeInv'
    BY <2>a DEF LifeInv, LoopLife, LateIsLast, ReturnLeavesNothing, NoWork,
              SetInv, ActiveExact, ThreadInv, RunningAgrees, TypeOK
  <2> QED
    BY <2>1, <2>2, <2>3, <2>4
<1>16. ASSUME NEW t \in Threads, LoopAccept(t)
      PROVE  IInv'
  <2> USE <1>16 DEF LoopAccept, Release
  <2>a. \A d \in Connections : runs[t] # d => cPc[d] \notin AtWork
    BY RunsAlone
  <2>1. TypeOK'
    BY DEF TypeOK
  <2>2. ThreadInv'
    BY <2>a DEF ThreadInv, OneThreadAtWork, RunningAgrees, AtWorkRuns,
              AtWork, TypeOK
  <2>3. SetInv'
    BY <2>a DEF SetInv, SnapshotCurrent, ActiveExact, ThreadInv,
              OneThreadAtWork, RunningAgrees, AtWorkRuns, AtWork, TypeOK
  <2>4. LifeInv'
    BY <2>a DEF LifeInv, LoopLife, LateIsLast, ReturnLeavesNothing, NoWork,
              SetInv, ActiveExact, ThreadInv, RunningAgrees, TypeOK
  <2> QED
    BY <2>1, <2>2, <2>3, <2>4
<1>17. ASSUME NEW t \in Threads, LoopError(t)
      PROVE  IInv'
  <2> USE <1>17 DEF LoopError, Release, RetryFrom
  <2>a. \A d \in Connections : runs[t] # d => cPc[d] \notin AtWork
    BY RunsAlone
  <2>1. TypeOK'
    BY DEF TypeOK
  <2>2. ThreadInv'
    BY <2>a DEF ThreadInv, OneThreadAtWork, RunningAgrees, AtWorkRuns,
              AtWork, TypeOK
  <2>3. SetInv'
    BY <2>a DEF SetInv, SnapshotCurrent, ActiveExact, ThreadInv,
              OneThreadAtWork, RunningAgrees, AtWorkRuns, AtWork, TypeOK
  <2>4. LifeInv'
    BY <2>a DEF LifeInv, LoopLife, LateIsLast, ReturnLeavesNothing, NoWork,
              SetInv, ActiveExact, ThreadInv, RunningAgrees, TypeOK
  <2> QED
    BY <2>1, <2>2, <2>3, <2>4
<1>18. ASSUME NEW t \in Threads, LoopSpawn(t)
      PROVE  IInv'
  <2> USE <1>18 DEF LoopSpawn
  <2>a. \A d \in Connections : runs[t] # d => cPc[d] \notin AtWork
    BY RunsAlone
  <2>1. TypeOK'
    BY DEF TypeOK
  <2>2. ThreadInv'
    BY <2>a DEF ThreadInv, OneThreadAtWork, RunningAgrees, AtWorkRuns,
              AtWork, TypeOK
  <2>3. SetInv'
    BY <2>a DEF SetInv, SnapshotCurrent, ActiveExact, ThreadInv,
              OneThreadAtWork, RunningAgrees, AtWorkRuns, AtWork, TypeOK
  <2>4. LifeInv'
    BY <2>a DEF LifeInv, LoopLife, LateIsLast, ReturnLeavesNothing, NoWork,
              SetInv, ActiveExact, ThreadInv, RunningAgrees, TypeOK
  <2> QED
    BY <2>1, <2>2, <2>3, <2>4
\* A connection
<1>19. ASSUME NEW t \in Threads, NEW c \in Connections, InsertBegin(t, c)
      PROVE  IInv'
  <2> USE <1>19 DEF InsertBegin
  <2>a. \A d \in Connections : runs[t] # d => cPc[d] \notin AtWork
    BY RunsAlone
  <2>1. TypeOK'
    BY DEF TypeOK
  <2>2. ThreadInv'
    BY <2>a DEF ThreadInv, OneThreadAtWork, RunningAgrees, AtWorkRuns,
              AtWork, TypeOK
  <2>3. SetInv'
    BY <2>a DEF SetInv, SnapshotCurrent, ActiveExact, ThreadInv,
              OneThreadAtWork, RunningAgrees, AtWorkRuns, AtWork, TypeOK
  <2>4. LifeInv'
    BY <2>a DEF LifeInv, LoopLife, LateIsLast, ReturnLeavesNothing, NoWork,
              SetInv, ActiveExact, ThreadInv, RunningAgrees, TypeOK
  <2> QED
    BY <2>1, <2>2, <2>3, <2>4
<1>20. ASSUME NEW t \in Threads, NEW c \in Connections, InsertEnd(t, c)
      PROVE  IInv'
  <2> USE <1>20 DEF InsertEnd
  <2>a. \A d \in Connections : runs[t] # d => cPc[d] \notin AtWork
    BY RunsAlone
  <2>1. TypeOK'
    BY DEF TypeOK
  <2>2. ThreadInv'
    BY <2>a DEF ThreadInv, OneThreadAtWork, RunningAgrees, AtWorkRuns,
              AtWork, TypeOK
  <2>3. SetInv'
    BY <2>a DEF SetInv, SnapshotCurrent, ActiveExact, ThreadInv,
              OneThreadAtWork, RunningAgrees, AtWorkRuns, AtWork, TypeOK
  <2>4. LifeInv'
    BY <2>a DEF LifeInv, LoopLife, LateIsLast, ReturnLeavesNothing, NoWork,
              SetInv, ActiveExact, ThreadInv, RunningAgrees, TypeOK
  <2> QED
    BY <2>1, <2>2, <2>3, <2>4
<1>21. ASSUME NEW t \in Threads, NEW c \in Connections, HandleSuspends(t, c)
      PROVE  IInv'
  <2> USE <1>21 DEF HandleSuspends, Release
  <2>a. \A d \in Connections : runs[t] # d => cPc[d] \notin AtWork
    BY RunsAlone
  <2>1. TypeOK'
    BY DEF TypeOK
  <2>2. ThreadInv'
    BY <2>a DEF ThreadInv, OneThreadAtWork, RunningAgrees, AtWorkRuns,
              AtWork, TypeOK
  <2>3. SetInv'
    BY <2>a DEF SetInv, SnapshotCurrent, ActiveExact, ThreadInv,
              OneThreadAtWork, RunningAgrees, AtWorkRuns, AtWork, TypeOK
  <2>4. LifeInv'
    BY <2>a DEF LifeInv, LoopLife, LateIsLast, ReturnLeavesNothing, NoWork,
              SetInv, ActiveExact, ThreadInv, RunningAgrees, TypeOK
  <2> QED
    BY <2>1, <2>2, <2>3, <2>4
<1>22. ASSUME NEW t \in Threads, NEW c \in Connections, EraseBegin(t, c)
      PROVE  IInv'
  <2> USE <1>22 DEF EraseBegin
  <2>a. \A d \in Connections : runs[t] # d => cPc[d] \notin AtWork
    BY RunsAlone
  <2>1. TypeOK'
    BY DEF TypeOK
  <2>2. ThreadInv'
    BY <2>a DEF ThreadInv, OneThreadAtWork, RunningAgrees, AtWorkRuns,
              AtWork, TypeOK
  <2>3. SetInv'
    BY <2>a DEF SetInv, SnapshotCurrent, ActiveExact, ThreadInv,
              OneThreadAtWork, RunningAgrees, AtWorkRuns, AtWork, TypeOK
  <2>4. LifeInv'
    BY <2>a DEF LifeInv, LoopLife, LateIsLast, ReturnLeavesNothing, NoWork,
              SetInv, ActiveExact, ThreadInv, RunningAgrees, TypeOK
  <2> QED
    BY <2>1, <2>2, <2>3, <2>4
<1>23. ASSUME NEW t \in Threads, NEW c \in Connections, EraseEnd(t, c)
      PROVE  IInv'
  <2> USE <1>23 DEF EraseEnd, Release
  <2>a. \A d \in Connections : runs[t] # d => cPc[d] \notin AtWork
    BY RunsAlone
  <2>1. TypeOK'
    BY DEF TypeOK
  <2>2. ThreadInv'
    BY <2>a DEF ThreadInv, OneThreadAtWork, RunningAgrees, AtWorkRuns,
              AtWork, TypeOK
  <2>3. SetInv'
    BY <2>a DEF SetInv, SnapshotCurrent, ActiveExact, ThreadInv,
              OneThreadAtWork, RunningAgrees, AtWorkRuns, AtWork, TypeOK
  <2>4. LifeInv'
    BY <2>a DEF LifeInv, LoopLife, LateIsLast, ReturnLeavesNothing, NoWork,
              SetInv, ActiveExact, ThreadInv, RunningAgrees, TypeOK
  <2> QED
    BY <2>1, <2>2, <2>3, <2>4
<1> QED
  <2>1. CASE UNCHANGED vars
    BY <2>1
    DEF vars, TypeOK, ThreadInv, OneThreadAtWork, RunningAgrees, AtWorkRuns,
       SetInv, SnapshotCurrent, ActiveExact, LifeInv, LoopLife, LateIsLast,
       ReturnLeavesNothing, NoWork
  <2>2. CASE Next
    BY <2>2, <1>1, <1>2, <1>3, <1>4, <1>5, <1>6, <1>7, <1>8, <1>9, <1>10,
       <1>11, <1>12, <1>13, <1>14, <1>15, <1>16, <1>17, <1>18, <1>19, <1>20,
       <1>21, <1>22, <1>23
    DEF Next, StartStep, DownStep, ThreadStep, LoopStep, ConnStep
  <2> QED
    BY <2>1, <2>2

LEMMA Invariance == Spec => []IInv
  BY InitIInv, StepIInv, PTL DEF Spec

\* Every variable keeps its type, for any number of threads and connections.
THEOREM TypeCorrect == Spec => []TypeOK
<1>1. IInv => TypeOK
  BY DEF IInv
<1> QED
  BY <1>1, Invariance, PTL

\* Though http_server.h:55 makes one strand for a pool of many threads and
\* http_server.cpp:33 one more for each connection, no two coroutines of the
\* server ever run at once.
THEOREM Exclusion == Spec => []OneThreadAtWork
<1>1. IInv => OneThreadAtWork
  BY DEF IInv, ThreadInv
<1> QED
  BY <1>1, Invariance, PTL

\* The unguarded set of http_server.cpp:23-30 loses no update: it is always
\* the set of the connections between their insert and their erase.
THEOREM ActiveSetExact == Spec => []ActiveExact
<1>1. IInv => ActiveExact
  BY DEF IInv, SetInv
<1> QED
  BY <1>1, Invariance, PTL

\* However shutDown's steps fall between the loop's, at most one connection is
\* started after shutDown has cleared mIsRunning (http_server.cpp:42-73, 125-130),
\* as long as start does not set the flag again after that (115); of a flag set
\* again it says nothing.
THEOREM AtMostOneLate == Spec => []OneLateConnection
<1>1. IInv => OneLateConnection
  BY DEF IInv, LifeInv, LateIsLast, OneLateConnection, TypeOK
<1> QED
  BY <1>1, Invariance, PTL

\* start returns from a pool that was not stopped only when the loop is over
\* and every connection is gone (http_server.cpp:119).
THEOREM NothingLeftBehind == Spec => []ReturnLeavesNothing
<1>1. IInv => ReturnLeavesNothing
  BY DEF IInv, LifeInv
<1> QED
  BY <1>1, Invariance, PTL

=============================================================================

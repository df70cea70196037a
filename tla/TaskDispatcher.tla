--------------------------- MODULE TaskDispatcher ---------------------------
(***************************************************************************)
(* NotificationQueue and AsyncTaskExecutor (src/concurrency/               *)
(* task_dispatcher.hpp): worker threads, each with a queue, and threads    *)
(* that hand them tasks.  Nothing in the repository uses them yet, nor     *)
(* starts the threads: run and RunTaskAsync are modelled as they are       *)
(* written, and there is one worker per queue.                             *)
(*                                                                         *)
(* What is done under a queue's lock is one step.  A lock that is only     *)
(* tried may be refused at any time: another thread has it, or the try     *)
(* fails spuriously, as std::mutex::try_lock is allowed to.                *)
(***************************************************************************)
EXTENDS Naturals, Sequences

CONSTANTS
  Workers,      \* workers_.size()
  Tasks,        \* the tasks that may be handed over, each by its own thread
  MovedFrom,    \* a task that was moved elsewhere: calling it throws
  NoTask        \* an empty optional

ASSUME WorkersAssumption == Workers \in Nat \ {0}
ASSUME TasksAssumption == MovedFrom \notin Tasks /\ NoTask \notin Tasks \cup {MovedFrom}

VARIABLES
  index_,       \* set by nobody: any value, the same for all
  queues_,
  caller,       \* per task, where RunTaskAsync is: at, i and the local task
  worker,       \* per worker, where run is: at, i and f
  ran,          \* history: how often each task was run
  terminated    \* an exception has left a thread

vars == <<index_, queues_, caller, worker, ran, terminated>>

Threads == 0..Workers - 1
Home == index_ % Workers
Nth(i) == (index_ + i) % Workers

Init ==
  /\ index_ \in Threads
  /\ queues_ = [q \in Threads |-> <<>>]
  /\ caller = [t \in Tasks |-> [at |-> "outside", i |-> 0, task |-> t]]
  /\ worker = [w \in Threads |-> [at |-> "TryPop", i |-> 0, f |-> NoTask]]
  /\ ran = [t \in Tasks |-> 0]
  /\ terminated = FALSE

-----------------------------------------------------------------------------
(* RunTaskAsync. *)

Enqueue(q, task) == queues_' = [queues_ EXCEPT ![q] = Append(@, task)]

\* notify_one of a queue's task_awaiter_: all who wait do so at one queue.
Waiting == {w \in Threads : worker[w].at = "wait"}
NotifyOne(q) ==
  IF q = Home /\ Waiting # {}
  THEN \E w \in Waiting : worker' = [worker EXCEPT ![w].at = "Pop"]
  ELSE UNCHANGED worker

\* The loop goes on with the next queue, or ends.
NextQueue(c) == IF c.i + 1 < Workers THEN [c EXCEPT !.at = "TryPush", !.i = @ + 1]
                ELSE [c EXCEPT !.at = "Push"]

Call(t) ==
  /\ caller[t].at = "outside"
  /\ caller' = [caller EXCEPT ![t].at = "TryPush"]
  /\ UNCHANGED <<index_, queues_, worker, ran, terminated>>

TryPush(t) ==
  /\ caller[t].at = "TryPush"
  /\ \/ caller' = [caller EXCEPT ![t] = NextQueue(@)] /\ UNCHANGED queues_
     \/ /\ Enqueue(Nth(caller[t].i), caller[t].task)
        /\ caller' = [caller EXCEPT ![t].at = "notify", ![t].task = MovedFrom]
  /\ UNCHANGED <<index_, worker, ran, terminated>>

\* The lock is released before.  TryPush then ends without a return: the caller
\* may find either value.
Notify(t) ==
  /\ caller[t].at = "notify"
  /\ NotifyOne(Nth(caller[t].i))
  /\ \/ caller' = [caller EXCEPT ![t].at = "Push"]
     \/ caller' = [caller EXCEPT ![t] = NextQueue(@)]
  /\ UNCHANGED <<index_, queues_, ran, terminated>>

\* Mistake: nobody is notified.
PushSilently(t) ==
  /\ caller[t].at = "Push"
  /\ Enqueue(Home, caller[t].task)
  /\ caller' = [caller EXCEPT ![t].at = "returned"]
  /\ UNCHANGED <<index_, worker, ran, terminated>>

\* Whatever the loop did, the task, or what is left of it, is pushed again.
Push(t) ==
  /\ caller[t].at = "Push"
  /\ Enqueue(Home, caller[t].task) /\ NotifyOne(Home)
  /\ caller' = [caller EXCEPT ![t].at = "returned"]
  /\ UNCHANGED <<index_, ran, terminated>>

-----------------------------------------------------------------------------
(* run. *)

Take(w, q) ==
  /\ queues_[q] # <<>>
  /\ queues_' = [queues_ EXCEPT ![q] = Tail(@)]
  /\ worker' = [worker EXCEPT ![w] = [at |-> "call", i |-> 0, f |-> Head(queues_[q])]]

\* The loop goes on with the next queue, or has found nothing.
NextTry(x) == IF x.i + 1 < Workers THEN [x EXCEPT !.i = @ + 1] ELSE [x EXCEPT !.at = "Pop"]

TryPop(w) ==
  /\ worker[w].at = "TryPop"
  /\ \/ Take(w, Nth(worker[w].i))
     \/ worker' = [worker EXCEPT ![w] = NextTry(@)] /\ UNCHANGED queues_
  /\ UNCHANGED <<index_, caller, ran, terminated>>

\* Mistake: Pop does not wait.
PopOnce(w) ==
  /\ worker[w].at = "Pop"
  /\ \/ Take(w, Home)
     \/ /\ queues_[Home] = <<>>
        /\ worker' = [worker EXCEPT ![w].at = "ended"]
        /\ UNCHANGED queues_
  /\ UNCHANGED <<index_, caller, ran, terminated>>

\* done_ stays false, so a worker that finds nothing waits, and looks again when
\* it was notified.
Pop(w) ==
  /\ worker[w].at = "Pop"
  /\ \/ Take(w, Home)
     \/ /\ queues_[Home] = <<>>
        /\ worker' = [worker EXCEPT ![w].at = "wait"]
        /\ UNCHANGED queues_
  /\ UNCHANGED <<index_, caller, ran, terminated>>

\* A packaged_task keeps what its function throws; without one the call throws,
\* and nothing in run catches it.
CallTask(w) ==
  /\ worker[w].at = "call"
  /\ worker' = [worker EXCEPT ![w] = [at |-> "TryPop", i |-> 0, f |-> NoTask]]
  /\ IF worker[w].f = MovedFrom THEN terminated' = TRUE /\ UNCHANGED ran
     ELSE ran' = [ran EXCEPT ![worker[w].f] = @ + 1] /\ UNCHANGED terminated
  /\ UNCHANGED <<index_, queues_, caller>>

-----------------------------------------------------------------------------

CallerStep(t) == ~terminated /\ (TryPush(t) \/ Notify(t) \/ Push(t))
WorkerStep(w) == ~terminated /\ (TryPop(w) \/ Pop(w) \/ CallTask(w))

Next ==
  \/ \E t \in Tasks : (~terminated /\ Call(t)) \/ CallerStep(t)
  \/ \E w \in Threads : WorkerStep(w)

\* Every thread is scheduled; nobody has to hand over a task.
Spec ==
  /\ Init /\ [][Next]_vars
  /\ \A t \in Tasks : WF_vars(CallerStep(t))
  /\ \A w \in Threads : WF_vars(WorkerStep(w))

-----------------------------------------------------------------------------

\* A task that TryPush has taken over brings the process down: what is left of
\* it is pushed behind it (task_dispatcher.hpp:124), and the worker that calls
\* that throws.  No notification gets lost on the way, whichever queue it is.
TakenTaskTerminates ==
  \A t \in Tasks : (caller[t].task = MovedFrom) ~> terminated

\* Only then does a worker end: it comes to wait for good, for nothing sets done_
\* (lines 75 and 92), and by then has run every task handed over once, however
\* the threads that share a queue took turns.
WorkersWaitForever ==
  <>[](terminated \/ /\ Waiting = Threads
                     /\ \A t \in Tasks : ran[t] = IF caller[t].at = "outside" THEN 0 ELSE 1)

=============================================================================

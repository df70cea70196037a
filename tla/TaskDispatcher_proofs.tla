----------------------- MODULE TaskDispatcher_proofs -----------------------
(***************************************************************************)
(* What AsyncTaskExecutor guarantees of every step, for any number of      *)
(* workers and tasks.                                                      *)
(***************************************************************************)
EXTENDS TaskDispatcher, TLAPS, FiniteSetTheorems, SequenceTheorems

\* What may be in a queue.
Items == Tasks \cup {MovedFrom}

CallerVariables == [at : {"outside", "TryPush", "notify", "Push", "returned"},
                    i : Threads, task : Items]
WorkerVariables == [at : {"TryPop", "Pop", "wait", "call"}, i : Threads, f : Items \cup {NoTask}]

TypeOK ==
  /\ index_ \in Threads
  /\ queues_ \in [Threads -> Seq(Items)]
  /\ caller \in [Tasks -> CallerVariables]
  /\ worker \in [Threads -> WorkerVariables]
  /\ ran \in [Tasks -> Nat]
  /\ terminated \in BOOLEAN

\* A thread has its own task or what is left of it; a worker has one while it
\* calls it.
OwnTask ==
  /\ \A t \in Tasks :
       /\ caller[t].task \in {t, MovedFrom}
       /\ caller[t].at = "outside" => caller[t].task = t
       /\ caller[t].at = "notify" => caller[t].task = MovedFrom
  /\ \A w \in Threads : worker[w].f = NoTask <=> worker[w].at # "call"

\* The places of a task: where its caller has it, a place in a queue, a worker.
Held(t) == caller[t].task = t /\ caller[t].at # "returned"
In(t, q, j) == j \in 1..Len(queues_[q]) /\ queues_[q][j] = t
Queued(t) == \E q \in Threads, j \in Nat : In(t, q, j)
Taken(t) == \E w \in Threads : worker[w].f = t

\* A task is in one place, until it has been run, once.
OneSlot(t) ==
  \A q, r \in Threads, i, j \in Nat : In(t, q, i) /\ In(t, r, j) => q = r /\ i = j
OneTaker(t) == \A v, w \in Threads : worker[v].f = t /\ worker[w].f = t => v = w
OnePlace ==
  \A t \in Tasks :
    /\ ran[t] = IF Held(t) \/ Queued(t) \/ Taken(t) THEN 0 ELSE 1
    /\ ~(Held(t) /\ Queued(t)) /\ ~(Held(t) /\ Taken(t)) /\ ~(Queued(t) /\ Taken(t))
    /\ OneSlot(t) /\ OneTaker(t)

\* What throws is what TryPush has moved from.
OnlyMovedFrom ==
  Queued(MovedFrom) \/ Taken(MovedFrom) \/ terminated
    => \E t \in Tasks : caller[t].task = MovedFrom

\* The notifications on their way to those who wait: of the threads that have
\* pushed, and of the workers that were woken or have not slept yet.
Notifying == {t \in Tasks : caller[t].at = "notify" /\ Nth(caller[t].i) = Home}
Awake == {w \in Threads : worker[w].at = "Pop"}

\* While a worker waits there is one for each task in its queue.
NoWakeupLost ==
  Waiting # {} =>
    Len(queues_[Home]) <= Cardinality(Notifying) + Cardinality(Awake)

\* The inductive invariant.
Safe == TypeOK /\ OwnTask /\ OnePlace /\ OnlyMovedFrom
IInv == Safe /\ IsFiniteSet(Notifying) /\ NoWakeupLost

-----------------------------------------------------------------------------
(* The queues. *)

LEMMA QueueIndex ==
  ASSUME TypeOK
  PROVE  /\ 0 \in Threads /\ Home \in Threads
         /\ \A i \in Threads : Nth(i) \in Threads /\ (i + 1 < Workers => i + 1 \in Threads)
<1>1. Workers \in Nat /\ Workers > 0 /\ index_ \in Nat
  BY WorkersAssumption DEF TypeOK, Threads
<1>2. \A n \in Nat : n % Workers \in 0..Workers - 1
  BY <1>1
<1>3. \A i \in Threads : i \in Nat /\ index_ + i \in Nat
  BY <1>1 DEF Threads
<1> QED
  BY <1>1, <1>2, <1>3 DEF Threads, Home, Nth

\* Pushed behind the others.
LEMMA EnqueueStep ==
  ASSUME TypeOK, NEW q \in Threads, NEW x \in Items, Enqueue(q, x)
  PROVE  /\ queues_' \in [Threads -> Seq(Items)]
         /\ \A r \in Threads :
              Len(queues_'[r]) = IF r = q THEN Len(queues_[r]) + 1 ELSE Len(queues_[r])
         /\ \A r \in Threads, j \in Nat : \A t :
              In(t, r, j)' <=> In(t, r, j) \/ (r = q /\ j = Len(queues_[q]) + 1 /\ t = x)
         /\ \A t : Queued(t)' <=> Queued(t) \/ t = x
<1> DEFINE s == queues_[q]
<1>1. queues_ \in [Threads -> Seq(Items)] /\ s \in Seq(Items) /\ Len(s) \in Nat
  BY DEF TypeOK
<1>2. queues_' = [queues_ EXCEPT ![q] = Append(s, x)]
  BY DEF Enqueue
<1>3. /\ Append(s, x) \in Seq(Items) /\ Len(Append(s, x)) = Len(s) + 1
      /\ \A j \in 1..Len(s) : Append(s, x)[j] = s[j]
      /\ Append(s, x)[Len(s) + 1] = x
  BY <1>1, AppendProperties
<1> HIDE DEF s
<1>4. /\ queues_' \in [Threads -> Seq(Items)] /\ queues_'[q] = Append(s, x)
      /\ \A r \in Threads \ {q} : queues_'[r] = queues_[r]
  BY <1>1, <1>2, <1>3
<1>5. \A r \in Threads, j \in Nat : \A t :
        In(t, r, j)' <=> In(t, r, j) \/ (r = q /\ j = Len(s) + 1 /\ t = x)
  <2> SUFFICES ASSUME NEW r \in Threads, NEW j \in Nat, NEW t
               PROVE  In(t, r, j)' <=> In(t, r, j) \/ (r = q /\ j = Len(s) + 1 /\ t = x)
    OBVIOUS
  <2>1. CASE r = q
    <3>1. j \in 1..Len(s) + 1 <=> j \in 1..Len(s) \/ j = Len(s) + 1
      BY <1>1
    <3>2. In(t, q, j)' <=> j \in 1..Len(s) + 1 /\ Append(s, x)[j] = t
      BY <1>3, <1>4 DEF In
    <3>3. In(t, q, j) <=> j \in 1..Len(s) /\ s[j] = t
      BY DEF In, s
    <3>4. j = Len(s) + 1 => j \notin 1..Len(s)
      BY <1>1
    <3> QED
      BY <1>3, <2>1, <3>1, <3>2, <3>3, <3>4
  <2>2. CASE r # q
    BY <1>4, <2>2 DEF In
  <2> QED
    BY <2>1, <2>2
<1>6. Len(s) + 1 \in Nat
  BY <1>1
<1> QED
  BY <1>1, <1>3, <1>4, <1>5, <1>6 DEF Queued, s

\* Taken from the front.
LEMMA TakeStep ==
  ASSUME TypeOK, NEW w \in Threads, NEW q \in Threads, Take(w, q),
         NEW x, x = queues_[q][1]
  PROVE  /\ queues_' \in [Threads -> Seq(Items)] /\ x \in Items /\ In(x, q, 1)
         /\ \A r \in Threads :
              Len(queues_'[r]) = IF r = q THEN Len(queues_[r]) - 1 ELSE Len(queues_[r])
         /\ \A r \in Threads, j \in Nat : \A t :
              In(t, r, j)' <=> IF r = q THEN j > 0 /\ In(t, q, j + 1) ELSE In(t, r, j)
         /\ worker' = [worker EXCEPT ![w] = [at |-> "call", i |-> 0, f |-> x]]
<1> DEFINE s == queues_[q]
<1>1. queues_ \in [Threads -> Seq(Items)] /\ s \in Seq(Items) /\ Len(s) \in Nat /\ s # <<>>
  BY DEF TypeOK, Take
<1>2. queues_' = [queues_ EXCEPT ![q] = Tail(s)]
  BY DEF Take
<1>3. /\ Head(s) = s[1] /\ s[1] \in Items /\ Len(s) > 0
      /\ Tail(s) \in Seq(Items) /\ Len(Tail(s)) = Len(s) - 1
      /\ \A j \in 1..Len(s) - 1 : Tail(s)[j] = s[j + 1]
  BY <1>1, HeadTailProperties, EmptySeq, ElementOfSeq
<1> HIDE DEF s
<1>4. /\ queues_' \in [Threads -> Seq(Items)] /\ queues_'[q] = Tail(s)
      /\ \A r \in Threads \ {q} : queues_'[r] = queues_[r]
  BY <1>1, <1>2, <1>3
<1>5. \A r \in Threads, j \in Nat : \A t :
        In(t, r, j)' <=> IF r = q THEN j > 0 /\ In(t, q, j + 1) ELSE In(t, r, j)
  <2> SUFFICES ASSUME NEW r \in Threads, NEW j \in Nat, NEW t
               PROVE  In(t, r, j)' <=>
                        IF r = q THEN j > 0 /\ In(t, q, j + 1) ELSE In(t, r, j)
    OBVIOUS
  <2>1. CASE r = q
    <3>1. j \in 1..Len(s) - 1 <=> j > 0 /\ j + 1 \in 1..Len(s)
      BY <1>1
    <3> QED
      BY <1>1, <1>3, <1>4, <2>1, <3>1 DEF In, s
  <2>2. CASE r # q
    BY <1>4, <2>2 DEF In
  <2> QED
    BY <2>1, <2>2
<1>6. worker' = [worker EXCEPT ![w] = [at |-> "call", i |-> 0, f |-> x]]
  BY <1>3 DEF Take, s
<1>7. In(x, q, 1) /\ x \in Items
  BY <1>1, <1>3 DEF In, s
<1> QED
  BY <1>1, <1>3, <1>4, <1>5, <1>6, <1>7 DEF s

-----------------------------------------------------------------------------
(* The types. *)

LEMMA InitInv == Init => IInv
<1> SUFFICES ASSUME Init PROVE IInv
  OBVIOUS
<1>1. TypeOK
  <2>1. 0 \in Threads
    BY WorkersAssumption DEF Threads
  <2>2. queues_ \in [Threads -> Seq(Items)]
    BY EmptySeq DEF Init
  <2>3. caller \in [Tasks -> CallerVariables]
    BY <2>1 DEF Init, Items, CallerVariables
  <2>4. /\ worker \in [Threads -> WorkerVariables]
        /\ ran \in [Tasks -> Nat]
    BY <2>1 DEF Init, WorkerVariables
  <2> QED
    BY <2>2, <2>3, <2>4 DEF Init, TypeOK
<1>q. \A t : ~Queued(t)
  <2>1. \A q \in Threads : queues_[q] = <<>> /\ Len(queues_[q]) = 0
    BY DEF Init
  <2> QED
    BY <2>1 DEF Queued, In
<1>2. /\ \A t : ~Queued(t)
      /\ \A w \in Threads : worker[w].f = NoTask /\ worker[w].at = "TryPop"
      /\ \A t \in Tasks : caller[t].at = "outside" /\ caller[t].task = t /\ ran[t] = 0
      /\ terminated = FALSE
  BY <1>q DEF Init
<1>3. OwnTask
  BY <1>2 DEF OwnTask
<1>4. OnePlace
  <2>1. \A t \in Tasks : OneSlot(t)
    BY <1>2 DEF OneSlot, Queued
  <2>2. \A t \in Tasks : ~Taken(t) /\ OneTaker(t) /\ Held(t)
    BY <1>2, TasksAssumption DEF Taken, OneTaker, Held
  <2> QED
    BY <1>2, <2>1, <2>2 DEF OnePlace
<1>5. OnlyMovedFrom
  BY <1>2, TasksAssumption DEF OnlyMovedFrom, Taken
<1>6. Notifying = {} /\ Waiting = {}
  BY <1>2 DEF Notifying, Waiting
<1> QED
  BY <1>1, <1>3, <1>4, <1>5, <1>6, FS_EmptySet DEF IInv, Safe, NoWakeupLost

\* What NotifyOne does to the workers.
LEMMA NotifyOneStep ==
  ASSUME TypeOK, OwnTask, NEW q \in Threads, NotifyOne(q)
  PROVE  /\ worker' \in [Threads -> WorkerVariables]
         /\ \A w \in Threads : /\ worker'[w].f = worker[w].f
                               /\ worker'[w].at = "call" <=> worker[w].at = "call"
         /\ \/ worker' = worker /\ (q # Home \/ Waiting = {})
            \/ \E w \in Waiting : /\ q = Home
                                  /\ worker' = [worker EXCEPT ![w].at = "Pop"]
<1>1. CASE q = Home /\ Waiting # {}
  <2>1. PICK w \in Waiting : worker' = [worker EXCEPT ![w].at = "Pop"]
    BY <1>1 DEF NotifyOne
  <2>2. w \in Threads /\ worker[w].at = "wait"
    BY DEF Waiting
  <2>3. worker[w] \in WorkerVariables
    BY <2>2 DEF TypeOK
  <2>4. /\ worker' \in [Threads -> WorkerVariables]
        /\ worker'[w].f = worker[w].f /\ worker'[w].at = "Pop"
        /\ \A v \in Threads : v # w => worker'[v] = worker[v]
    BY <2>1, <2>2, <2>3 DEF TypeOK, WorkerVariables
  <2> QED
    BY <1>1, <2>1, <2>2, <2>4
<1>2. CASE q # Home \/ Waiting = {}
  BY <1>2 DEF NotifyOne, TypeOK
<1> QED
  BY <1>1, <1>2

LEMMA NextQueueType ==
  ASSUME TypeOK, NEW t \in Tasks
  PROVE  /\ NextQueue(caller[t]) \in CallerVariables
         /\ NextQueue(caller[t]).at \in {"TryPush", "Push"}
         /\ NextQueue(caller[t]).task = caller[t].task
<1>1. /\ caller[t] \in CallerVariables
      /\ caller[t].i + 1 < Workers => caller[t].i + 1 \in Threads
  BY QueueIndex DEF TypeOK, CallerVariables
<1> QED
  BY <1>1 DEF NextQueue, CallerVariables

\* One thread's variables change.
LEMMA OneCaller ==
  ASSUME TypeOK, NEW t \in Tasks, NEW c \in CallerVariables, caller' = [caller EXCEPT ![t] = c]
  PROVE  /\ caller' \in [Tasks -> CallerVariables] /\ caller'[t] = c
         /\ \A u \in Tasks : u # t => caller'[u] = caller[u]
BY DEF TypeOK

LEMMA OneWorker ==
  ASSUME TypeOK, NEW w \in Threads, NEW x \in WorkerVariables, worker' = [worker EXCEPT ![w] = x]
  PROVE  /\ worker' \in [Threads -> WorkerVariables] /\ worker'[w] = x
         /\ \A v \in Threads : v # w => worker'[v] = worker[v]
BY DEF TypeOK

\* What each step does to a thread's variables.
LEMMA CallStep ==
  ASSUME TypeOK, NEW t \in Tasks, Call(t)
  PROVE  /\ caller' \in [Tasks -> CallerVariables]
         /\ caller[t].at = "outside" /\ caller'[t].at = "TryPush"
         /\ caller'[t].task = caller[t].task
         /\ \A u \in Tasks : u # t => caller'[u] = caller[u]
<1> DEFINE c == [caller[t] EXCEPT !.at = "TryPush"]
<1>1. c \in CallerVariables /\ c.at = "TryPush" /\ c.task = caller[t].task
  BY DEF TypeOK, CallerVariables
<1>2. caller' = [caller EXCEPT ![t] = c] /\ caller[t].at = "outside"
  BY DEF Call
<1> HIDE DEF c
<1> QED
  BY <1>1, <1>2, OneCaller

LEMMA TryPushStep ==
  ASSUME TypeOK, NEW t \in Tasks, TryPush(t)
  PROVE  /\ caller' \in [Tasks -> CallerVariables] /\ caller[t].at = "TryPush"
         /\ \A u \in Tasks : u # t => caller'[u] = caller[u]
         /\ \/ /\ caller'[t].at \in {"TryPush", "Push"} /\ caller'[t].task = caller[t].task
               /\ UNCHANGED queues_
            \/ /\ caller'[t].at = "notify" /\ caller'[t].task = MovedFrom
               /\ caller'[t].i = caller[t].i
               /\ Enqueue(Nth(caller[t].i), caller[t].task)
<1>1. ASSUME caller' = [caller EXCEPT ![t] = NextQueue(@)]
      PROVE  /\ caller' \in [Tasks -> CallerVariables]
             /\ \A u \in Tasks : u # t => caller'[u] = caller[u]
             /\ caller'[t].at \in {"TryPush", "Push"} /\ caller'[t].task = caller[t].task
  BY <1>1, NextQueueType, OneCaller
<1>2. ASSUME caller' = [caller EXCEPT ![t].at = "notify", ![t].task = MovedFrom]
      PROVE  /\ caller' \in [Tasks -> CallerVariables]
             /\ \A u \in Tasks : u # t => caller'[u] = caller[u]
             /\ caller'[t].at = "notify" /\ caller'[t].task = MovedFrom
             /\ caller'[t].i = caller[t].i
  <2> DEFINE c == [caller[t] EXCEPT !.at = "notify", !.task = MovedFrom]
  <2>1. c \in CallerVariables /\ c.at = "notify" /\ c.task = MovedFrom /\ c.i = caller[t].i
    BY DEF TypeOK, CallerVariables, Items
  <2>2. caller' = [caller EXCEPT ![t] = c]
    BY <1>2 DEF TypeOK
  <2> HIDE DEF c
  <2> QED
    BY <2>1, <2>2, OneCaller
<1>3. caller[t].at = "TryPush"
  BY DEF TryPush
<1>4. \/ caller' = [caller EXCEPT ![t] = NextQueue(@)] /\ UNCHANGED queues_
      \/ /\ Enqueue(Nth(caller[t].i), caller[t].task)
         /\ caller' = [caller EXCEPT ![t].at = "notify", ![t].task = MovedFrom]
  BY DEF TryPush
<1> QED
  BY <1>1, <1>2, <1>3, <1>4

LEMMA NotifyStep ==
  ASSUME TypeOK, NEW t \in Tasks, Notify(t)
  PROVE  /\ caller' \in [Tasks -> CallerVariables] /\ caller[t].at = "notify"
         /\ \A u \in Tasks : u # t => caller'[u] = caller[u]
         /\ caller'[t].at \in {"TryPush", "Push"} /\ caller'[t].task = caller[t].task
<1> DEFINE c == [caller[t] EXCEPT !.at = "Push"]
<1>1. c \in CallerVariables /\ c.at = "Push" /\ c.task = caller[t].task
  BY DEF TypeOK, CallerVariables
<1>2. \/ caller' = [caller EXCEPT ![t] = c] \/ caller' = [caller EXCEPT ![t] = NextQueue(caller[t])]
  BY DEF Notify
<1>3. caller[t].at = "notify"
  BY DEF Notify
<1> HIDE DEF c
<1> QED
  BY <1>1, <1>2, <1>3, NextQueueType, OneCaller

LEMMA PushStep ==
  ASSUME TypeOK, NEW t \in Tasks, Push(t)
  PROVE  /\ caller' \in [Tasks -> CallerVariables] /\ caller[t].at = "Push"
         /\ \A u \in Tasks : u # t => caller'[u] = caller[u]
         /\ caller'[t].at = "returned" /\ caller'[t].task = caller[t].task
<1> DEFINE c == [caller[t] EXCEPT !.at = "returned"]
<1>1. c \in CallerVariables /\ c.at = "returned" /\ c.task = caller[t].task
  BY DEF TypeOK, CallerVariables
<1>2. caller' = [caller EXCEPT ![t] = c] /\ caller[t].at = "Push"
  BY DEF Push
<1> HIDE DEF c
<1> QED
  BY <1>1, <1>2, OneCaller

LEMMA TakeWorker ==
  ASSUME TypeOK, NEW w \in Threads, NEW q \in Threads, Take(w, q), NEW x, x = queues_[q][1]
  PROVE  /\ worker' \in [Threads -> WorkerVariables]
         /\ worker'[w].at = "call" /\ worker'[w].f = x
         /\ \A v \in Threads : v # w => worker'[v] = worker[v]
<1> DEFINE y == [at |-> "call", i |-> 0, f |-> x]
<1>1. y \in WorkerVariables /\ y.at = "call" /\ y.f = x
  BY QueueIndex, TakeStep DEF WorkerVariables
<1>2. worker' = [worker EXCEPT ![w] = y]
  BY TakeStep
<1> HIDE DEF y
<1> QED
  BY <1>1, <1>2, OneWorker

LEMMA TryPopStep ==
  ASSUME TypeOK, NEW w \in Threads, TryPop(w)
  PROVE  /\ worker[w].at = "TryPop"
         /\ \/ \E q \in Threads : Take(w, q)
            \/ /\ worker' \in [Threads -> WorkerVariables]
               /\ worker'[w].at \in {"TryPop", "Pop"} /\ worker'[w].f = worker[w].f
               /\ \A v \in Threads : v # w => worker'[v] = worker[v]
               /\ UNCHANGED queues_
<1> DEFINE y == NextTry(worker[w])
<1>0. worker[w] \in WorkerVariables
  BY DEF TypeOK
<1>1. /\ Nth(worker[w].i) \in Threads
      /\ worker[w].i + 1 < Workers => worker[w].i + 1 \in Threads
  BY QueueIndex DEF TypeOK, WorkerVariables
<1>2. worker[w].at = "TryPop"
  BY DEF TryPop
<1>3. y \in WorkerVariables /\ y.at \in {"TryPop", "Pop"} /\ y.f = worker[w].f
  BY <1>0, <1>1, <1>2 DEF WorkerVariables, NextTry
<1>4. Take(w, Nth(worker[w].i)) \/ (worker' = [worker EXCEPT ![w] = y] /\ UNCHANGED queues_)
  BY DEF TryPop
<1> HIDE DEF y
<1> QED
  BY <1>1, <1>2, <1>3, <1>4, OneWorker

LEMMA PopStep ==
  ASSUME TypeOK, NEW w \in Threads, Pop(w)
  PROVE  /\ worker[w].at = "Pop"
         /\ \/ Take(w, Home)
            \/ /\ worker' \in [Threads -> WorkerVariables]
               /\ worker'[w].at = "wait" /\ worker'[w].f = worker[w].f
               /\ \A v \in Threads : v # w => worker'[v] = worker[v]
               /\ queues_[Home] = <<>> /\ UNCHANGED queues_
<1> DEFINE y == [worker[w] EXCEPT !.at = "wait"]
<1>0. worker[w] \in WorkerVariables
  BY DEF TypeOK
<1>1. y \in WorkerVariables /\ y.at = "wait" /\ y.f = worker[w].f
  BY <1>0 DEF WorkerVariables
<1>2. /\ worker[w].at = "Pop"
      /\ \/ Take(w, Home)
         \/ queues_[Home] = <<>> /\ worker' = [worker EXCEPT ![w] = y] /\ UNCHANGED queues_
  BY DEF Pop
<1> HIDE DEF y
<1> QED
  BY <1>1, <1>2, OneWorker

LEMMA CallTaskStep ==
  ASSUME TypeOK, OwnTask, NEW w \in Threads, CallTask(w)
  PROVE  /\ worker' \in [Threads -> WorkerVariables] /\ worker[w].at = "call"
         /\ worker'[w].at = "TryPop" /\ worker'[w].f = NoTask
         /\ \A v \in Threads : v # w => worker'[v] = worker[v]
         /\ \/ worker[w].f = MovedFrom /\ terminated' /\ ran' = ran
            \/ /\ worker[w].f \in Tasks /\ terminated' = terminated
               /\ ran' = [ran EXCEPT ![worker[w].f] = @ + 1]
<1> DEFINE y == [at |-> "TryPop", i |-> 0, f |-> NoTask]
<1>1. y \in WorkerVariables /\ y.at = "TryPop" /\ y.f = NoTask
  BY QueueIndex DEF WorkerVariables
<1>2. worker' = [worker EXCEPT ![w] = y] /\ worker[w].at = "call"
  BY DEF CallTask
<1>3. worker[w].f \in Items
  BY <1>2 DEF TypeOK, OwnTask, WorkerVariables
<1>4. \/ worker[w].f = MovedFrom /\ terminated' /\ ran' = ran
      \/ /\ worker[w].f \in Tasks /\ terminated' = terminated
         /\ ran' = [ran EXCEPT ![worker[w].f] = @ + 1]
  BY <1>3 DEF CallTask, Items
<1> HIDE DEF y
<1> QED
  BY <1>1, <1>2, <1>4, OneWorker

-----------------------------------------------------------------------------
(* One place. *)

LEMMA PlacesKept ==
  ASSUME UNCHANGED queues_
  PROVE  \A t : (Queued(t)' <=> Queued(t)) /\ (OneSlot(t)' <=> OneSlot(t))
BY DEF Queued, OneSlot, In

LEMMA TakersKept ==
  ASSUME \A w \in Threads : worker'[w].f = worker[w].f
  PROVE  \A t : (Taken(t)' <=> Taken(t)) /\ (OneTaker(t)' <=> OneTaker(t))
BY DEF Taken, OneTaker

LEMMA EnqueuePlaces ==
  ASSUME TypeOK, NEW q \in Threads, NEW x \in Items, Enqueue(q, x), NEW t, OneSlot(t),
         t = x => ~Queued(t)
  PROVE  OneSlot(t)'
<1>1. \A r \in Threads, j \in Nat :
        In(t, r, j)' <=> In(t, r, j) \/ (r = q /\ j = Len(queues_[q]) + 1 /\ t = x)
  BY EnqueueStep
<1>2. t = x => \A r \in Threads, j \in Nat : ~In(t, r, j)
  BY DEF Queued
<1> QED
  BY <1>1, <1>2 DEF OneSlot

LEMMA TakePlaces ==
  ASSUME TypeOK, NEW w \in Threads, NEW q \in Threads, Take(w, q), NEW x, x = queues_[q][1]
  PROVE  /\ Queued(x) /\ x \in Items
         /\ \A t : Queued(t)' => Queued(t)
         /\ \A t : OneSlot(t) => OneSlot(t)' /\ (Queued(t)' <=> Queued(t) /\ t # x)
<1>1. /\ In(x, q, 1) /\ x \in Items
      /\ \A r \in Threads, j \in Nat : \A t :
           In(t, r, j)' <=> IF r = q THEN j > 0 /\ In(t, q, j + 1) ELSE In(t, r, j)
  BY TakeStep
<1>2. \A t : Queued(t)' => Queued(t)
  <2> SUFFICES ASSUME NEW t, NEW r \in Threads, NEW j \in Nat, In(t, r, j)' PROVE Queued(t)
    BY DEF Queued
  <2>1. j + 1 \in Nat
    OBVIOUS
  <2> QED
    BY <1>1, <2>1 DEF Queued
<1>3. ASSUME NEW t, OneSlot(t) PROVE OneSlot(t)'
  <2> SUFFICES ASSUME NEW r \in Threads, NEW s \in Threads, NEW i \in Nat, NEW j \in Nat,
                      In(t, r, i)', In(t, s, j)'
               PROVE  r = s /\ i = j
    BY DEF OneSlot
  <2> DEFINE i1 == IF r = q THEN i + 1 ELSE i
             j1 == IF s = q THEN j + 1 ELSE j
  <2>1. In(t, r, i1) /\ In(t, s, j1) /\ i1 \in Nat /\ j1 \in Nat
    BY <1>1
  <2>2. r = s /\ i1 = j1
    BY <1>3, <2>1 DEF OneSlot
  <2> QED
    BY <2>2
<1>4. ASSUME NEW t, OneSlot(t), Queued(t), t # x PROVE Queued(t)'
  <2>1. PICK r \in Threads, j \in Nat : In(t, r, j)
    BY <1>4 DEF Queued
  <2>2. CASE r = q
    <3>1. j # 1 /\ j > 0
      BY <1>1, <1>4, <2>1, <2>2 DEF In
    <3>2. j - 1 \in Nat /\ j - 1 > 0 /\ (j - 1) + 1 = j
      BY <3>1
    <3>3. In(t, q, j - 1)'
      BY <1>1, <2>1, <2>2, <3>2
    <3> QED
      BY <3>2, <3>3 DEF Queued
  <2>3. CASE r # q
    BY <1>1, <2>1, <2>3 DEF Queued
  <2> QED
    BY <2>2, <2>3
<1>5. ASSUME NEW t, OneSlot(t), t = x PROVE ~Queued(t)'
  <2> SUFFICES ASSUME NEW r \in Threads, NEW j \in Nat, In(t, r, j)' PROVE FALSE
    BY DEF Queued
  <2> DEFINE k == IF r = q THEN j + 1 ELSE j
  <2>1. In(t, r, k) /\ k \in Nat /\ (r = q => k > 1)
    BY <1>1
  <2>2. r = q /\ k = 1
    BY <1>1, <1>5, <2>1 DEF OneSlot
  <2> QED
    BY <2>1, <2>2
<1> QED
  BY <1>1, <1>2, <1>3, <1>4, <1>5 DEF Queued

-----------------------------------------------------------------------------
(* The steps. *)

LEMMA CallSafe == ASSUME Safe, NEW t \in Tasks, Call(t) PROVE Safe'
<1>1. /\ caller' \in [Tasks -> CallerVariables]
      /\ caller[t].at = "outside" /\ caller'[t].at = "TryPush"
      /\ caller'[t].task = caller[t].task
      /\ \A u \in Tasks : u # t => caller'[u] = caller[u]
  BY CallStep DEF Safe
<1>2. UNCHANGED <<index_, queues_, worker, ran, terminated>>
  BY DEF Call
<1>3. TypeOK'
  BY <1>1, <1>2 DEF Safe, TypeOK
<1>4. OwnTask'
  BY <1>1, <1>2 DEF Safe, OwnTask
<1>5. \A u \in Tasks : Held(u)' <=> Held(u)
  BY <1>1 DEF Held
<1>6. OnePlace'
  BY <1>2, <1>5, PlacesKept, TakersKept DEF Safe, OnePlace
<1>7. OnlyMovedFrom'
  BY <1>1, <1>2, PlacesKept, TakersKept DEF Safe, OnlyMovedFrom
<1> QED
  BY <1>3, <1>4, <1>6, <1>7 DEF Safe

LEMMA TryPushSafe == ASSUME Safe, NEW t \in Tasks, TryPush(t) PROVE Safe'
<1>1. /\ caller' \in [Tasks -> CallerVariables] /\ caller[t].at = "TryPush"
      /\ \A u \in Tasks : u # t => caller'[u] = caller[u]
      /\ \/ /\ caller'[t].at \in {"TryPush", "Push"} /\ caller'[t].task = caller[t].task
            /\ UNCHANGED queues_
         \/ /\ caller'[t].at = "notify" /\ caller'[t].task = MovedFrom
            /\ Enqueue(Nth(caller[t].i), caller[t].task)
  BY TryPushStep DEF Safe
<1>2. UNCHANGED <<index_, worker, ran, terminated>>
  BY DEF TryPush
<1>3. /\ caller[t].task \in Items /\ Nth(caller[t].i) \in Threads
      /\ caller[t].task \in {t, MovedFrom}
  BY QueueIndex DEF Safe, TypeOK, CallerVariables, OwnTask
<1>4. OwnTask'
  BY <1>1, <1>2 DEF Safe, OwnTask
<1>5. CASE UNCHANGED queues_ /\ caller'[t].at \in {"TryPush", "Push"}
           /\ caller'[t].task = caller[t].task
  <2>1. TypeOK'
    BY <1>1, <1>2, <1>5 DEF Safe, TypeOK
  <2>2. \A u \in Tasks : Held(u)' <=> Held(u)
    BY <1>1, <1>5 DEF Held
  <2>3. OnePlace'
    BY <1>2, <1>5, <2>2, PlacesKept, TakersKept DEF Safe, OnePlace
  <2>4. OnlyMovedFrom'
    BY <1>1, <1>2, <1>5, PlacesKept, TakersKept DEF Safe, OnlyMovedFrom
  <2> QED
    BY <1>4, <2>1, <2>3, <2>4 DEF Safe
<1>6. CASE /\ caller'[t].at = "notify" /\ caller'[t].task = MovedFrom
           /\ Enqueue(Nth(caller[t].i), caller[t].task)
  <2> DEFINE x == caller[t].task
  <2>1. /\ queues_' \in [Threads -> Seq(Items)]
        /\ \A u : Queued(u)' <=> Queued(u) \/ u = x
    BY <1>3, <1>6, EnqueueStep DEF Safe
  <2>2. TypeOK'
    BY <1>1, <1>2, <2>1 DEF Safe, TypeOK
  <2>3. x = t => Held(t)
    BY <1>1 DEF Held
  <2>4. ~Held(t)' /\ \A u \in Tasks : u # t => (Held(u)' <=> Held(u))
    BY <1>1, <1>6, TasksAssumption DEF Held
  <2>5. \A u \in Tasks : u = x <=> u = t /\ Held(t)
    BY <1>1, <1>3, <2>3, TasksAssumption DEF Held
  <2>6. \A u \in Tasks : OneSlot(u)'
    BY <1>3, <1>6, <2>5, EnqueuePlaces DEF Safe, OnePlace
  <2>7. OnePlace'
    BY <1>2, <2>1, <2>4, <2>5, <2>6, TakersKept DEF Safe, OnePlace
  <2>8. OnlyMovedFrom'
    BY <1>6 DEF OnlyMovedFrom
  <2> QED
    BY <1>4, <2>2, <2>7, <2>8 DEF Safe
<1> QED
  BY <1>1, <1>5, <1>6

LEMMA NotifySafe == ASSUME Safe, NEW t \in Tasks, Notify(t) PROVE Safe'
<1>1. /\ caller' \in [Tasks -> CallerVariables] /\ caller[t].at = "notify"
      /\ \A u \in Tasks : u # t => caller'[u] = caller[u]
      /\ caller'[t].at \in {"TryPush", "Push"} /\ caller'[t].task = caller[t].task
  BY NotifyStep DEF Safe
<1>2. UNCHANGED <<index_, queues_, ran, terminated>> /\ NotifyOne(Nth(caller[t].i))
  BY DEF Notify
<1>3. /\ worker' \in [Threads -> WorkerVariables]
      /\ \A w \in Threads : /\ worker'[w].f = worker[w].f
                            /\ worker'[w].at = "call" <=> worker[w].at = "call"
  BY <1>2, NotifyOneStep, QueueIndex DEF Safe, TypeOK, CallerVariables
<1>4. TypeOK'
  BY <1>1, <1>2, <1>3 DEF Safe, TypeOK
<1>5. OwnTask'
  BY <1>1, <1>2, <1>3 DEF Safe, OwnTask
<1>6. \A u \in Tasks : Held(u)' <=> Held(u)
  BY <1>1 DEF Held
<1>7. OnePlace'
  BY <1>2, <1>3, <1>6, PlacesKept, TakersKept DEF Safe, OnePlace
<1>8. OnlyMovedFrom'
  BY <1>1, <1>2, <1>3, PlacesKept, TakersKept DEF Safe, OnlyMovedFrom
<1> QED
  BY <1>4, <1>5, <1>7, <1>8 DEF Safe

LEMMA PushSafe == ASSUME Safe, NEW t \in Tasks, Push(t) PROVE Safe'
<1> DEFINE x == caller[t].task
<1>1. /\ caller' \in [Tasks -> CallerVariables] /\ caller[t].at = "Push"
      /\ \A u \in Tasks : u # t => caller'[u] = caller[u]
      /\ caller'[t].at = "returned" /\ caller'[t].task = caller[t].task
  BY PushStep DEF Safe
<1>2. UNCHANGED <<index_, ran, terminated>> /\ Enqueue(Home, x) /\ NotifyOne(Home)
  BY DEF Push
<1>3. x \in Items /\ Home \in Threads /\ x \in {t, MovedFrom}
  BY QueueIndex DEF Safe, TypeOK, CallerVariables, OwnTask
<1>4. /\ worker' \in [Threads -> WorkerVariables]
      /\ \A w \in Threads : /\ worker'[w].f = worker[w].f
                            /\ worker'[w].at = "call" <=> worker[w].at = "call"
  BY <1>2, <1>3, NotifyOneStep DEF Safe
<1>5. /\ queues_' \in [Threads -> Seq(Items)]
      /\ \A u : Queued(u)' <=> Queued(u) \/ u = x
  BY <1>2, <1>3, EnqueueStep DEF Safe
<1>6. TypeOK'
  BY <1>1, <1>2, <1>4, <1>5 DEF Safe, TypeOK
<1>7. OwnTask'
  BY <1>1, <1>4 DEF Safe, OwnTask
<1>8. ~Held(t)' /\ \A u \in Tasks : u # t => (Held(u)' <=> Held(u))
  BY <1>1 DEF Held
<1>9. \A u \in Tasks : u = x <=> u = t /\ Held(t)
  BY <1>1, <1>3, TasksAssumption DEF Held
<1>10. \A u \in Tasks : OneSlot(u)'
  BY <1>2, <1>3, <1>9, EnqueuePlaces DEF Safe, OnePlace
<1>11. OnePlace'
  BY <1>2, <1>4, <1>5, <1>8, <1>9, <1>10, TakersKept DEF Safe, OnePlace
<1>12. OnlyMovedFrom'
  BY <1>1, <1>2, <1>4, <1>5, TakersKept DEF Safe, OnlyMovedFrom
<1> QED
  BY <1>6, <1>7, <1>11, <1>12 DEF Safe

LEMMA TakeSafe ==
  ASSUME Safe, NEW w \in Threads, worker[w].at # "call", NEW q \in Threads, Take(w, q),
         UNCHANGED <<index_, caller, ran, terminated>>
  PROVE  Safe'
<1> DEFINE x == queues_[q][1]
<1>1. /\ worker' \in [Threads -> WorkerVariables]
      /\ worker'[w].at = "call" /\ worker'[w].f = x
      /\ \A v \in Threads : v # w => worker'[v] = worker[v]
  BY TakeWorker DEF Safe
<1>2. queues_' \in [Threads -> Seq(Items)]
  BY TakeStep DEF Safe
<1>3. /\ Queued(x) /\ x \in Items
      /\ \A t : Queued(t)' => Queued(t)
      /\ \A t : OneSlot(t) => OneSlot(t)' /\ (Queued(t)' <=> Queued(t) /\ t # x)
  BY TakePlaces DEF Safe
<1> HIDE DEF x
<1>4. x # NoTask /\ worker[w].f = NoTask
  BY <1>3, TasksAssumption DEF Safe, OwnTask, Items
<1>5. TypeOK'
  BY <1>1, <1>2 DEF Safe, TypeOK
<1>6. OwnTask'
  BY <1>1, <1>4 DEF Safe, OwnTask
<1>7. \A t \in Items : Taken(t)' <=> Taken(t) \/ t = x
  BY <1>1, <1>4, TasksAssumption DEF Taken, Items
<1>8. \A t \in Tasks : Held(t)' <=> Held(t)
  BY DEF Held
<1>9. \A t \in Tasks : OneTaker(t)'
  <2>1. ASSUME NEW t \in Tasks PROVE t = x => ~Taken(t)
    BY <1>3, <2>1 DEF Safe, OnePlace
  <2> QED
    BY <1>1, <1>4, <2>1 DEF Safe, OnePlace, OneTaker, Taken
<1>10. OnePlace'
  BY <1>3, <1>7, <1>8, <1>9 DEF Safe, OnePlace, Items
<1>11. OnlyMovedFrom'
  BY <1>3, <1>7 DEF Safe, OnlyMovedFrom, Items
<1> QED
  BY <1>5, <1>6, <1>10, <1>11 DEF Safe

\* A step of a worker that takes nothing and calls nothing.
LEMMA RestSafe ==
  ASSUME Safe, NEW w \in Threads, worker' \in [Threads -> WorkerVariables],
         worker[w].at # "call", worker'[w].at # "call", worker'[w].f = worker[w].f,
         \A v \in Threads : v # w => worker'[v] = worker[v],
         UNCHANGED <<index_, queues_, caller, ran, terminated>>
  PROVE  Safe'
<1>1. \A v \in Threads : worker'[v].f = worker[v].f
  OBVIOUS
<1>2. TypeOK'
  BY DEF Safe, TypeOK
<1>3. OwnTask'
  BY DEF Safe, OwnTask
<1>4. \A t \in Tasks : Held(t)' <=> Held(t)
  BY DEF Held
<1>5. OnePlace'
  BY <1>1, <1>4, PlacesKept, TakersKept DEF Safe, OnePlace
<1>6. OnlyMovedFrom'
  BY <1>1, PlacesKept, TakersKept DEF Safe, OnlyMovedFrom
<1> QED
  BY <1>2, <1>3, <1>5, <1>6 DEF Safe

LEMMA TryPopSafe == ASSUME Safe, NEW w \in Threads, TryPop(w) PROVE Safe'
<1>1. UNCHANGED <<index_, caller, ran, terminated>>
  BY DEF TryPop
<1> QED
  BY <1>1, TryPopStep, TakeSafe, RestSafe DEF Safe

LEMMA PopSafe == ASSUME Safe, NEW w \in Threads, Pop(w) PROVE Safe'
<1>1. UNCHANGED <<index_, caller, ran, terminated>> /\ Home \in Threads
  BY QueueIndex DEF Safe, Pop
<1> QED
  BY <1>1, PopStep, TakeSafe, RestSafe DEF Safe

LEMMA CallTaskSafe == ASSUME Safe, NEW w \in Threads, CallTask(w) PROVE Safe'
<1> DEFINE x == worker[w].f
<1>1. /\ worker' \in [Threads -> WorkerVariables] /\ worker[w].at = "call"
      /\ worker'[w].at = "TryPop" /\ worker'[w].f = NoTask
      /\ \A v \in Threads : v # w => worker'[v] = worker[v]
      /\ \/ x = MovedFrom /\ terminated' /\ ran' = ran
         \/ x \in Tasks /\ terminated' = terminated /\ ran' = [ran EXCEPT ![x] = @ + 1]
  BY CallTaskStep DEF Safe
<1>2. UNCHANGED <<index_, queues_, caller>>
  BY DEF CallTask
<1>3. Taken(x)
  BY DEF Taken
<1>4. ran' \in [Tasks -> Nat] /\ terminated' \in BOOLEAN
  <2>1. ran \in [Tasks -> Nat] /\ terminated \in BOOLEAN
    BY DEF Safe, TypeOK
  <2>2. terminated' \in BOOLEAN
    BY <2>1 DEF CallTask
  <2> QED
    BY <1>1, <2>1, <2>2
<1>5. TypeOK'
  BY <1>1, <1>2, <1>4 DEF Safe, TypeOK
<1>6. OwnTask'
  BY <1>1, <1>2 DEF Safe, OwnTask
<1>7. \A t \in Tasks : Held(t)' <=> Held(t)
  BY <1>2 DEF Held
<1>8. \A t \in Tasks : (Taken(t)' <=> Taken(t) /\ t # x) /\ OneTaker(t)'
  BY <1>1, TasksAssumption DEF Safe, OnePlace, Taken, OneTaker
<1>9. \A t \in Tasks : ran'[t] = IF t = x THEN ran[t] + 1 ELSE ran[t]
  BY <1>1, TasksAssumption DEF Safe, TypeOK
<1>10. OnePlace'
  BY <1>2, <1>3, <1>7, <1>8, <1>9, PlacesKept DEF Safe, OnePlace
<1>11. OnlyMovedFrom'
  <2>1. x = MovedFrom => \E t \in Tasks : caller[t].task = MovedFrom
    BY <1>3 DEF Safe, OnlyMovedFrom
  <2>2. Taken(MovedFrom)' => Taken(MovedFrom)
    BY <1>1, TasksAssumption DEF Taken
  <2>3. terminated' => terminated \/ x = MovedFrom
    BY <1>1
  <2> QED
    BY <1>2, <2>1, <2>2, <2>3, PlacesKept DEF Safe, OnlyMovedFrom
<1> QED
  BY <1>5, <1>6, <1>10, <1>11 DEF Safe

-----------------------------------------------------------------------------
(* No wakeup is lost. *)

LEMMA Counts ==
  ASSUME TypeOK, IsFiniteSet(Notifying)
  PROVE  /\ IsFiniteSet(Awake)
         /\ Cardinality(Notifying) \in Nat /\ Cardinality(Awake) \in Nat
         /\ Home \in Threads /\ Len(queues_[Home]) \in Nat
<1>1. IsFiniteSet(Threads)
  BY WorkersAssumption, FS_Interval DEF Threads
<1>2. IsFiniteSet(Awake)
  BY <1>1, FS_Subset DEF Awake
<1>3. Home \in Threads /\ Len(queues_[Home]) \in Nat
  BY QueueIndex DEF TypeOK
<1> QED
  BY <1>2, <1>3, FS_CardinalityType

\* Nothing that counts changes, or only for the better.
LEMMA SameWakeups ==
  ASSUME IInv, TypeOK', Notifying' = Notifying, Waiting' = Waiting, UNCHANGED index_,
         Awake' = Awake \/ \E w : Awake' = Awake \cup {w},
         Len(queues_'[Home]) <= Len(queues_[Home])
  PROVE  IsFiniteSet(Notifying)' /\ NoWakeupLost'
<1>1. /\ IsFiniteSet(Awake) /\ Cardinality(Awake) \in Nat /\ Cardinality(Notifying) \in Nat
      /\ Len(queues_[Home]) \in Nat
  BY Counts DEF IInv, Safe
<1>2. Home' = Home /\ IsFiniteSet(Notifying)'
  BY DEF Home, IInv
<1>3. Cardinality(Awake') \in Nat /\ Cardinality(Awake') >= Cardinality(Awake)
  <2>1. CASE Awake' = Awake
    BY <1>1, <2>1
  <2>2. ASSUME NEW w, Awake' = Awake \cup {w}
        PROVE  Cardinality(Awake') \in Nat /\ Cardinality(Awake') >= Cardinality(Awake)
    <3>1. Cardinality(Awake') = IF w \in Awake THEN Cardinality(Awake) ELSE Cardinality(Awake) + 1
      BY <1>1, <2>2, FS_AddElement
    <3> QED
      BY <1>1, <3>1
  <2> QED
    BY <2>1, <2>2
<1>4. Len(queues_'[Home]) \in Nat
  BY <1>2, Counts DEF TypeOK
<1> QED
  BY <1>1, <1>2, <1>3, <1>4 DEF NoWakeupLost, IInv

LEMMA SameNotifying ==
  ASSUME UNCHANGED <<index_, caller>> PROVE Notifying' = Notifying
BY DEF Notifying, Nth, Home

LEMMA CallWakeups ==
  ASSUME IInv, NEW t \in Tasks, Call(t) PROVE IsFiniteSet(Notifying)' /\ NoWakeupLost'
<1>1. /\ caller[t].at = "outside" /\ caller'[t].at = "TryPush"
      /\ \A u \in Tasks : u # t => caller'[u] = caller[u]
  BY CallStep DEF IInv, Safe
<1>2. UNCHANGED <<index_, queues_, worker>>
  BY DEF Call
<1>3. Notifying' = Notifying
  BY <1>1, <1>2 DEF Notifying, Nth, Home
<1>4. Waiting' = Waiting /\ Awake' = Awake
  BY <1>2 DEF Waiting, Awake
<1>5. TypeOK'
  BY CallSafe DEF IInv, Safe
<1>6. Len(queues_'[Home]) <= Len(queues_[Home])
  BY <1>2, Counts DEF IInv, Safe
<1> QED
  BY <1>2, <1>3, <1>4, <1>5, <1>6, SameWakeups

LEMMA TryPushWakeups ==
  ASSUME IInv, NEW t \in Tasks, TryPush(t) PROVE IsFiniteSet(Notifying)' /\ NoWakeupLost'
<1> DEFINE q == Nth(caller[t].i)
<1>1. /\ caller[t].at = "TryPush"
      /\ \A u \in Tasks : u # t => caller'[u] = caller[u]
      /\ \/ caller'[t].at \in {"TryPush", "Push"} /\ UNCHANGED queues_
         \/ /\ caller'[t].at = "notify" /\ caller'[t].i = caller[t].i
            /\ Enqueue(q, caller[t].task)
  BY TryPushStep DEF IInv, Safe
<1>2. UNCHANGED <<index_, worker>>
  BY DEF TryPush
<1>3. Waiting' = Waiting /\ Awake' = Awake /\ Home' = Home
  BY <1>2 DEF Waiting, Awake, Home
<1>4. TypeOK'
  BY TryPushSafe DEF IInv, Safe
<1>5. /\ Cardinality(Notifying) \in Nat /\ Cardinality(Awake) \in Nat /\ Home \in Threads
      /\ Len(queues_[Home]) \in Nat /\ IsFiniteSet(Notifying)
  BY Counts DEF IInv, Safe
<1>6. CASE caller'[t].at \in {"TryPush", "Push"} /\ UNCHANGED queues_
  <2>1. Notifying' = Notifying
    BY <1>1, <1>2, <1>6 DEF Notifying, Nth, Home
  <2>2. Len(queues_'[Home]) <= Len(queues_[Home])
    BY <1>5, <1>6
  <2> QED
    BY <1>2, <1>3, <1>4, <2>1, <2>2, SameWakeups
<1>7. CASE /\ caller'[t].at = "notify" /\ caller'[t].i = caller[t].i
           /\ Enqueue(q, caller[t].task)
  <2>1. q \in Threads /\ caller[t].task \in Items
    BY QueueIndex DEF IInv, Safe, TypeOK, CallerVariables
  <2>2. Len(queues_'[Home]) = IF Home = q THEN Len(queues_[Home]) + 1 ELSE Len(queues_[Home])
    BY <1>5, <1>7, <2>1, EnqueueStep DEF IInv, Safe
  <2>3. CASE q = Home
    <3>1. Notifying' = Notifying \cup {t} /\ t \notin Notifying
      BY <1>1, <1>2, <1>7, <2>3 DEF Notifying, Nth, Home
    <3>2. /\ IsFiniteSet(Notifying')
          /\ Cardinality(Notifying') = Cardinality(Notifying) + 1
      BY <1>5, <3>1, FS_AddElement
    <3> QED
      BY <1>3, <1>5, <2>2, <2>3, <3>2 DEF IInv, NoWakeupLost
  <2>4. CASE q # Home
    <3>1. Notifying' = Notifying
      BY <1>1, <1>2, <1>7, <2>4 DEF Notifying, Nth, Home
    <3>2. Len(queues_'[Home]) <= Len(queues_[Home])
      BY <1>5, <2>2, <2>4
    <3> QED
      BY <1>2, <1>3, <1>4, <3>1, <3>2, SameWakeups
  <2> QED
    BY <2>3, <2>4
<1> QED
  BY <1>1, <1>6, <1>7

\* A notification that reaches a worker wakes it.
LEMMA WokenUp ==
  ASSUME TypeOK, NEW w \in Waiting, worker' = [worker EXCEPT ![w].at = "Pop"]
  PROVE  Awake' = Awake \cup {w} /\ w \notin Awake
<1>1. w \in Threads /\ worker[w].at = "wait" /\ worker[w] \in WorkerVariables
  BY DEF Waiting, TypeOK
<1>2. worker'[w].at = "Pop" /\ \A v \in Threads : v # w => worker'[v] = worker[v]
  BY <1>1 DEF TypeOK, WorkerVariables
<1> QED
  BY <1>1, <1>2 DEF Awake

LEMMA NotifyWakeups ==
  ASSUME IInv, NEW t \in Tasks, Notify(t) PROVE IsFiniteSet(Notifying)' /\ NoWakeupLost'
<1> DEFINE q == Nth(caller[t].i)
<1>1. /\ caller[t].at = "notify" /\ caller'[t].at \in {"TryPush", "Push"}
      /\ \A u \in Tasks : u # t => caller'[u] = caller[u]
  BY NotifyStep DEF IInv, Safe
<1>2. UNCHANGED <<index_, queues_>> /\ NotifyOne(q) /\ q \in Threads
  BY QueueIndex DEF Notify, IInv, Safe, TypeOK, CallerVariables
<1>3. \/ worker' = worker /\ (q # Home \/ Waiting = {})
      \/ \E w \in Waiting : q = Home /\ worker' = [worker EXCEPT ![w].at = "Pop"]
  BY <1>2, NotifyOneStep DEF IInv, Safe
<1>4. Home' = Home
  BY <1>2 DEF Home
<1>5. /\ Cardinality(Notifying) \in Nat /\ Cardinality(Awake) \in Nat /\ IsFiniteSet(Awake)
      /\ Len(queues_[Home]) \in Nat /\ IsFiniteSet(Notifying)
  BY Counts DEF IInv, Safe
<1>6. CASE q # Home
  <2>1. Notifying' = Notifying
    BY <1>1, <1>2, <1>6 DEF Notifying, Nth, Home
  <2>2. Waiting' = Waiting /\ Awake' = Awake
    BY <1>3, <1>6 DEF Waiting, Awake
  <2>3. TypeOK'
    BY NotifySafe DEF IInv, Safe
  <2>4. Len(queues_'[Home]) <= Len(queues_[Home])
    BY <1>2, <1>5
  <2> QED
    BY <1>2, <2>1, <2>2, <2>3, <2>4, SameWakeups
<1>7. CASE q = Home
  <2>1. Notifying' = Notifying \ {t} /\ t \in Notifying
    BY <1>1, <1>2, <1>7 DEF Notifying, Nth, Home
  <2>2. IsFiniteSet(Notifying') /\ Cardinality(Notifying') = Cardinality(Notifying) - 1
    BY <1>5, <2>1, FS_RemoveElement
  <2>3. CASE worker' = worker /\ Waiting = {}
    <3>1. Waiting' = {}
      BY <2>3 DEF Waiting
    <3> QED
      BY <2>2, <3>1 DEF NoWakeupLost
  <2>4. ASSUME NEW w \in Waiting, worker' = [worker EXCEPT ![w].at = "Pop"]
        PROVE  NoWakeupLost'
    <3>1. Awake' = Awake \cup {w} /\ w \notin Awake
      BY <2>4, WokenUp DEF IInv, Safe
    <3>2. Cardinality(Awake') = Cardinality(Awake) + 1
      BY <1>5, <3>1, FS_AddElement
    <3>3. Len(queues_[Home]) <= Cardinality(Notifying) + Cardinality(Awake)
      BY <2>4 DEF IInv, NoWakeupLost
    <3> QED
      BY <1>2, <1>4, <1>5, <2>2, <3>2, <3>3 DEF NoWakeupLost
  <2> QED
    BY <1>3, <1>7, <2>2, <2>3, <2>4
<1> QED
  BY <1>6, <1>7

LEMMA PushWakeups ==
  ASSUME IInv, NEW t \in Tasks, Push(t) PROVE IsFiniteSet(Notifying)' /\ NoWakeupLost'
<1>1. /\ caller[t].at = "Push" /\ caller'[t].at = "returned"
      /\ \A u \in Tasks : u # t => caller'[u] = caller[u]
  BY PushStep DEF IInv, Safe
<1>2. /\ UNCHANGED index_ /\ Enqueue(Home, caller[t].task) /\ NotifyOne(Home)
      /\ Home \in Threads /\ caller[t].task \in Items
  BY QueueIndex DEF Push, IInv, Safe, TypeOK, CallerVariables
<1>3. Home' = Home /\ Notifying' = Notifying
  BY <1>1, <1>2 DEF Notifying, Nth, Home
<1>4. Len(queues_'[Home]) = Len(queues_[Home]) + 1
  BY <1>2, EnqueueStep DEF IInv, Safe
<1>5. /\ Cardinality(Notifying) \in Nat /\ Cardinality(Awake) \in Nat /\ IsFiniteSet(Awake)
      /\ Len(queues_[Home]) \in Nat /\ IsFiniteSet(Notifying)
  BY Counts DEF IInv, Safe
<1>6. \/ worker' = worker /\ Waiting = {}
      \/ \E w \in Waiting : worker' = [worker EXCEPT ![w].at = "Pop"]
  BY <1>2, NotifyOneStep DEF IInv, Safe
<1>7. CASE worker' = worker /\ Waiting = {}
  <2>1. Waiting' = {}
    BY <1>7 DEF Waiting
  <2> QED
    BY <1>3, <1>5, <2>1 DEF NoWakeupLost
<1>8. ASSUME NEW w \in Waiting, worker' = [worker EXCEPT ![w].at = "Pop"]
      PROVE  NoWakeupLost'
  <2>1. Awake' = Awake \cup {w} /\ w \notin Awake
    BY <1>8, WokenUp DEF IInv, Safe
  <2>2. Cardinality(Awake') = Cardinality(Awake) + 1
    BY <1>5, <2>1, FS_AddElement
  <2>3. Len(queues_[Home]) <= Cardinality(Notifying) + Cardinality(Awake)
    BY <1>8 DEF IInv, NoWakeupLost
  <2> QED
    BY <1>3, <1>4, <1>5, <2>2, <2>3 DEF NoWakeupLost
<1> QED
  BY <1>3, <1>5, <1>6, <1>7, <1>8

LEMMA TryPopWakeups ==
  ASSUME IInv, NEW w \in Threads, TryPop(w) PROVE IsFiniteSet(Notifying)' /\ NoWakeupLost'
<1>1. UNCHANGED <<index_, caller>> /\ TypeOK'
  BY TryPopSafe DEF TryPop, IInv, Safe
<1>2. Home \in Threads /\ Len(queues_[Home]) \in Nat
  BY Counts DEF IInv, Safe
<1>3. worker[w].at = "TryPop"
  BY DEF TryPop
<1>4. ASSUME NEW q \in Threads, Take(w, q)
      PROVE  /\ Waiting' = Waiting /\ Awake' = Awake
             /\ Len(queues_'[Home]) <= Len(queues_[Home])
  <2>1. worker'[w].at = "call" /\ \A v \in Threads : v # w => worker'[v] = worker[v]
    BY <1>4, TakeWorker DEF IInv, Safe
  <2>2. Len(queues_'[Home]) = IF Home = q THEN Len(queues_[Home]) - 1 ELSE Len(queues_[Home])
    BY <1>2, <1>4, TakeStep DEF IInv, Safe
  <2> QED
    BY <1>2, <1>3, <2>1, <2>2 DEF Waiting, Awake
<1>5. ASSUME worker'[w].at \in {"TryPop", "Pop"}, UNCHANGED queues_,
             \A v \in Threads : v # w => worker'[v] = worker[v]
      PROVE  /\ Waiting' = Waiting /\ (Awake' = Awake \/ Awake' = Awake \cup {w})
             /\ Len(queues_'[Home]) <= Len(queues_[Home])
  BY <1>2, <1>3, <1>5 DEF Waiting, Awake
<1>6. /\ Waiting' = Waiting /\ (Awake' = Awake \/ Awake' = Awake \cup {w})
      /\ Len(queues_'[Home]) <= Len(queues_[Home])
  BY <1>4, <1>5, TryPopStep DEF IInv, Safe
<1> QED
  BY <1>1, <1>6, SameNotifying, SameWakeups

LEMMA PopWakeups ==
  ASSUME IInv, NEW w \in Threads, Pop(w) PROVE IsFiniteSet(Notifying)' /\ NoWakeupLost'
<1>1. /\ UNCHANGED <<index_, caller>> /\ TypeOK' /\ worker[w].at = "Pop"
      /\ Home' = Home
  BY PopSafe DEF Pop, IInv, Safe, Home
<1>2. /\ Cardinality(Notifying) \in Nat /\ Cardinality(Awake) \in Nat /\ IsFiniteSet(Awake)
      /\ Len(queues_[Home]) \in Nat /\ IsFiniteSet(Notifying) /\ Home \in Threads
  BY Counts DEF IInv, Safe
<1>3. Notifying' = Notifying
  BY <1>1, SameNotifying
<1>4. CASE Take(w, Home)
  <2>1. worker'[w].at = "call" /\ \A v \in Threads : v # w => worker'[v] = worker[v]
    BY <1>2, <1>4, TakeWorker DEF IInv, Safe
  <2>2. Len(queues_'[Home]) = Len(queues_[Home]) - 1
    BY <1>2, <1>4, TakeStep DEF IInv, Safe
  <2>3. Waiting' = Waiting /\ Awake' = Awake \ {w} /\ w \in Awake
    BY <1>1, <2>1 DEF Waiting, Awake
  <2>4. Cardinality(Awake') = Cardinality(Awake) - 1
    BY <1>2, <2>3, FS_RemoveElement
  <2> QED
    BY <1>1, <1>2, <1>3, <2>2, <2>3, <2>4 DEF IInv, NoWakeupLost
<1>5. CASE /\ queues_[Home] = <<>> /\ UNCHANGED queues_ /\ worker'[w].at = "wait"
           /\ \A v \in Threads : v # w => worker'[v] = worker[v]
  <2>1. Len(queues_'[Home]) = 0
    BY <1>5
  <2>2. IsFiniteSet(Notifying)'
    BY <1>2, <1>3
  <2>3. Cardinality(Notifying') \in Nat /\ Cardinality(Awake') \in Nat
    <3>1. Awake' = Awake \ {w}
      BY <1>1, <1>5 DEF Awake
    <3>2. IsFiniteSet(Awake')
      BY <1>2, <3>1, FS_RemoveElement
    <3> QED
      BY <1>2, <1>3, <3>2, FS_CardinalityType
  <2>4. Len(queues_'[Home']) <= Cardinality(Notifying') + Cardinality(Awake')
    BY <1>1, <2>1, <2>3
  <2> QED
    BY <2>2, <2>4 DEF NoWakeupLost
<1> QED
  BY <1>4, <1>5, PopStep DEF IInv, Safe

LEMMA CallTaskWakeups ==
  ASSUME IInv, NEW w \in Threads, CallTask(w) PROVE IsFiniteSet(Notifying)' /\ NoWakeupLost'
<1>1. UNCHANGED <<index_, queues_, caller>> /\ TypeOK'
  BY CallTaskSafe DEF CallTask, IInv, Safe
<1>2. /\ worker[w].at = "call" /\ worker'[w].at = "TryPop"
      /\ \A v \in Threads : v # w => worker'[v] = worker[v]
  BY CallTaskStep DEF IInv, Safe
<1>3. Waiting' = Waiting /\ Awake' = Awake
  BY <1>2 DEF Waiting, Awake
<1>4. Len(queues_'[Home]) <= Len(queues_[Home])
  BY <1>1, Counts DEF IInv, Safe
<1> QED
  BY <1>1, <1>3, <1>4, SameNotifying, SameWakeups

-----------------------------------------------------------------------------
(* The theorems. *)

LEMMA StepIInv == IInv /\ [Next]_vars => IInv'
<1> SUFFICES ASSUME IInv, [Next]_vars PROVE IInv'
  OBVIOUS
<1>1. ASSUME NEW t \in Tasks, Call(t) \/ TryPush(t) \/ Notify(t) \/ Push(t) PROVE IInv'
  BY <1>1, CallSafe, TryPushSafe, NotifySafe, PushSafe,
     CallWakeups, TryPushWakeups, NotifyWakeups, PushWakeups DEF IInv
<1>2. ASSUME NEW w \in Threads, TryPop(w) \/ Pop(w) \/ CallTask(w) PROVE IInv'
  BY <1>2, TryPopSafe, PopSafe, CallTaskSafe, TryPopWakeups, PopWakeups, CallTaskWakeups DEF IInv
<1>3. CASE UNCHANGED vars
  BY <1>3 DEF vars, IInv, Safe, TypeOK, OwnTask, OnePlace, OnlyMovedFrom, NoWakeupLost, Held,
     Queued, In, Taken, OneSlot, OneTaker, Notifying, Awake, Waiting, Home, Nth
<1> QED
  BY <1>1, <1>2, <1>3 DEF Next, CallerStep, WorkerStep

LEMMA Invariance == Spec => []IInv
BY InitInv, StepIInv, PTL DEF Spec

\* Every variable of a thread keeps its range: no queue is ever looked for that
\* there is not, and no worker calls an empty optional (task_dispatcher.hpp:97-107).
THEOREM TypeCorrect == Spec => []TypeOK
<1>1. IInv => TypeOK
  BY DEF IInv, Safe
<1> QED
  BY <1>1, Invariance, PTL

\* A task handed over is neither lost nor run twice, however many threads push
\* to and pop from one queue and whichever of their attempts to lock it fail: it
\* is where its caller has it, in one place of one queue, with one worker, or has
\* been run once (task_dispatcher.hpp:54-87, 95-126).
THEOREM TasksAccounted == Spec => []OnePlace
<1>1. IInv => OnePlace
  BY DEF IInv, Safe
<1> QED
  BY <1>1, Invariance, PTL

\* Nothing but what TryPush has moved from brings the process down
\* (task_dispatcher.hpp:119-124): no task that only Push was given does.
THEOREM OnlyMovedFromThrows == Spec => []OnlyMovedFrom
<1>1. IInv => OnlyMovedFrom
  BY DEF IInv, Safe
<1> QED
  BY <1>1, Invariance, PTL

\* While a worker sleeps, each task in the queue it sleeps at has a notification
\* on its way or a worker awake for it, although TryPush notifies when it has
\* given up the lock (task_dispatcher.hpp:62-69).
THEOREM WakeupsReach == Spec => []NoWakeupLost
<1>1. IInv => NoWakeupLost
  BY DEF IInv
<1> QED
  BY <1>1, Invariance, PTL
=============================================================================

----------------------------- MODULE ThreadPool -----------------------------
(***************************************************************************)
(* The thread pool of threadpool.h: callers enqueue work under the mutex   *)
(* and notify one worker after they have released it; workers wait on the  *)
(* condition variable while the queue is empty.  stop_ is never set and    *)
(* shutdown has no body, so that workers run for ever.  A condition        *)
(* variable may wake up spuriously.                                        *)
(***************************************************************************)
EXTENDS Integers, Sequences, FiniteSets

CONSTANTS
    Worker,     \* workers_
    Caller,     \* threads that enqueue
    Work        \* the number of works enqueued: 1, 2, ... in their order

VARIABLES
    work_queues,   \* work_queues_
    worker,        \* worker[w]: "none", "lock" (about to lock the mutex), "waiting", "running"
    work,          \* work[w]: what w runs, 0 for none
    caller,        \* caller[c]: "idle", or "notify" between unlock and notify_one
    enqueued,      \* history: how many works were enqueued
    started        \* history: the works taken out, in order

poolVars == <<work_queues, worker, work, caller, enqueued, started>>

PoolInit ==
    /\ work_queues = <<>>
    /\ worker = [w \in Worker |-> "none"]
    /\ work = [w \in Worker |-> 0]
    /\ caller = [c \in Caller |-> "idle"]
    /\ enqueued = 0
    /\ started = <<>>

\* the constructor starts the threads one by one
StartWorker(w) ==
    /\ worker[w] = "none"
    /\ worker' = [worker EXCEPT ![w] = "lock"]
    /\ UNCHANGED <<work_queues, work, caller, enqueued, started>>

Constructed == \A w \in Worker : worker[w] # "none"

\* a plausible bug: enqueue does not notify
EnqueueSilent(c) ==
    /\ Constructed /\ caller[c] = "idle" /\ enqueued < Work
    /\ work_queues' = Append(work_queues, enqueued + 1)
    /\ enqueued' = enqueued + 1
    /\ UNCHANGED <<worker, work, started, caller>>

\* enqueue, under queue_mutex_
Enqueue(c) ==
    /\ Constructed /\ caller[c] = "idle" /\ enqueued < Work
    /\ work_queues' = Append(work_queues, enqueued + 1)
    /\ enqueued' = enqueued + 1
    /\ caller' = [caller EXCEPT ![c] = "notify"]
    /\ UNCHANGED <<worker, work, started>>

\* notify_one: any one of the waiting workers
Notify(c) ==
    /\ caller[c] = "notify"
    /\ caller' = [caller EXCEPT ![c] = "idle"]
    /\ IF \E w \in Worker : worker[w] = "waiting"
       THEN \E w \in Worker : worker[w] = "waiting" /\ worker' = [worker EXCEPT ![w] = "lock"]
       ELSE UNCHANGED worker
    /\ UNCHANGED <<work_queues, work, enqueued, started>>

\* a plausible bug: the queue is served from its end
TakeLast(w) ==
    /\ worker[w] = "lock" /\ work_queues # <<>>
    /\ worker' = [worker EXCEPT ![w] = "running"]
    /\ work' = [work EXCEPT ![w] = work_queues[Len(work_queues)]]
    /\ started' = Append(started, work_queues[Len(work_queues)])
    /\ work_queues' = SubSeq(work_queues, 1, Len(work_queues) - 1)
    /\ UNCHANGED <<caller, enqueued>>

\* a worker has the mutex: wait for work, or take the first
Take(w) ==
    /\ worker[w] = "lock"
    /\ IF work_queues = <<>>
       THEN /\ worker' = [worker EXCEPT ![w] = "waiting"]
            /\ UNCHANGED <<work_queues, work, started>>
       ELSE /\ worker' = [worker EXCEPT ![w] = "running"]
            /\ work' = [work EXCEPT ![w] = Head(work_queues)]
            /\ work_queues' = Tail(work_queues)
            /\ started' = Append(started, Head(work_queues))
    /\ UNCHANGED <<caller, enqueued>>

\* work() returns
Finish(w) ==
    /\ worker[w] = "running"
    /\ worker' = [worker EXCEPT ![w] = "lock"]
    /\ work' = [work EXCEPT ![w] = 0]
    /\ UNCHANGED <<work_queues, caller, enqueued, started>>

SpuriousWake(w) ==
    /\ worker[w] = "waiting"
    /\ worker' = [worker EXCEPT ![w] = "lock"]
    /\ UNCHANGED <<work_queues, work, caller, enqueued, started>>

PoolNext ==
    \/ \E c \in Caller : Enqueue(c) \/ Notify(c)
    \/ \E w \in Worker : StartWorker(w) \/ Take(w) \/ Finish(w) \/ SpuriousWake(w)

\* callers finish their calls, a free mutex is got in the end, and work returns
PoolFair ==
    /\ \A c \in Caller : WF_poolVars(Notify(c))
    /\ \A w \in Worker : WF_poolVars(Take(w)) /\ WF_poolVars(Finish(w))

PoolSpec == PoolInit /\ [][PoolNext]_poolVars /\ PoolFair

(***************************************************************************)
(* Properties.                                                             *)
(***************************************************************************)
\* Works are started in the order of enqueue, each once: none is dropped or
\* run by two workers (the queue is popped under the lock, run outside it).
StartedInOrder == started \o work_queues = [i \in 1 .. enqueued |-> i]

\* Workers that sleep miss nothing: while one does, each queued work has a
\* worker awake for it or an announcement under way (notify_one comes after the
\* unlock, the predicate of wait is evaluated under the lock).
NoMissedWork ==
    LET In(pc) == {w \in Worker : worker[w] = pc}
        Announcing == {c \in Caller : caller[c] = "notify"}
    IN  In("waiting") # {} =>
            Len(work_queues) <= Cardinality(In("lock")) + Cardinality(Announcing)

\* Each work is taken once, in order, and none waits while workers sleep.
PoolInv == StartedInOrder /\ NoMissedWork

\* Work enqueued is started.
WorkStarts == \A n \in 1 .. Work : (enqueued >= n) ~> (Len(started) >= n)
=============================================================================

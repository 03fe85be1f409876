----------------------------- MODULE ThreadPool -----------------------------
(****************************************************************************)
(* ThreadPool (daemon/utils/data_struct/thread_pool.h): workers that sleep  *)
(* on a condition variable, threads that submit tasks, and the destructor.  *)
(*                                                                          *)
(* The code has two locks.  _mutex goes with the condition variable and     *)
(* covers a worker's emptiness check and wait, but not a submitter's push   *)
(* or notify.  m_mutex covers the queue: exclusively for push, but only     *)
(* SHARED for the front()/pop() of a worker, so workers overlap there.      *)
(* Overlapping moves of the same std::function, or overlapping pops, are    *)
(* data races: each may or may not see the other.                           *)
(*                                                                          *)
(* A task is a model value that is submitted at most once.  A running task  *)
(* may submit further ones (a hello handler submits its answer).            *)
(****************************************************************************)
EXTENDS Sequences, Functions

CONSTANTS Worker,   \* the threads of _worker_pool
          Client,   \* other threads that submit (the libevent thread, main)
          Task,
          None,     \* no worker, no task
          Moved     \* a std::function that was moved from: calling it throws

ASSUME ThreadAssumption == Worker \cap Client = {} /\ None \notin Worker
ASSUME TaskAssumption == None \notin Task /\ Moved \notin Task /\ None # Moved

VARIABLES running,     \* _running_flag
          queue,       \* _task_queue
          mutex,       \* _mutex: the worker between emptiness check and wait
          shared,      \* m_mutex: the workers that hold it shared
          waiting,     \* the workers blocked in m_conditional_lock.wait
          pc,          \* the place of each worker and client
          got,         \* the task each worker has moved out of the queue
          destructor,  \* the place of the thread in ~ThreadPool
          crashed,     \* std::terminate, or front()/pop() of an empty queue
          order,       \* history: the tasks in the order of their submission
          fetched,     \* history: the tasks in the order they were moved out
          overlapped   \* history: two workers were at the queue together

life    == <<running, destructor>>
locks   == <<mutex, shared, waiting>>
history == <<order, fetched, overlapped>>
vars    == <<life, queue, locks, pc, got, crashed, history>>

Init ==
  /\ running = TRUE /\ queue = <<>>
  /\ mutex = None /\ shared = {} /\ waiting = {}
  /\ pc = [x \in Worker \cup Client |-> IF x \in Worker THEN "loop" ELSE "idle"]
  /\ got = [w \in Worker |-> None]
  /\ destructor = "not called" /\ crashed = FALSE
  /\ order = <<>> /\ fetched = <<>> /\ overlapped = FALSE

\* Nothing happens after a crash.
At(x, label) == ~crashed /\ pc[x] = label

GoTo(x, label) == pc' = [pc EXCEPT ![x] = label]

-----------------------------------------------------------------------------
(* submit *)

\* Plausible bug: an empty function object is queued instead of the task.
PushEmpty(x, t) ==
  /\ \/ x \in Client /\ At(x, "idle") /\ destructor = "not called"
     \/ x \in Worker /\ At(x, "run")
  /\ shared = {}
  /\ t \notin Range(order)
  /\ queue' = Append(queue, None)
  /\ order' = Append(order, t)
  /\ GoTo(x, "notify")
  /\ UNCHANGED <<life, locks, got, crashed, fetched, overlapped>>

\* The push, under the exclusive lock.  A client submits from outside, a
\* worker from within the task it runs.
Push(x, t) ==
  /\ \/ x \in Client /\ At(x, "idle") /\ destructor = "not called"
     \/ x \in Worker /\ At(x, "run")
  /\ shared = {}
  /\ t \notin Range(order)
  /\ queue' = Append(queue, t)
  /\ order' = Append(order, t)
  /\ GoTo(x, "notify")
  /\ UNCHANGED <<life, locks, got, crashed, fetched, overlapped>>

\* Plausible bug: submit does not notify.
NotifyNobody(x) ==
  /\ At(x, "notify")
  /\ GoTo(x, IF x \in Worker THEN "run" ELSE "idle")
  /\ UNCHANGED <<life, queue, locks, got, crashed, history>>

\* notify_one wakes one of the waiting workers, if there is one right now.
NotifyOne(x) ==
  /\ At(x, "notify")
  /\ LET back == IF x \in Worker THEN "run" ELSE "idle"
     IN  \/ waiting = {} /\ GoTo(x, back) /\ UNCHANGED waiting
         \/ \E w \in waiting :
              /\ waiting' = waiting \ {w}
              /\ pc' = [pc EXCEPT ![x] = back, ![w] = "wake"]
  /\ UNCHANGED <<life, queue, mutex, shared, got, crashed, history>>

-----------------------------------------------------------------------------
(* ThreadWorker::operator() *)

\* while (_pool->_running_flag)
Loop(w) ==
  /\ At(w, "loop")
  /\ GoTo(w, IF running THEN "check" ELSE "done")
  /\ UNCHANGED <<life, queue, locks, got, crashed, history>>

\* lock(_mutex) and _task_queue.empty().  If it is not, the lock is dropped.
Check(w) ==
  /\ At(w, "check") /\ mutex = None
  /\ IF queue = <<>> THEN GoTo(w, "sleep") /\ mutex' = w
                     ELSE GoTo(w, "fetch") /\ UNCHANGED mutex
  /\ UNCHANGED <<life, queue, shared, waiting, got, crashed, history>>

\* wait(lock) releases _mutex and blocks; only a later notify is noticed.
Wait(w) ==
  /\ At(w, "sleep")
  /\ GoTo(w, "waiting")
  /\ mutex' = None /\ waiting' = waiting \cup {w}
  /\ UNCHANGED <<life, queue, shared, got, crashed, history>>

\* std::condition_variable::wait may also return for no reason.
SpuriousWake(w) ==
  /\ ~crashed /\ w \in waiting
  /\ GoTo(w, "wake")
  /\ waiting' = waiting \ {w}
  /\ UNCHANGED <<life, queue, mutex, shared, got, crashed, history>>

\* wait returns once it has _mutex again; the scope then releases it.
Woken(w) ==
  /\ At(w, "wake") /\ mutex = None
  /\ GoTo(w, "fetch")
  /\ UNCHANGED <<life, queue, locks, got, crashed, history>>

\* Plausible bug: the queue is not looked at again after the wait.
FetchUnchecked(w) ==
  /\ At(w, "fetch")
  /\ GoTo(w, "front") /\ shared' = shared \cup {w}
  /\ overlapped' = (overlapped \/ shared # {})
  /\ UNCHANGED <<life, queue, mutex, waiting, got, crashed, order, fetched>>

\* shared_lock(m_mutex) and the second emptiness check.
Fetch(w) ==
  /\ At(w, "fetch")
  /\ IF queue = <<>>
       THEN GoTo(w, "loop") /\ UNCHANGED <<shared, overlapped>>
       ELSE /\ GoTo(w, "front") /\ shared' = shared \cup {w}
            /\ overlapped' = (overlapped \/ shared # {})
  /\ UNCHANGED <<life, queue, mutex, waiting, got, crashed, order, fetched>>

\* Another worker is at the same operation of the queue.
Races(w, label) == \E u \in shared \ {w} : pc[u] = label

\* std::move(_task_queue.front()).  A concurrent move of the same function may
\* read it before this one has cleared it.
MoveFront(w) ==
  /\ At(w, "front")
  /\ IF queue = <<>>
       THEN crashed' = TRUE /\ UNCHANGED <<queue, pc, got, fetched>>
       ELSE /\ got' = [got EXCEPT ![w] = Head(queue)]
            /\ fetched' = Append(fetched, Head(queue))
            /\ GoTo(w, "pop")
            /\ \E cleared \in (IF Races(w, "front") THEN BOOLEAN ELSE {TRUE}) :
                 queue' = IF cleared THEN <<Moved>> \o Tail(queue) ELSE queue
            /\ UNCHANGED crashed
  /\ UNCHANGED <<life, locks, order, overlapped>>

\* Plausible bug: the fetched task stays in the queue.
PopForgotten(w) ==
  /\ At(w, "pop")
  /\ GoTo(w, "run") /\ shared' = shared \ {w}
  /\ UNCHANGED <<life, queue, mutex, waiting, got, crashed, history>>

\* _task_queue.pop() and unlock().  One of two concurrent pops may get lost.
Pop(w) ==
  /\ At(w, "pop")
  /\ IF queue = <<>>
       THEN crashed' = TRUE /\ UNCHANGED <<queue, shared, pc>>
       ELSE /\ \E popped \in (IF Races(w, "pop") THEN BOOLEAN ELSE {TRUE}) :
                 queue' = IF popped THEN Tail(queue) ELSE queue
            /\ GoTo(w, "run") /\ shared' = shared \ {w}
            /\ UNCHANGED crashed
  /\ UNCHANGED <<life, mutex, waiting, got, history>>

\* task(): calling a moved-from function throws, and nobody catches it.
Run(w) ==
  /\ At(w, "run")
  /\ IF got[w] = Moved
       THEN crashed' = TRUE /\ UNCHANGED <<pc, got>>
       ELSE GoTo(w, "loop") /\ got' = [got EXCEPT ![w] = None] /\ UNCHANGED crashed
  /\ UNCHANGED <<life, queue, locks, history>>

-----------------------------------------------------------------------------
(* ~ThreadPool *)

\* _running_flag = false
Stop ==
  /\ ~crashed /\ destructor = "not called" /\ \A c \in Client : pc[c] = "idle"
  /\ running' = FALSE /\ destructor' = "notify"
  /\ UNCHANGED <<queue, locks, pc, got, crashed, history>>

\* notify_all, with no lock held.
NotifyAll ==
  /\ ~crashed /\ destructor = "notify"
  /\ waiting' = {} /\ destructor' = "join"
  /\ pc' = [x \in Worker \cup Client |-> IF x \in waiting THEN "wake" ELSE pc[x]]
  /\ UNCHANGED <<running, queue, mutex, shared, got, crashed, history>>

\* join() has returned for every worker.
Joined ==
  /\ ~crashed /\ destructor = "join" /\ \A w \in Worker : pc[w] = "done"
  /\ destructor' = "returned"
  /\ UNCHANGED <<running, queue, locks, pc, got, crashed, history>>

-----------------------------------------------------------------------------
WorkerStep(w) ==
  \/ Loop(w) \/ Check(w) \/ Wait(w) \/ Woken(w)
  \/ Fetch(w) \/ MoveFront(w) \/ Pop(w) \/ Run(w)

Next ==
  \/ \E w \in Worker : WorkerStep(w) \/ SpuriousWake(w)
  \/ \E x \in Worker \cup Client : NotifyOne(x) \/ \E t \in Task : Push(x, t)
  \/ Stop \/ NotifyAll \/ Joined

\* Every thread that can run is scheduled.  Nothing is assumed of spurious
\* wakeups, of further submissions, or of a task that submits.
Fairness ==
  /\ \A w \in Worker : WF_vars(WorkerStep(w))
  /\ \A x \in Worker \cup Client : WF_vars(NotifyOne(x))
  /\ WF_vars(NotifyAll \/ Joined)

Spec == Init /\ [][Next]_vars /\ Fairness

-----------------------------------------------------------------------------
TypeOK ==
  /\ running \in BOOLEAN /\ crashed \in BOOLEAN /\ overlapped \in BOOLEAN
  /\ queue \in Seq(Task \cup {Moved})
  /\ mutex \in Worker \cup {None}
  /\ shared \subseteq Worker /\ waiting \subseteq Worker
  /\ pc \in [Worker \cup Client -> {"idle", "notify", "loop", "check", "sleep", "waiting",
                                   "wake", "fetch", "front", "pop", "run", "done"}]
  /\ got \in [Worker -> Task \cup {None, Moved}]
  /\ destructor \in {"not called", "notify", "join", "returned"}
  /\ order \in Seq(Task) /\ fetched \in Seq(Task \cup {Moved})

\* The tasks nobody has moved out: a worker about to pop leaves a shell behind.
Pending == IF \E w \in Worker : pc[w] = "pop" THEN Tail(queue) ELSE queue

\* As long as no two workers were at the queue together, the pool is an exact
\* FIFO queue: every submitted task is moved out exactly once and in the order
\* of submission, whoever submits and whoever sleeps, and nothing crashes
\* (thread_pool.h:60-69 and 125-134).
ExactUntilOverlap ==
  ~overlapped => ~crashed /\ order = fetched \o Pending

Queue == INSTANCE TaskQueue
           WITH pending <- IF overlapped THEN <<>> ELSE Pending,
                hold <- IF overlapped THEN [w \in Worker |-> None] ELSE got,
                spoiled <- overlapped

\* As long as no two workers were at the queue together, the pool is the plain
\* queue of TaskQueue: a worker takes the first task in one step, only when it
\* has finished the one before, and keeps it until it has run, also while the
\* task submits others; a worker that is woken for nothing, or finds the queue
\* empty after its wait, takes none (thread_pool.h:60-69 and 114-137).
ImplementsQueue == Queue!Spec

\* Somebody will look at the tasks: a worker that is neither waiting nor about
\* to, or a client that has yet to notify.
Watched ==
  \/ queue = <<>> \/ ~running \/ crashed
  \/ \E w \in Worker : pc[w] \notin {"sleep", "waiting"}
  \/ \E c \in Client : pc[c] = "notify"

\* Tasks are left to sleeping workers in one way only: notify_one, which takes
\* no lock, finds nobody waiting while a worker is between its emptiness check
\* and its wait (thread_pool.h:66 and 116-120).  No other interleaving does it,
\* with overlapping workers, spurious wakeups and tasks that submit included.
WakeupLostOnlyInWindow ==
  [][Watched =>
       \/ Watched'
       \/ /\ waiting = {} /\ mutex # None
          /\ \E c \in Client : pc[c] = "notify" /\ pc'[c] = "idle"]_vars

\* A submit that meets a waiting worker is enough to drain the whole queue
\* (thread_pool.h:66 wakes it, and it only sleeps again when it saw the queue
\* empty), unless the pool is destroyed or crashes first.
NotifyDrains ==
  (waiting # {} /\ \E x \in Worker \cup Client : pc[x] = "notify")
    ~> (queue = <<>> \/ ~running \/ crashed)

\* "fetching task from server and execute the task" (thread_pool.h:111): a
\* task that was submitted to a pool that goes on running is fetched.
SubmittedIsFetched ==
  \A t \in Task : t \in Range(order) ~> t \in Range(fetched) \/ ~running \/ crashed
=============================================================================

----------------------------- MODULE ThreadPool -----------------------------
(***************************************************************************)
(* lib/concurrency/thread_pool.{h,cpp}: a fixed set of worker threads that *)
(* run the tasks of a FIFO queue.                                          *)
(*                                                                         *)
(* Every field of the pool is read and written only while mutex_ is held,  *)
(* so each critical section (from taking mutex_ to releasing it, by unlock *)
(* or by waiting on a condition variable) is one action here.  What runs   *)
(* outside the mutex, the task itself, interleaves with everything.        *)
(*                                                                         *)
(* A condition variable is the set of threads asleep on it.  A notified    *)
(* thread leaves the set and only later gets mutex_ back; in between       *)
(* anybody else may take mutex_.  Threads also wake up spuriously.         *)
(***************************************************************************)
EXTENDS Naturals, Sequences, FiniteSets, Functions

CONSTANTS
    Workers,    \* threads_: the threads the pool started
    Clients,    \* threads that use the pool from the outside
    Tasks,      \* the tasks that can be given to the pool, each once
    NoTask,     \* a worker's empty hand
    MaxBatch    \* bound: most tasks in one call of add_tasks()

ASSUME WorkersAssumption == IsFiniteSet(Workers) /\ Workers # {}
ASSUME ClientsAssumption == IsFiniteSet(Clients) /\ Clients \cap Workers = {}
ASSUME TasksAssumption   == NoTask \notin Tasks
ASSUME BatchAssumption   == MaxBatch \in Nat \ {0}

VARIABLES
    tasks,             \* tasks_
    threads_working,   \* threads_working_
    threads_waiting,   \* threads_waiting_
    stop,              \* stop_
    work_condition,    \* workers asleep on work_condition_
    wait_condition,    \* clients asleep on wait_condition_
    pc,                \* where each thread is
    task,              \* the local variable task of work()
    promise,           \* shared state of the promise async() made for a task
    added,             \* history: tasks given to the pool
    finished           \* history: tasks that have returned

poolVars == <<tasks, threads_working, threads_waiting, stop>>
condVars == <<work_condition, wait_condition>>
vars == <<poolVars, condVars, pc, task, promise, added, finished>>

Threads == Workers \cup Clients

WorkerPCs == {"test", "running", "returned", "exited"}
ClientPCs == {"idle", "waiting", "joining", "gone"}

TypeOK ==
    /\ tasks \in Seq(Tasks)
    /\ threads_working \in 0..Cardinality(Workers)
    /\ threads_waiting \in 0..Cardinality(Clients)
    /\ stop \in BOOLEAN
    /\ work_condition \subseteq Workers
    /\ wait_condition \subseteq Clients
    /\ pc \in [Threads -> WorkerPCs \cup ClientPCs]
    /\ \A w \in Workers : pc[w] \in WorkerPCs
    /\ \A c \in Clients : pc[c] \in ClientPCs
    /\ task \in [Workers -> Tasks \cup {NoTask}]
    /\ promise \in [Tasks -> {"none", "pending", "ready", "broken"}]
    /\ added \subseteq Tasks
    /\ finished \subseteq Tasks

Init ==
    /\ tasks = <<>>
    /\ threads_working = 0
    /\ threads_waiting = 0
    /\ stop = FALSE
    /\ work_condition = {}
    /\ wait_condition = {}
    /\ pc = [t \in Threads |-> IF t \in Workers THEN "test" ELSE "idle"]
    /\ task = [w \in Workers |-> NoTask]
    /\ promise = [t \in Tasks |-> "none"]
    /\ added = {}
    /\ finished = {}

-----------------------------------------------------------------------------
(* Adding tasks.  The caller is a client, or a worker whose task uses the  *)
(* pool it runs on.  A client may not use a pool it is destroying, a       *)
(* running task still may: its worker has not been joined.                 *)

MayCall(t) == \/ t \in Clients /\ pc[t] = "idle" /\ ~stop
              \/ t \in Workers /\ pc[t] = "running"

\* Mutant: no notify_one().
NotifyNobody == UNCHANGED work_condition

\* work_condition_.notify_one(): one sleeper, whichever, if there is any.
NotifyOneWorker ==
    IF work_condition = {}
    THEN UNCHANGED work_condition
    ELSE \E w \in work_condition : work_condition' = work_condition \ {w}

\* Mutant: notify_one() for notify_all().
NotifyAnyWorker == NotifyOneWorker

\* notify_all().
NotifyAllWorkers == work_condition' = {}

Enqueue(new) ==
    /\ tasks' = tasks \o new
    /\ added' = added \cup Range(new)

add_task(t, new) ==
    /\ MayCall(t)
    /\ new \notin added
    /\ Enqueue(<<new>>)
    /\ NotifyOneWorker
    /\ UNCHANGED <<threads_working, threads_waiting, stop, wait_condition,
                   pc, task, promise, finished>>

\* async() wraps the function and a promise in a task and adds that.
async(t, new) ==
    /\ MayCall(t)
    /\ new \notin added
    /\ Enqueue(<<new>>)
    /\ promise' = [promise EXCEPT ![new] = "pending"]
    /\ NotifyOneWorker
    /\ UNCHANGED <<threads_working, threads_waiting, stop, wait_condition,
                   pc, task, finished>>

\* The vectors that can be passed to add_tasks(), the empty one included.
Batches ==
    {s \in UNION {[1..n -> Tasks \ added] : n \in 0..MaxBatch} :
        \A i, j \in DOMAIN s : s[i] = s[j] => i = j}

add_tasks(t, new) ==
    /\ MayCall(t)
    /\ Enqueue(new)
    /\ NotifyAllWorkers
    /\ UNCHANGED <<threads_working, threads_waiting, stop, wait_condition,
                   pc, task, promise, finished>>

-----------------------------------------------------------------------------
(* wait(): a client blocks until the queue is empty and no worker works.   *)

\* Mutant: the condition of wait() forgets the tasks that run.
Queued == tasks # <<>>

Busy == tasks # <<>> \/ threads_working > 0

\* The counter goes up and the condition is tested in one critical section.
wait_enter(c) ==
    /\ MayCall(c)
    /\ c \in Clients
    /\ \/ /\ Busy
          /\ threads_waiting' = threads_waiting + 1
          /\ wait_condition' = wait_condition \cup {c}
          /\ pc' = [pc EXCEPT ![c] = "waiting"]
       \/ /\ ~Busy    \* ++ and -- cancel out, wait() returns at once
          /\ UNCHANGED <<threads_waiting, wait_condition, pc>>
    /\ UNCHANGED <<tasks, threads_working, stop, work_condition, task,
                   promise, added, finished>>

\* A client that woke up tests the condition again.
wait_test(c) ==
    /\ pc[c] = "waiting"
    /\ c \notin wait_condition
    /\ \/ /\ Busy
          /\ wait_condition' = wait_condition \cup {c}
          /\ UNCHANGED <<threads_waiting, pc>>
       \/ /\ ~Busy
          /\ threads_waiting' = threads_waiting - 1
          /\ pc' = [pc EXCEPT ![c] = "idle"]
          /\ UNCHANGED wait_condition
    /\ UNCHANGED <<tasks, threads_working, stop, work_condition, task,
                   promise, added, finished>>

-----------------------------------------------------------------------------
(* work(): the loop of a worker.                                           *)

\* The head of the loop is reached with mutex_ held; working is what is then
\* in threads_working_.  A worker leaves when the pool is stopped, sleeps
\* when there is nothing to do and otherwise takes the first task.
LeaveLoop(w, working) ==
    /\ stop
    /\ pc' = [pc EXCEPT ![w] = "exited"]
    /\ threads_working' = working
    /\ task' = [task EXCEPT ![w] = NoTask]
    /\ UNCHANGED <<tasks, work_condition>>

Sleep(w, working) ==
    /\ ~stop
    /\ tasks = <<>>
    /\ pc' = [pc EXCEPT ![w] = "test"]
    /\ threads_working' = working
    /\ task' = [task EXCEPT ![w] = NoTask]
    /\ work_condition' = work_condition \cup {w}
    /\ UNCHANGED tasks

\* Mutant: the last task is taken.
TakeLast(w, working) ==
    /\ ~stop
    /\ tasks # <<>>
    /\ pc' = [pc EXCEPT ![w] = "running"]
    /\ threads_working' = working + 1
    /\ task' = [task EXCEPT ![w] = tasks[Len(tasks)]]
    /\ tasks' = SubSeq(tasks, 1, Len(tasks) - 1)
    /\ UNCHANGED work_condition

Take(w, working) ==
    /\ ~stop
    /\ tasks # <<>>
    /\ pc' = [pc EXCEPT ![w] = "running"]
    /\ threads_working' = working + 1
    /\ task' = [task EXCEPT ![w] = Head(tasks)]
    /\ tasks' = Tail(tasks)
    /\ UNCHANGED work_condition

LoopHead(w, working) ==
    \/ LeaveLoop(w, working)
    \/ Sleep(w, working)
    \/ Take(w, working)

\* A worker that has just started, or was woken up, gets mutex_.
work_awake(w) ==
    /\ pc[w] = "test"
    /\ w \notin work_condition
    /\ LoopHead(w, threads_working)
    /\ UNCHANGED <<threads_waiting, stop, wait_condition, promise, added,
                   finished>>

\* Mutant: no set_value().
SetNoValue(t) == UNCHANGED promise

\* The end of the task of an async() sets the value of the promise.
SetValue(t) ==
    promise' = [promise EXCEPT ![t] = IF @ = "pending" THEN "ready" ELSE @]

\* task() comes to its end, without mutex_.
task_returns(w) ==
    /\ pc[w] = "running"
    /\ pc' = [pc EXCEPT ![w] = "returned"]
    /\ finished' = finished \cup {task[w]}
    /\ SetValue(task[w])
    /\ UNCHANGED <<poolVars, condVars, task, added>>

\* Whether the worker that leaves working others at work wakes up wait().
AllDone(working) == threads_waiting > 0 /\ tasks = <<>> /\ working = 0

\* The worker takes mutex_ again, accounts for its task, and goes on to the
\* head of the loop without giving mutex_ away.
work_returned(w) ==
    /\ pc[w] = "returned"
    /\ wait_condition' =
          IF AllDone(threads_working - 1) THEN {} ELSE wait_condition
    /\ LoopHead(w, threads_working - 1)
    /\ UNCHANGED <<threads_waiting, stop, promise, added, finished>>

-----------------------------------------------------------------------------
(* ~ThreadPool(), called by a client when no other client is in a call.    *)

destroy_stop(c) ==
    /\ ~stop
    /\ \A d \in Clients : pc[d] = "idle"
    /\ stop' = TRUE
    /\ NotifyAllWorkers
    /\ pc' = [pc EXCEPT ![c] = "joining"]
    /\ UNCHANGED <<tasks, threads_working, threads_waiting, wait_condition,
                   task, promise, added, finished>>

\* All threads are joined, then the members are destroyed: the tasks that
\* are still queued go away with tasks_, and so do their promises.
destroy_join(c) ==
    /\ pc[c] = "joining"
    /\ \A w \in Workers : pc[w] = "exited"
    /\ pc' = [pc EXCEPT ![c] = "gone"]
    /\ tasks' = <<>>
    /\ promise' = [t \in Tasks |-> IF t \in Range(tasks) /\ promise[t] = "pending"
                                   THEN "broken" ELSE promise[t]]
    /\ UNCHANGED <<threads_working, threads_waiting, stop, condVars, task,
                   added, finished>>

-----------------------------------------------------------------------------
(* A thread that waits on a std::condition_variable may wake up unnotified. *)

spurious_wakeup(t) ==
    /\ t \in work_condition \cup wait_condition
    /\ work_condition' = work_condition \ {t}
    /\ wait_condition' = wait_condition \ {t}
    /\ UNCHANGED <<poolVars, pc, task, promise, added, finished>>

ClientStep(c) ==
    \/ wait_enter(c)
    \/ wait_test(c)
    \/ destroy_stop(c)
    \/ destroy_join(c)

WorkerStep(w) ==
    \/ work_awake(w)
    \/ task_returns(w)
    \/ work_returned(w)

Next ==
    \/ \E t \in Threads, new \in Tasks : add_task(t, new)
    \/ \E t \in Threads, new \in Tasks : async(t, new)
    \/ \E t \in Threads, new \in Batches : add_tasks(t, new)
    \/ \E c \in Clients : ClientStep(c)
    \/ \E w \in Workers : WorkerStep(w)
    \/ \E t \in Threads : spurious_wakeup(t)

Spec == Init /\ [][Next]_vars

\* A thread that can go on goes on: the scheduler runs every thread, the
\* mutex is not withheld from one forever, and tasks return.  Nobody has to
\* add a task, to wait or to destroy the pool.
Fairness ==
    /\ \A w \in Workers : WF_vars(WorkerStep(w))
    /\ \A c \in Clients : WF_vars(wait_test(c)) /\ WF_vars(destroy_join(c))

FairSpec == Spec /\ Fairness

-----------------------------------------------------------------------------
(* Properties.                                                             *)

Working(w) == pc[w] \in {"running", "returned"}
WorkingWorkers == {w \in Workers : Working(w)}

\* A worker that will get to the head of the loop without being notified.
Awake(w) == pc[w] = "test" /\ w \notin work_condition
AwakeWorkers == {w \in Workers : Awake(w)}

WaitingClients == {c \in Clients : pc[c] = "waiting"}

\* threads_working_ is the number of workers between taking a task and
\* accounting for it: never one off, never below zero.  wait() and
\* threads_available() rely on it.
WorkingIsExact == threads_working = Cardinality(WorkingWorkers)

\* No wakeup of work_condition_ is lost: while a worker is asleep, every
\* queued task has a worker that is already awake to take it.  notify_one()
\* for one task, notify_all() for many and the test before going to sleep
\* must agree for this to hold.
NoTaskLeftToSleepers ==
    work_condition # {} => Len(tasks) <= Cardinality(AwakeWorkers)

\* No wakeup of wait_condition_ is lost: a client is asleep in wait() only
\* while there is still work, so somebody is left to wake it up.
NoClientLeftAsleep == wait_condition # {} => Busy

\* The two above and what they rest on: an inductive invariant.
WaitingIsExact == threads_waiting = Cardinality(WaitingClients)

SleepersAndTasksInPlace ==
    /\ \A w \in work_condition : pc[w] = "test"
    /\ \A c \in wait_condition : pc[c] = "waiting"
    /\ \A w \in Workers : Working(w) => task[w] \in Tasks
    /\ stop => work_condition = {} /\ \A c \in Clients : pc[c] # "waiting"
    /\ \A c \in Clients : pc[c] \in {"joining", "gone"} => stop

IInv ==
    /\ TypeOK
    /\ WorkingIsExact
    /\ WaitingIsExact
    /\ SleepersAndTasksInPlace
    /\ NoTaskLeftToSleepers
    /\ NoClientLeftAsleep

\* What wait() and the queue have to do with each other, without counting: as
\* long as the pool exists, a task that was added is queued, runs or has run.
AddedTasksAreSomewhere ==
    /\ \A t \in added :
          \/ t \in Range(tasks)
          \/ t \in finished
          \/ \E w \in Workers : pc[w] = "running" /\ task[w] = t
          \/ \E c \in Clients : pc[c] = "gone"
    /\ Range(tasks) \subseteq added
    /\ finished \subseteq added
    /\ \A w \in Workers : pc[w] = "running" => task[w] \in added

\* What NoPromisePendingAfterDestruction and the refinement of TaskPool rest
\* on.  A task is in one place at a time and never gets back into the queue:
\* nothing runs twice, or in two threads.
NoTaskTwice ==
    /\ \A i, j \in DOMAIN tasks : tasks[i] = tasks[j] => i = j
    /\ Range(tasks) \cap finished = {}
    /\ \A w \in Workers :
          pc[w] = "running" => task[w] \notin Range(tasks) \cup finished
    /\ \A w, x \in Workers :
          pc[w] = "running" /\ pc[x] = "running" /\ task[w] = task[x] => w = x

\* A promise without a value goes with a task that is queued or runs, until
\* the destructor breaks those of the queue.
PromisesInPlace ==
    /\ \A t \in Tasks : promise[t] = "pending" =>
          \/ t \in Range(tasks)
          \/ \E w \in Workers : pc[w] = "running" /\ task[w] = t
    /\ \A t \in Tasks : promise[t] = "ready" => t \in finished
    /\ \A t \in Tasks : promise[t] = "broken" =>
          t \notin finished /\ \E c \in Clients : pc[c] = "gone"
    /\ (\E c \in Clients : pc[c] = "gone") =>
          tasks = <<>> /\ \A w \in Workers : pc[w] = "exited"

\* After ~ThreadPool() nobody can wait forever on the future of an async():
\* its promise is fulfilled if the task ran and broken if it never did.
NoPromisePendingAfterDestruction ==
    (\E c \in Clients : pc[c] = "gone")
        => \A t \in Tasks : /\ promise[t] # "pending"
                            /\ promise[t] = "broken" => t \notin finished
                            /\ promise[t] = "ready" => t \in finished

\* wait() returns at a moment when every task that was ever added, by
\* anybody, has finished.
WaitMeansFinished ==
    [][\A c \in Clients :
          pc[c] = "waiting" /\ pc'[c] = "idle" => finished = added]_vars

\* ~ThreadPool() gets all its threads joined, whatever they were doing.
DestructorReturns == \A c \in Clients : pc[c] = "joining" ~> pc[c] = "gone"

\* The pool keeps the promises of TaskPool, the eventual ones too.
Abstract == INSTANCE TaskPool WITH
    Size    <- Cardinality(Workers),
    queue   <- tasks,
    running <- {task[w] : w \in {x \in Workers : pc[x] = "running"}},
    waiting <- WaitingClients,
    open    <- ~stop

ImplementsTaskPool == Abstract!Spec

\* The part of it that says what a step may do.
StepsOfTaskPool == Abstract!SafetySpec
=============================================================================

# Formal model of Rayni

Rayni is a C++ library for a ray tracer: intersection structures that are built
by several threads, a thread pool, an event loop for Linux, readers for images,
meshes and scenes, and the containers and handles these are made of.  This
directory holds TLA+ specifications of it, TLC configurations that check them
on small instances, and proofs, checked by TLAPS, that hold for every instance.

Paths such as `concurrency/thread_pool.cpp` are relative to `src/src/lib/`.
`PROJECT.json` maps the definitions to the lines they model.  Operators that
take an operator as a parameter (`Then`, `get_or`, `Repeated`, ...) are
templates and lambdas of the code; the map names what is made with them.

## 1. Inventory

### The parts that interact

```
 kdtree_build()   bvh_build()          other threads       callbacks of the user
      |    \        |    |                   |                    ^   |
      |  Barrier  Barrier|                   v                    |   v
      v             v    v            MainLoop::run_in/exit   MainLoop::dispatch
 ThreadPool: add_task / async / threads_available / wait      Timer, FDMonitor
      ^                                                           |
      +---- Workers run tasks, which add tasks and block     epoll, eventfd,
            in futures of tasks of the same pool             timerfd (kernel)
```

| Component | State | Operations | Hard | Correct when |
|---|---|---|---|---|
| `ThreadPool` (`concurrency/thread_pool.*`) | FIFO queue, counts of working and waiting threads, stop flag | `add_task`, `add_tasks`, `async`, `wait`, `threads_available`, the loop of a worker, destructor | lost and spurious wakeups; destruction with tasks queued and running | every task runs once, in order, or is dropped by the destructor; `wait()` means idle; everybody who waits is woken up |
| `Barrier` (`concurrency/barrier.h`) | arrivals, generation | `arrive`, `arrive_and_wait` | reuse while threads of the last round have not run yet; a generation that wraps around | nobody leaves before its round is complete, nobody sleeps through the end of it |
| k-d tree and BVH, threads (`intersection_structures/`) | recursion on each thread, per-thread storage, futures, chunks of a range | `prepare_build_context`, `create_build_node`, chunks, `kdtree_build`, `bvh_build` | threads that block for tasks of the pool they run on; a thread count that is stale when used; stack data used by tasks | some thread can always go on; every node is built once; no task outlives what it refers to |
| k-d tree and BVH, data | events and planes, buckets and splits, nodes in memory | sweep, split, partition, node blocks, layout, traversal | order of equal events, bounds of cells, offsets, NaN | a ray finds the nearest of what it hits; nothing is lost; statistics are exact |
| `MainLoop` (`system/main_loop.*`) | exit flag, functions, timers by id, event descriptors | `loop`/`wait`/`dispatch`, `run_in`, `exit`, `Timer` | steps of other threads between two steps of the loop; the order of events in a batch; a call in a handler that blocks; changes during iteration | functions run once and in order; due timers fire; `exit()` ends the loop |
| `Timer`, `FDMonitor` (`system/main_loop.*`) | weak pointer to the loop's data, id or descriptor | `start`, `stop`, moves, destructor | objects that outlive loops; events for what was stopped in the same batch | an entry or registration exists exactly for what was started; callbacks only for what is monitored |

### The parts that stand alone

| Component | State and operations | Hard | Correct when |
|---|---|---|---|
| `ListenerList` | pointers between listeners and the list that notifies them; moves and destruction on both sides | moves; changes during `notify()` | both sides agree |
| `Variant` | tree of values with pointers to parents; conversion to what is asked for | moves that keep parents right; limits of types | a path leads to the Variant; what fits is converted exactly, the rest refused |
| `Result`, `UniqueFD`, `MemoryMappedFile`, `ScopedTempDir` | a handle or an error, moved on until somebody closes or deletes it | every path between | each is held once, and given back once |
| `Log` | configuration under a shared mutex, callback | a callback replaced while others are in it | a callback in use exists |
| `Command` | fork, two pipes, poll, wait | a full pipe while the parent waits; failures in between | output complete, nothing left open, the call returns |
| `BinaryReader`, `TextReader` | position in a buffer, line and column | the end of the buffer | no read beyond it |
| TGA, PLY, JSON, meshes, scenes | a decoder over a reader, or over a Variant | runs and counts that exceed what is there; limits | read as written, or refused |
| PNG, JPEG, WebP, EXR, detection | a file opened twice, a library's objects, `longjmp()` | the file may change; failure at any call | read by content; all freed |
| Strings, base 85, durations | text and numbers | overflow, one stream for all conversions | as documented |
| Matrices, `Transform` | a matrix and its inverse | order of pivots | they are inverses |
| `Latch`, `File`, `Bitmask`, `ScopeExit`, `Stopwatch`, `CacheLineAlignedVector` | - | - | not modelled, see section 6 |

The behaviours that a test hardly reaches are listed, each with its line and
the properties meant for it, under `hazards` in `PROJECT.json`.

## 2. Modules

| Module | Models |
|---|---|
| `TaskPool` | what `ThreadPool` promises, without threads: a queue, a set of running tasks, clients that wait |
| `ThreadPool` | `concurrency/thread_pool.*`, one action per critical section; implements `TaskPool` |
| `Barrier` | `concurrency/barrier.h`, one action per critical section |
| `KdTreeBuild`, `BvhBuild` | the threads of a build: a stack of calls for each thread, a pool that behaves as `ThreadPool` does |
| `Geometry` | boxes, and where a ray passes through one, with infinities and NaN |
| `KdTree`, `Bvh` | what the builds compute, the layout in memory and the traversal |
| `IntersectionStructure` | `intersection_structure.*`: composes `KdTree` and `Bvh` |
| `LinuxFDs` | epoll, eventfd and timerfd as operators |
| `MainLoop` | loop, `run_in()`, timers, `exit()` |
| `FDMonitors` | `FDMonitor` and `FDData` of several loops |
| `Timers` | `Timer` objects over several loops and their ends |
| `ListenerList`, `VariantTree`, `Handles`, `Log` | objects that own or point to each other |
| `Ownership` | composes these four and `Timers` |
| `Command` | `system/command.cpp`: parent, child, a process the child starts, two pipes |
| `Result`, `BinaryReader`, `TextReader` | what the readers of files are written with |
| `Ply`, `Tga`, `Json`, `Base85`, `TriangleMeshData`, `ImageFiles` | one reader each |
| `Matrices`, `Variant`, `Transform`, `SceneValues` | exact arithmetic, conversions, and what a scene reads with them |
| `Strings` | `string/`, the text of a log message and of an error |
| `Files` | composes the readers: each behaviour reads one file, value or text |
| `ThreadPoolProofs`, `BarrierProofs`, `KdTreeBuildProofs`, `BvhBuildProofs`, `MainLoopProofs`, `FDMonitorsProofs`, `CommandProofs`, `OwnershipProofs` | theorems |
| `MC*` | definitions of instances, where constants of a `.cfg` do not say enough: boxes and rays, files with what is meant by them |

### How the modules correspond to the code

*ThreadPool.*  `tasks`, `threads_working`, `threads_waiting` and `stop` are the
fields with an underscore.  All of them are guarded by `mutex_`, so a critical
section (up to an unlock or a wait on a condition variable) is an action.  A
condition variable is the set of threads asleep on it: `notify_one()` removes
any one of them, `notify_all()` all; a thread that has been removed still needs
the mutex, so it acts later, in competition with everybody.  `spurious_wakeup`
removes a thread nobody notified.  `work()` holds the mutex from the end of one
task to the start of the next; `work_returned` is therefore one action that
accounts for the task, tests for waiting clients and goes through the head of
the loop.  Promises of `async()` are pending, ready, or broken when a queued
task is destroyed with the pool.  `added` and `finished` are history.

*Barrier.*  The same conventions.  `generation_` counts modulo `Width`.

*KdTreeBuild, BvhBuild.*  A thread has a stack of calls of
`create_build_node()`, each at a stage: `fork` is the gap between
`threads_available()` and `async()`, both of which take and release the pool's
mutex; `get` is `future.get()`.  A worker that is done with its task is
`returned` until it takes the mutex again, and is counted as working till then.
Where a tree splits depends on data that is not in these modules: every node
with children in the heap numbering may split or be a leaf.
`prepare_build_context()` prepares as many workers as
`threads_available()` says at that moment.  `KdTreeBuild` follows what comes of
it when that is not all of them: a `Barrier` for nobody fails its assertion
(`program` is `"aborted"`), and a worker that was not prepared and takes a node
uses storage of a context that is gone (`"undefined"`).  With either the program
is over.  Assertions are taken to be compiled in.  `BvhBuild` has one build on
a pool nobody else uses, so all workers are prepared; for a second one on the
same pool the same would have to be said (`bvh.cpp:850`).

*KdTree, Bvh.*  These are the data of the same code.  A build is a sequence of
nodes, depth first as on one thread: where threads change the result, in the
chunks of a range that `prepare_build_context()` divides and in the storage each
thread has for nodes (`NumBuilders`), they are modelled; which thread makes a
node is fixed by the path to it.  Costs are left out: any plane the sweep finds, any
bucket with something on both sides may be the best, and any node may be
cheaper as a leaf where the code lets it be one.  So what is checked does not
depend on the cost function.  In the k-d tree the sweep counts what is left and
right of each plane from sorted events, intersectables are classified by
events, and both halves get their events in order.  In the BVH chunks count
into buckets and add up.  All nodes are partitioned by `std::partition()`, which
may leave both parts in any order: the code that partitions with several threads
is compiled only if `RAYNI_BVH_MULTITHREAD_INTERSECTABLE_INFO_PARTITIONING` is
not 0, which it is (`bvh.cpp:85`), and is not modelled.  Then nodes are laid out as in memory, in preorder or in pairs, with offsets, and a ray is traced
with the stack of the code.

*Geometry.*  Positions are integers, components of directions are -1, 0 or 1,
so division is exact, with the infinities and NaN that division by zero gives;
comparison with NaN is false as in IEEE 754.

*MainLoop.*  An eventfd is a Boolean, the timerfd the time it is armed for.
`wait` returns the ready events in any order, and reads block when there is
nothing to read, as the descriptors are not opened non-blocking.  The pieces of
`run_in()` and `exit()` on both sides of a mutex are separate actions;
`TimerData` is under one recursive mutex, which dispatch holds during
callbacks.  Time is discrete and advances at any moment.  Of the monitored
descriptors, which are the subject of *FDMonitors*, one is here, with whether it
is monitored and ready: another thread changes that when it likes, up to
`MaxFDChanges` times.  When its event comes up in a batch, dispatch waits for
events a second time, without a timeout, and blocks if by then there are none.

*FDMonitors.*  `start`, `stop` and `move` compute the state after `remove`,
`add` and `modify`, and which system calls failed.  A loop is in `wait`, goes
to the inner `epoll_wait` of `FDData::dispatch()` and then through a batch with
the mutex held, a batch of at most `BatchSize` events.  Loops are destroyed;
weak pointers to them then lock nothing.

*Ownership.*  Each object is there or not, and every constructor, assignment and
destructor is an action, with the chain of calls it makes.  `Handles` has what
is open in the kernel apart from who holds it, `Log` the steps between taking
and releasing the shared lock.

*Command.*  A pipe is a number of bytes, up to its capacity, with the processes
that have each end open; end of file and hang-up follow from them.  At most
`MaxFaults` system calls fail, any ones.

*Files.*  A reader takes a file to a result in one step for each row, packet
or element; what a helper returns is an operator.  Bytes and numbers have their widths as constants
(`ByteBase`, `Max8`, `MaxInt`, ...), so that limits are reached.  In PLY, words
and numbers are tokens.  The number of a JSON document is converted to an exact
fraction from its characters, or is out of range.  What is expected of a
document comes from the grammar of JSON and not from the reader; what is
expected of a duration, from rounding the whole of it.  The libraries that decode PNG, JPEG, WebP and EXR are
external: a call of one fails whenever it likes.

## 3. Runs

Every run takes less than three minutes.  Where the name of a module is the
name of a configuration with `MC` before it, TLC runs the module itself.

| Run | Instance | Question and answer |
|---|---|---|
| `thread_pool` | 2 workers, 2 clients, 3 tasks, batches up to 2 | Is a wakeup or a promise ever lost, does `wait()` mean that everything finished, does the destructor return, does the pool implement `TaskPool`? All hold. |
| `barrier` | barrier for 3, 3 threads that wait, 2 that arrive, 8 arrivals, `Width` 4 | Does the barrier hold and let everybody go? Yes. |
| `kdtree_build` | 2 workers and the caller, 11 nodes, 2 builds, 1 foreign task | Can all workers depend on each other, do tasks outlive their build, are trees that are finished complete, do builds end? No, no, yes; a build that has the whole pool to itself ends, any other one ends or goes wrong because not all workers were prepared, which `BuildEnds` names. |
| `bvh_build` | 3 workers and the caller, 11 nodes, left halves of 1 or 2 threads | Are chunks accounted for, is the tree complete, does the build end? Yes. |
| `bvh_build_four` | 4 workers, 13 nodes | Can some thread always go on? **No**, see findings. |
| `main_loop` | 2 timers, 1 other thread, 2 functions, 2 calls that set timers, 2 changes of a monitored descriptor, 3 calls in all, 3 moments | Is anything ever forgotten, do timers keep count, do functions run and due timers fire, and does `exit()` end the loop? Yes, unless the loop blocks in one of two calls, which the properties name. |
| `main_loop_exit` | 1 timer that is started and stopped, no monitored descriptor, 4 moments | Does `exit()` end the loop? **No**, see findings. |
| `fd_monitors` | 2 loops, 2 monitors, 2 descriptors, batches of 4, 3 calls, callbacks that call | Do registrations and monitors agree, are callbacks called only while monitored, are ready descriptors handled, do calls return? Yes; two loops that call on each other may wait for each other, which `CallsReturn` names. |
| `intersection_structure` | in a plane: 11 scenes of up to 5 boxes, rays from 25 points in 8 directions, chunks of 1 or 3 threads | Does a ray find the nearest hit, is nothing lost, and are the offsets and statistics of the layout right? Yes, with the exceptions the properties name. |
| `files` | some 23000 files, documents, values and calls, right and wrong ones, with what each is meant to be | Is each read as that, or refused? Yes, with the exceptions the properties name, see findings. |
| `ownership` | 3 lists and listeners, 3 Variants with 4 elements, 3 Results, 2 mappings and directories, 3 Timers over 2 loops, 2 threads that log | Do both sides of every pointer agree, and is everything held once? Yes. |
| `command` | pipes of 2 bytes, a program that writes 3, one failing call | Is the output complete, is nothing left open, does the call return? Yes. |

### Why these bounds

* ThreadPool: two workers and two clients are the least for one to be asleep
  while another is between two critical sections; three tasks let a batch find
  one worker busy and another asleep.
* Barrier: eight arrivals are two complete rounds of three and the beginning
  of a third, so threads of three rounds can be inside at the same time.
  `Width` is 4: a thread that is not scheduled while `generation_` makes a full
  turn (2^32 rounds) goes back to sleep, which the code accepts.
* KdTreeBuild: 11 nodes are three levels with one more below the leftmost, the
  least that lets a worker that took a right half delegate again while another
  worker and the caller are blocked.
* BvhBuild: three threads at the root are horizontal there and, with two
  threads for one half, once more below.  The blocking needs a fourth worker.
* MainLoop: two timers are needed for one to be earlier than another that is
  being set; two functions for order; the moments let a repeating timer miss
  an expiration.  Two changes of the monitored descriptor are the least to make
  its event one of a batch and take it away before dispatch gets to it;
  `MaxCalls` bounds all calls from outside together.
* FDMonitors: two loops, because monitors move between them; three calls let a
  monitor be started, moved or stopped and its descriptor be reused.
* IntersectionStructure: four or five boxes give two levels with something on each
  side, leaves of several and flat and equal boxes; a depth of 3 for the k-d
  tree, which takes ten times as long, was run once and finds nothing else.
  Three threads divide a range so that chunks differ in length, and blocks of 2
  nodes make a build take several.  Faces are at
  even positions so that rays start outside of, in and inside boxes.
* Files: the widths are the smallest that have a value below, at and above
  each limit of each type; images of two rows let a packet go on in the next.
  Powers of 10 beyond `MaxPower`, 5, are taken to be too large or to leave
  nothing: no text of the run has a number that comes back from there.
* Ownership: with three of a kind, two may be in a relation that a third is
  moved into; two loops let an object outlive one and be started in another.
* Command: a program that writes more than fits has to wait for the reader,
  one that writes to two pipes may wait at either; one failure leaves every
  other path as it is.

### Fairness

* `ThreadPool`, `Barrier`, `KdTreeBuild`, `BvhBuild`: weak fairness for every
  thread that is inside the code.  The system runs every runnable thread, tasks
  return, and a mutex is never held for long.  Nobody is required to add tasks,
  to wait or to arrive.
* `MainLoop`: weak fairness of the loop's thread, of threads in the middle of
  `run_in()` or `exit()` and of the clock.  The user's callbacks return.
* `FDMonitors`: weak fairness of each loop; strong fairness for a callback that
  wants a mutex which another loop takes and releases all the time.
* `Command`: the parent and the child go on as long as they are not blocked,
  and the program and what it starts come to an end.  Nothing fails for
  fairness' sake.
* `IntersectionStructure`, `Files`, `Ownership`: no liveness and no fairness.
  The first two run through loops over data that is there; objects of the third
  are used as long as somebody wants to.

### Findings

1. *All threads blocked* (`bvh_build_four`, `bvh.cpp:605`).  A horizontal call
   gives its right half to the pool without asking and queues chunks behind
   tasks of vertical calls.  With four workers all of them and the caller can
   wait: for chunks, and for right halves, that are in the queue.  The comment
   at the top of `bvh.cpp` mentions the mixing of the two and expects it not to
   happen near the root.
2. *A read that blocks the loop* (`main_loop_exit`, `main_loop.cpp:428`).  If
   the `changed` event comes before the timer event in a batch, the timer
   descriptor is disarmed or armed anew before `timer_fd_.read()`, which then
   blocks, for good if the timer was stopped.  The inner wait of
   `FDData::dispatch()` (`main_loop.cpp:108`) does the same when the monitor of
   the only ready descriptor is stopped, or the descriptor read, after the outer
   wait has returned; with `MaxFDChanges` 2 and no timers this run shows
   that one.  `OnlyBlockedCallsOutlastExit` of the run `main_loop` says that
   nothing else keeps a loop from ending, and `EveryFunctionRuns` and
   `DueTimersFire` have the same two exceptions.

The models show more behaviours for which no run is kept; the changes that show
each are given:

* `kdtree.cpp:475`: without `program # "running"` in `BuildEnds` of `KdTreeBuild`,
  a second build right after a first does not always end.  `prepare_build_context()`
  prepares `threads_available()` threads; the worker that set the last future of
  the build before may still count as working.  It is not prepared, but takes a
  node of the new build and uses storage of a context that is gone.  When all
  count as working a `Barrier` is made for no thread (`:477`), against the
  assertion in its constructor (`barrier.h:35`).
* `main_loop.cpp:502`: with `"restart"` among the `Uses` of `FDMonitors`, a
  monitor that outlived its loop and is started in another modifies a
  registration that does not exist, and the new loop ends with an error
  (`RegistrationsMatch`).
* `main_loop.cpp:538`: with `"restart"` among the `Uses` of `Timers`, a `Timer`
  that outlived its loop keeps its id, which may be another Timer's in the next
  one; both then share an entry (`EverythingIsHeldOnce`, after 7 states).
* `main_loop.cpp:240`: with `"remove_own"` among the `Uses` of `MainLoop`, a
  timer that is destroyed in its own callback is erased from the map that is
  being iterated over.
* `bvh.cpp:175`: with `CountModulus` 2, a leaf with as many intersectables as
  the count has values (256 in the code) is taken for an inner node
  (`BvhFindsNearestHit`, `BuildLosesNothing`).
* `math/aabb.h:95`: a ray that runs in a face across the first axis takes
  0 * infinity for its entry; `BvhFindsNearestHit` leaves these rays out.
* `kdtree.cpp:261`: the traversal returns at the first leaf with a hit, which
  is the nearest when the hit is in the cell of the leaf:
  `KdTreeHitInCellIsNearest` says so, and no more.
* `duration_format.cpp:61`: seconds are rounded after minutes have been split off,
  so 1 min 59.75 s is written with 60 seconds.  `StringsAreConverted` leaves out
  the durations that round to a full minute (`RoundsToMinute`).
* `json.cpp:104`: an exponent written with `E` is refused, as the unit test
  (`unit_tests/lib/file_formats/json.cpp:94`) expects, and so are `\u` escapes (`:64`), numbers beyond the range
  of a double (`:118`) and keys that are there twice (`:169`); control characters
  inside a string are accepted.  JSON has the first two and forbids the last.
  `JsonIsReadAsWritten` says that what is read is what was meant, and that a
  document with none of these in it is not refused.
* `triangle_mesh_data.cpp:156`: `uvs` that are not a string, or not base 85, are
  an error `Result` which is dereferenced.  The reader's outcome is then
  `undefined`; `MeshIsReadAsWritten` says that this is all that leads to it.
* `math/transform.h:101`: the inverse of a rotation is its transpose, which is
  right for unit quaternions only, and a quaternion is not normalized when it is
  read.  Scaling by zero (`:64`) has no inverse at all.  `TransformsHaveInverses`
  leaves both out (`HasNoInverse`) and has them among its inputs.

## 4. Proofs

All constants are arbitrary, within the assumptions named in the modules: finite
sets of threads, at least one worker, `NumThreads`, `Width`, `MaxBatch` and
`MaxTime` positive, markers like `None` different from what they are markers
among.  The theorems about registrations and owners have one hypothesis more,
see below.  Inductive invariants are named `IInv` and are in the modules they are
about, next to the properties that follow from them.

**ThreadPoolProofs.**  `IInv` of `ThreadPool` is inductive.  It is the type
invariant, the exactness of both counters, where sleepers and tasks are
(`SleepersAndTasksInPlace`), `NoTaskLeftToSleepers` and `NoClientLeftAsleep`.
The counters are needed since the decision to wake up clients is made from
them, and since a decrement must not wrap below zero.
`NoTaskLeftToSleepers` compares the queue with the workers that are *awake and
at the head of the loop*: one `notify_one()` for each task adds one of these, a
worker that takes a task is one less with one task less, and a worker goes to
sleep only when the queue is empty.  From it:

* `TypeCorrect`, `WorkingCountExact`: `Spec => []TypeOK`, `[]WorkingIsExact`.
* `NoLostWakeup`: `Spec => [](NoTaskLeftToSleepers /\ NoClientLeftAsleep)`.
* `WaitIsCorrect`: `Spec => WaitMeansFinished`, with a second invariant,
  `AddedTasksAreSomewhere`: a task that was added is queued, runs or has
  finished.  When the queue is empty and nobody works, all have finished.
* `TasksRunOnce`: `Spec => []NoTaskTwice`.  A task that was added is in the
  queue at one place, with one worker, or has finished.
* `NoFutureWaitsForever`: `Spec => []NoPromisePendingAfterDestruction`.  `PromisesInPlace`:
  a pending promise has a task that is queued or runs, and after the destructor
  there is no such task.  Both are inductive together, on top of `IInv`.
* `PoolRefinesTaskPool`: `Spec => StepsOfTaskPool`, the initial states and the
  steps of `TaskPool` under the refinement mapping: with its fairness, which
  this prover cannot follow, that is the property `RefinesTaskPool` TLC checks.

**BarrierProofs.**  `BarrierIsCorrect`: `Spec => BarrierHolds`, from the
invariant that a thread inside knows its round: as long as no round has been
completed since it arrived, `generation_` is what it remembers.  `TypeCorrect`
gives the ranges of both counters.  `NobodySleepsOn` is the other half: with
fewer arrivals than `generation_` has values, a thread asleep is in a round
that is not complete.

**KdTreeBuildProofs.**  For any number of workers, any heap of nodes with any of
them inner, any number of builds and foreign tasks.

* `PoolIsNeverUsedUp`: `Spec => []SomeWorkerDependsOnNobody`.
  `threads_available()` may be out of date when `async()` is called, and two
  threads may both take the last free worker into account.  The argument: a
  thread that delegates is itself a worker with a task, or the caller; if a call
  passes the test there was a worker without a task at that moment, and that one
  has no call at all.  The invariant adds that only workers with a node as their
  task are in a call.
* `TreeIsBuiltOnce`: `Spec => []TreeIsComplete`.  Whether a node is built once is
  a matter of who has it.  `HeldOnce` says that a node is in the queue once, or
  in the calls of one thread once, or nowhere; its `phase` (queued, the stage
  of its call, or none) says which.  `TreeIsRight` relates the phase of a
  node to those of its halves, such as: at the stage `get` the left half is finished
  and the right one has been given away.  `Linked` ties the calls of a stack to
  each other.  With these a thread that starts a half
  finds it untouched, and a call that returns leaves its whole subtree finished.
  Lemmas about the phases alone (`NodeCreated` to `NodeGoesOn`) are separate
  from those about stacks and the queue (`StageStep` to `FirstStep`); the step
  of an action is put together from one of each.  `CallerIsAtRoot` gives the
  root to the caller.
* `TasksEndWithTheirBuild`: `Spec => []NoTaskOutlivesItsBuild`.  When the call of
  the root returns, no node is held by anyone: if some were, the one with the
  least number has a parent, which is neither held nor done and cannot be
  untouched.  `PreparationsAreCounted` says the same of the tasks that prepare
  threads: those still to be added, queued, running and arrived are no more than
  there are workers, and `prepare_build_context()` waits for all of them.

A program that has gone wrong takes no more steps (`ProgramStops`), so the
theorems hold of it too: they are about all states up to that moment.

**BvhBuildProofs.**  For any number of workers, of threads to use and of nodes, any
shape of the tree and any way to divide threads between halves.  `IInv` has two
parts.  The first is that of KdTreeBuild, with the two rounds of chunks as more
stages between the beginning of a call and its halves; nodes may be any set
closed under taking the other half and the parent, which is a condition of
`NodesAssumption` that the end of the build needs.  The second, `RoundsAreRight`,
is about rounds: the chunks of a node that are queued, run or have arrived are,
with those its call has yet to add, one less than the threads of the call, and a
node in no round has none.  It is inductive since only the innermost call of a
thread can be in a round (`RoundIsInnermost`), since no node is in two
calls (`HeldOnce`), so nobody else adds chunks for it, and since the barrier
opens when as many have arrived as were added, so none is queued or runs then
(`ChunksAreGone`).

* `ChunksStayExact`: `Spec => []ChunksAreExact`.  It includes that the counter
  of a barrier never exceeds the number of chunks of a round.
* `TreeIsBuiltOnce`: `Spec => []TreeIsComplete`.

That some thread can always go on is *not* a theorem here, unlike for a k-d tree:
see findings.

**MainLoopProofs.**  For any number of timers, threads, functions and moments.

* `LoopForgetsNothing`: `Spec => []NothingIsForgotten`.  A function that waits has its
  event, or a caller or the loop that is between the two; functions run in the
  order they were added; the timer descriptor is armed for the earliest timer
  unless a change is to be looked at.  `EarliestIsKnown` is what makes it inductive: between the
  computation of the earliest expiration and `set_time()` other threads change
  the map, and whoever does has written the `changed` event.
* `TimersDoNotDrift`: `Spec => []TimersKeepCount`.  How often a timer has fired
  and when it expires next stay in step; a one-shot that is active has not fired
  (`OneShotsAreStillToFire`).

The monitored descriptor is apart from all of this (`MonitorStepsStayAside`).

**FDMonitorsProofs.**  For any number of loops, monitors and descriptors and any
size of a batch, as long as no monitor that outlived its loop is started in
another (`"restart" \notin Uses`): with that the properties do not hold, see
findings.

* `MonitorsAndLoopsAgree`: `[]RegistrationsMatch`, the registrations of each epoll
  instance are those of the monitors of its loop.  Monitors are moved, assigned and destroyed by callbacks of another loop
  while a batch is being handled, so the invariant includes what a callback that
  waits for a mutex is about to do, and that it can still be done then
  (`PendingCallsCanBeDone`).
* `NoCallbackAfterStop`: `CalledOnlyWhileMonitored`, from the same invariant.

**CommandProofs.**  `RunsEndComplete`: `Spec => []RunsAreComplete`, for pipes of any
capacity, any amount of output and any number of failing calls.  The inductive
invariant says that what was written is what was read with what is in the pipe
after it (`BytesAreInOrder`), which ends of pipes are open at each step, the
error paths included (`EndsAreOpen`), what the parent knows of the child
(`ChildIsKnown`), that the parent leaves a pipe only at its end or after an error
(`PipesAreReadToTheEnd`), and that an error is in the result
(`ErrorsAreKept`).  A result that says success then has all of the output and
the status of the program.

**OwnershipProofs.**  For any number of objects of each kind.

* `PointersAlwaysAgree`: `Spec => []PointersAgree`, from the same for lists alone
  (`ListsAndListenersAgree`).  `PointersAgree` and the types are inductive by
  themselves.  The methods call each other, so `Add`, `Remove`, `SetLists` and so
  on are operators from state to state; a lemma for each says that it keeps
  `Agree` or what it leaves to be mended, such as a listener that points to a
  list which has it no more, and the step of an action is put together from them.
* `OwnersHoldOnce`: `Spec => []EverythingIsHeldOnce`, as long as no `Timer` that
  outlived its loop is started in another (`"restart" \notin Uses`).  `Once` says
  of any function from objects to what they hold that it is injective where it
  counts and meets all there is; three lemmas, for moving, dropping and taking,
  then do for descriptors, errors, mappings and directories alike.  The entries
  of Timers need that a Timer without a loop has no id, which is what a second
  start relies on.

**Model-checked only.**

* Liveness, the fairness part of the refinement included, is out of this
  prover's reach.  So are `KdTree`, `Bvh` and `Files`: what they compute is
  defined by recursion over data and would need induction over it.
* `PathsLeadToVariants`, too, is about paths of any length: `path()` and what is
  below a Variant are recursive.

## 5. Abstractions that are shared

* The pool inside `KdTreeBuild` and `BvhBuild` has no condition variables:
  `ThreadPool` shows that a queued task and a free worker come together.
* Exceptions thrown by tasks end the program and are left out.
* Numbers are integers or exact fractions: what rounding does, and the error
  bounds the code computes for it, is left out.
* The texts of errors are left out, except for the position or path in them.

## 6. What is not modelled, and why

* `Latch` has no user besides its unit test.  `File` reads a file to its end;
  `ScopeExit`, `Stopwatch` and `CacheLineAlignedVector` have no behaviour of
  their own.  `Bitmask` and the flags of descriptors are sets.
* Costs of splits; `max_depth_limit()` and the size of the BVH traversal's stack
  (`bvh.cpp:199`, `kdtree.cpp:818`), which need trees beyond TLC; the map of
  saved statistics (`bvh.cpp:782`).
* `AnimatedTransform` at times in between, polar decomposition, `lerp` and
  `slerp`: irrational numbers.
* Sizes that wrap around (`image.cpp:45`, `binary_reader.cpp:91`), memory
  reserved from the counts of a PLY header (`ply.cpp:309`, `:540`), an empty
  comment line in PLY, which takes the next line with it (`ply.cpp:139`).
* System calls of `MainLoop` that fail, `wait()` with a timeout.
* The partition of a BVH by several threads (`bvh.cpp:553`), which is not compiled.
* A rotation about an axis of no length and a `look_at` straight up; PLY files
  that end inside their last number.
* `notify()` of a list whose callbacks change it and a log callback that sets
  the configuration: undefined behaviour and a self-deadlock, by contract of
  the caller.  So are assigning to a `ScopedTempDir` that has a directory,
  assigning to a list that has listeners, and moving a `Result<void>` to itself.
* `png_write_file()` and everything inside the libraries that decode images.
* Unit tests, which are read for what they expect.

## 7. Plan

Done: the modules of section 2.  What is left, in this order:

1. `wait()` with a timeout and failing system calls in `MainLoop`.
2. A second `bvh_build()` on the same pool, with what follows from workers that
   were not prepared, as `KdTreeBuild` has it.

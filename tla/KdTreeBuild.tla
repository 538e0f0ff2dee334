---------------------------- MODULE KdTreeBuild ----------------------------
(***************************************************************************)
(* The threads that build a k-d tree (kdtree_build() and what it calls in  *)
(* lib/intersection_structures/kdtree.cpp) on a ThreadPool.                *)
(*                                                                         *)
(* create_build_node() recurses.  It hands the right half of a large node  *)
(* to the pool when threads_available() says there is a thread for it,     *)
(* builds the left half itself and then blocks on the future of the right  *)
(* one.  A worker that blocks is a worker less: the question is whether    *)
(* all of them can end up waiting for tasks nobody is left to run.         *)
(*                                                                         *)
(* The pool is the one of ThreadPool, seen through what is proved of it:   *)
(* a FIFO queue, and threads_working_ workers that have a task.  Where the *)
(* tree splits is not modelled: any node may become a leaf (so does every  *)
(* node when the build is cancelled), and a subtree of at most             *)
(* THREAD_MIN_INTERSECTABLES, built without the pool, is a leaf here.      *)
(***************************************************************************)
EXTENDS Naturals, Sequences, FiniteSets

CONSTANTS
    Workers,    \* threads of the pool
    Main,       \* the thread that calls kdtree_build()
    MaxNode,    \* nodes are numbered like a heap, children 2n and 2n + 1; the
                \* recursion ends (max_depth = 0) when there is no such number
    Others,     \* bound: tasks the pool gets from somebody else
    MoreBuilds  \* bound: calls of kdtree_build() after the first

ASSUME WorkersAssumption == IsFiniteSet(Workers) /\ Workers # {}
ASSUME MainAssumption == Main \notin Workers
ASSUME MaxNodeAssumption == MaxNode \in Nat \ {0}
ASSUME OthersAssumption == Others \in Nat
ASSUME MoreBuildsAssumption == MoreBuilds \in Nat

VARIABLES
    tasks,         \* tasks_ of the pool
    job,           \* what the task of a worker is, "none" when it has none
    stack,         \* the calls of create_build_node() of each thread
    ready,         \* nodes whose future has its value
    main_pc,       \* where the caller is in kdtree_build()
    threads,       \* the local variable of prepare_build_context()
    to_add,        \* tasks its loop has still to add
    arrived,       \* arrivals at its barrier
    thread_state,  \* threads whose thread_state points into this build's context
    built,         \* history: nodes that were built, with how often
    others,        \* tasks somebody else can still add
    more_builds,   \* calls of kdtree_build() still to come
    program        \* "running", or how it has gone wrong

vars == <<tasks, job, stack, ready, main_pc, threads, to_add, arrived,
          thread_state, built, others, more_builds, program>>

Threads == Workers \cup {Main}
Nodes == 1..MaxNode

\* Where a call of create_build_node() is: "create" at its beginning, "fork"
\* when threads_available() was greater than zero, "left" and "right" in a
\* recursive call with the other half to be done, respectively done, on this
\* thread, "forked" in that call with the right half given to the pool,
\* "get" in future.get(), "done" before the return.
Stages == {"create", "fork", "left", "right", "forked", "get", "done"}
Frames == [node : Nodes, stage : Stages]

NodeTask(n) == [kind |-> "node", node |-> n]
PrepareTask == [kind |-> "prepare", node |-> 1]
OtherTask   == [kind |-> "other", node |-> 1]
TaskSet     == [kind : {"node", "prepare", "other"}, node : Nodes]

Jobs == {"none", "node", "prepare", "barrier", "other", "returned"}

TypeOK ==
    /\ tasks \in Seq(TaskSet)
    /\ job \in [Workers -> Jobs]
    /\ stack \in [Threads -> Seq(Frames)]
    /\ ready \subseteq Nodes
    /\ main_pc \in {"begin", "prepare", "wait", "build", "end"}
    /\ threads \in 0..Cardinality(Workers)
    /\ to_add \in 0..Cardinality(Workers)
    /\ arrived \in 0..Cardinality(Workers)
    /\ thread_state \subseteq Threads
    /\ built \in [Nodes -> Nat]
    /\ others \in 0..Others
    /\ more_builds \in 0..MoreBuilds
    /\ program \in {"running", "aborted", "undefined"}

Init ==
    /\ tasks = <<>>
    /\ job = [w \in Workers |-> "none"]
    /\ stack = [t \in Threads |-> <<>>]
    /\ ready = {}
    /\ main_pc = "begin"
    /\ threads = 0
    /\ to_add = 0
    /\ arrived = 0
    /\ thread_state = {}
    /\ built = [n \in Nodes |-> 0]
    /\ others = Others
    /\ more_builds = MoreBuilds
    /\ program = "running"

-----------------------------------------------------------------------------
(* The pool.                                                               *)

Busy(w) == job[w] # "none"
BusyWorkers == {w \in Workers : Busy(w)}

threads_available == Cardinality(Workers) - Cardinality(BusyWorkers)

add_task(task) == tasks' = Append(tasks, task)

\* A worker without a task, or one whose task has returned, takes the next.
\* The latter is counted in threads_working_ up to this moment.
take_task(w) ==
    /\ job[w] \in {"none", "returned"}
    /\ tasks # <<>>
    /\ tasks' = Tail(tasks)
    /\ job' = [job EXCEPT ![w] = Head(tasks).kind]
    /\ stack' = [stack EXCEPT ![w] =
                    IF Head(tasks).kind = "node"
                    THEN <<[node |-> Head(tasks).node, stage |-> "create"]>>
                    ELSE <<>>]
    /\ UNCHANGED <<ready, main_pc, threads, to_add, arrived, thread_state,
                   built, others, more_builds, program>>

no_task(w) ==
    /\ job[w] = "returned"
    /\ tasks = <<>>
    /\ job' = [job EXCEPT ![w] = "none"]
    /\ UNCHANGED <<tasks, stack, ready, main_pc, threads, to_add, arrived,
                   thread_state, built, others, more_builds, program>>

\* Tasks the pool gets from elsewhere in the program.
add_other ==
    /\ others > 0
    /\ main_pc # "end"
    /\ others' = others - 1
    /\ add_task(OtherTask)
    /\ UNCHANGED <<job, stack, ready, main_pc, threads, to_add, arrived,
                   thread_state, built, more_builds, program>>

other_returns(w) ==
    /\ job[w] = "other"
    /\ job' = [job EXCEPT ![w] = "returned"]
    /\ UNCHANGED <<tasks, stack, ready, main_pc, threads, to_add, arrived,
                   thread_state, built, others, more_builds, program>>

-----------------------------------------------------------------------------
(* prepare_build_context(): one task for each thread that is available     *)
(* sets thread_state and then waits for the others at a barrier, so that   *)
(* each task gets a thread of its own.                                     *)

count_threads ==
    /\ main_pc = "begin"
    /\ threads_available > 0
    /\ main_pc' = "prepare"
    /\ threads' = threads_available
    /\ to_add' = threads_available
    /\ UNCHANGED <<tasks, job, stack, ready, arrived, thread_state, built,
                   others, more_builds, program>>

\* A Barrier for no thread: its assertion fails and the program aborts.
barrier_for_none ==
    /\ main_pc = "begin"
    /\ threads_available = 0
    /\ program' = "aborted"
    /\ UNCHANGED <<tasks, job, stack, ready, main_pc, threads, to_add, arrived,
                   thread_state, built, others, more_builds>>

add_prepare ==
    /\ main_pc = "prepare"
    /\ to_add > 0
    /\ to_add' = to_add - 1
    /\ add_task(PrepareTask)
    /\ UNCHANGED <<job, stack, ready, main_pc, threads, arrived, thread_state,
                   built, others, more_builds, program>>

main_prepared ==
    /\ main_pc = "prepare"
    /\ to_add = 0
    /\ main_pc' = "wait"
    /\ thread_state' = thread_state \cup {Main}
    /\ UNCHANGED <<tasks, job, stack, ready, threads, to_add, arrived, built,
                   others, more_builds, program>>

prepare_task(w) ==
    /\ job[w] = "prepare"
    /\ job' = [job EXCEPT ![w] = "barrier"]
    /\ thread_state' = thread_state \cup {w}
    /\ arrived' = arrived + 1
    /\ UNCHANGED <<tasks, stack, ready, main_pc, threads, to_add, built,
                   others, more_builds, program>>

leave_barrier(w) ==
    /\ job[w] = "barrier"
    /\ arrived = threads
    /\ job' = [job EXCEPT ![w] = "returned"]
    /\ UNCHANGED <<tasks, stack, ready, main_pc, threads, to_add, arrived,
                   thread_state, built, others, more_builds, program>>

\* Mutant: no thread_pool.wait().
start_build_at_once ==
    /\ main_pc = "wait"
    /\ main_pc' = "build"
    /\ stack' = [stack EXCEPT ![Main] = <<[node |-> 1, stage |-> "create"]>>]
    /\ UNCHANGED <<tasks, job, ready, threads, to_add, arrived, thread_state,
                   built, others, more_builds, program>>

\* thread_pool.wait() at the end, then the call for the root.
start_build ==
    /\ main_pc = "wait"
    /\ tasks = <<>>
    /\ BusyWorkers = {}
    /\ main_pc' = "build"
    /\ stack' = [stack EXCEPT ![Main] = <<[node |-> 1, stage |-> "create"]>>]
    /\ UNCHANGED <<tasks, job, ready, threads, to_add, arrived, thread_state,
                   built, others, more_builds, program>>

-----------------------------------------------------------------------------
(* create_build_node().  The innermost call of a thread is the head of its *)
(* stack.                                                                  *)

At(t, stage) == stack[t] # <<>> /\ Head(stack[t]).stage = stage

\* The calls s with the innermost one at a stage, and one call more.
SetStage(s, stage) == <<[Head(s) EXCEPT !.stage = stage]>> \o Tail(s)
Call(s, n) == <<[node |-> n, stage |-> "create"]>> \o s

HasChildren(n) == 2 * n + 1 \in Nodes

\* next_build_node() finds the node block of this build.
Prepared(t) == t \in thread_state

\* It dereferences what thread_state was before: null, or a pointer into the
\* context of a build that has ended.
unprepared(t) ==
    /\ At(t, "create")
    /\ ~Prepared(t)
    /\ program' = "undefined"
    /\ UNCHANGED <<tasks, job, stack, ready, main_pc, threads, to_add, arrived,
                   thread_state, built, others, more_builds>>

create_leaf(t) ==
    /\ At(t, "create")
    /\ Prepared(t)
    /\ built' = [built EXCEPT ![Head(stack[t]).node] = @ + 1]
    /\ stack' = [stack EXCEPT ![t] = SetStage(@, "done")]
    /\ UNCHANGED <<tasks, job, ready, main_pc, threads, to_add, arrived,
                   thread_state, others, more_builds, program>>

\* Mutant: the pool is used without asking whether a thread is available.
AnyThreadForRightSide == TRUE

\* The test before async(); the pool's mutex is released after it.
ThreadForRightSide == threads_available > 0

decide_fork(t) ==
    /\ At(t, "create")
    /\ Prepared(t)
    /\ HasChildren(Head(stack[t]).node)
    /\ built' = [built EXCEPT ![Head(stack[t]).node] = @ + 1]
    /\ \/ /\ ThreadForRightSide
          /\ stack' = [stack EXCEPT ![t] = SetStage(@, "fork")]
       \/ /\ ~ThreadForRightSide
          /\ stack' = [stack EXCEPT ![t] =
                          Call(SetStage(@, "left"), 2 * Head(@).node)]
    /\ UNCHANGED <<tasks, job, ready, main_pc, threads, to_add, arrived,
                   thread_state, others, more_builds, program>>

async_right(t) ==
    /\ At(t, "fork")
    /\ add_task(NodeTask(2 * Head(stack[t]).node + 1))
    /\ stack' = [stack EXCEPT ![t] =
                    Call(SetStage(@, "forked"), 2 * Head(@).node)]
    /\ UNCHANGED <<job, ready, main_pc, threads, to_add, arrived, thread_state,
                   built, others, more_builds, program>>

\* The innermost call returns to the one around it.
return_left(t) ==
    /\ At(t, "done")
    /\ Tail(stack[t]) # <<>>
    /\ LET caller == Tail(stack[t])
       IN  stack' = [stack EXCEPT ![t] =
               CASE Head(caller).stage = "left" ->
                       Call(SetStage(caller, "right"), 2 * Head(caller).node + 1)
                 [] Head(caller).stage = "forked" -> SetStage(caller, "get")
                 [] OTHER -> SetStage(caller, "done")]
    /\ UNCHANGED <<tasks, job, ready, main_pc, threads, to_add, arrived,
                   thread_state, built, others, more_builds, program>>

\* Mutant: no future.get().
RightSideForgotten(t) == TRUE

RightSideReady(t) == 2 * Head(stack[t]).node + 1 \in ready

get_right(t) ==
    /\ At(t, "get")
    /\ RightSideReady(t)
    /\ stack' = [stack EXCEPT ![t] = SetStage(@, "done")]
    /\ UNCHANGED <<tasks, job, ready, main_pc, threads, to_add, arrived,
                   thread_state, built, others, more_builds, program>>

\* The outermost call returns: for a worker that is the end of its task, and
\* the value of the promise is set; for the caller it is the root.
return_node(w) ==
    /\ w \in Workers
    /\ At(w, "done")
    /\ Tail(stack[w]) = <<>>
    /\ ready' = ready \cup {Head(stack[w]).node}
    /\ stack' = [stack EXCEPT ![w] = <<>>]
    /\ job' = [job EXCEPT ![w] = "returned"]
    /\ UNCHANGED <<tasks, main_pc, threads, to_add, arrived, thread_state,
                   built, others, more_builds, program>>

return_root ==
    /\ At(Main, "done")
    /\ Tail(stack[Main]) = <<>>
    /\ stack' = [stack EXCEPT ![Main] = <<>>]
    /\ main_pc' = "end"
    /\ UNCHANGED <<tasks, job, ready, threads, to_add, arrived, thread_state,
                   built, others, more_builds, program>>

-----------------------------------------------------------------------------

\* The caller builds another tree with the same pool: a new context, barrier
\* and promises.  The thread_state of a worker is thread_local and keeps what
\* it was set to, which is now a context that is gone.  The worker that made
\* the last future ready may not have accounted for its task yet.
kdtree_build ==
    /\ main_pc = "end"
    /\ more_builds > 0
    /\ more_builds' = more_builds - 1
    /\ main_pc' = "begin"
    /\ thread_state' = {}
    /\ arrived' = 0
    /\ ready' = {}
    /\ built' = [n \in Nodes |-> 0]
    /\ UNCHANGED <<tasks, job, stack, threads, to_add, others, program>>

Create(t) ==
    \/ unprepared(t)
    \/ create_leaf(t)
    \/ decide_fork(t)
    \/ async_right(t)
    \/ return_left(t)
    \/ get_right(t)
    \/ return_node(t)

Worker(w) ==
    \/ take_task(w)
    \/ no_task(w)
    \/ other_returns(w)
    \/ prepare_task(w)
    \/ leave_barrier(w)

Caller ==
    \/ barrier_for_none
    \/ count_threads
    \/ add_prepare
    \/ main_prepared
    \/ start_build
    \/ return_root
    \/ kdtree_build

\* A program that has aborted takes no step, and of one whose behaviour is
\* undefined nothing is said.
Next ==
    /\ program = "running"
    /\ \/ \E t \in Threads : Create(t)
       \/ \E w \in Workers : Worker(w)
       \/ Caller
       \/ add_other

Spec == Init /\ [][Next]_vars

\* Every thread that can take a step takes one in the end.
FairSpec ==
    /\ Spec
    /\ \A w \in Workers :
          WF_vars(program = "running" /\ (Create(w) \/ Worker(w)))
    /\ WF_vars(program = "running" /\ (Create(Main) \/ Caller))

-----------------------------------------------------------------------------
(* Properties.                                                             *)

\* A call that has given its right half to the pool, or has decided to, and
\* may block for it.
StagesOf(s) == {s[i].stage : i \in DOMAIN s}
Delegates(t) == StagesOf(stack[t]) \cap {"fork", "forked", "get"} # {}

\* The pool always has a worker that depends on no other: threads_available()
\* may have changed by the time async() is called, but whoever then takes
\* the last free thread finds none available for itself.  This is what keeps
\* the build from blocking forever.
SomeWorkerDependsOnNobody == \E w \in Workers : ~Delegates(w)

\* What it rests on: only a worker with a node for a task is in any call.
OnlyNodeTasksCall == \A w \in Workers : job[w] # "node" => stack[w] = <<>>

\* No node is built by two threads, or twice by one; and when kdtree_build()
\* goes on to read the tree, the tree is all there: no node has one child
\* only, or children and no existence of its own.
TreeIsComplete ==
    /\ TypeOK
    /\ \A n \in Nodes : built[n] <= 1
    /\ main_pc = "end" =>
          /\ built[1] = 1
          /\ \A n \in Nodes : HasChildren(n) =>
                /\ built[2 * n] = built[2 * n + 1]
                /\ built[2 * n] = 1 => built[n] = 1

\* Tasks refer to the barrier and the context of the calling thread's stack:
\* none that does is queued or runs once these are gone.
NoTaskOutlivesItsBuild ==
    /\ main_pc \in {"build", "end"} =>
          /\ \A i \in DOMAIN tasks : tasks[i] # PrepareTask
          /\ \A w \in Workers : job[w] \notin {"prepare", "barrier"}
    /\ main_pc = "end" =>
          /\ \A i \in DOMAIN tasks : tasks[i].kind # "node"
          /\ \A w \in Workers : job[w] # "node"

\* What these rest on.  A node is queued, or in the call of one thread, or in
\* neither place.
NodesOf(s) == {s[i].node : i \in DOMAIN s}

On(s, n, stage) == \E i \in DOMAIN s : s[i].node = n /\ s[i].stage = stage

QueuedIn(q)   == {q[i].node : i \in {j \in DOMAIN q : q[j].kind = "node"}}
PreparesIn(q) == {i \in DOMAIN q : q[i].kind = "prepare"}

InStage(n, stage) == \E t \in Threads : On(stack[t], n, stage)

Phases == Stages \cup {"queued", "none"}

phase == [n \in Nodes |->
    IF n \in QueuedIn(tasks) THEN "queued"
    ELSE IF \E stage \in Stages : InStage(n, stage)
         THEN CHOOSE stage \in Stages : InStage(n, stage)
         ELSE "none"]

Distinct(s) == \A i, j \in DOMAIN s : s[i].node = s[j].node => i = j

QueuedOnce(q) == \A i, j \in DOMAIN q : q[i].kind = "node" /\ q[i] = q[j] => i = j

HeldOnce ==
    /\ \A t \in Threads :
          /\ Distinct(stack[t])
          /\ NodesOf(stack[t]) \cap QueuedIn(tasks) = {}
          /\ \A u \in Threads \ {t} : NodesOf(stack[t]) \cap NodesOf(stack[u]) = {}
    /\ QueuedOnce(tasks)

\* A call is for the half of the node that the call around it is at.
CallOf(caller, n) ==
    \/ caller.stage \in {"left", "forked"} /\ n = 2 * caller.node
    \/ caller.stage = "right" /\ n = 2 * caller.node + 1

Linked(s) == \A i \in DOMAIN s : i + 1 \in DOMAIN s => CallOf(s[i + 1], s[i].node)

\* The halves of a node, by where the node is: p is the phase of each node, b
\* how often each was built, done the nodes whose futures have their value.
Untouched(p, b, n) == p[n] = "none" /\ b[n] = 0
Finished(p, b, n)  == p[n] = "none" /\ b[n] = 1

HalvesAreRight(p, b, n) ==
    LET left  == 2 * n
        right == 2 * n + 1
    IN  /\ p[n] \in {"queued", "create", "fork"} \/ Untouched(p, b, n) =>
              Untouched(p, b, left) /\ Untouched(p, b, right)
        /\ p[n] = "left" => Untouched(p, b, right)
        /\ p[n] = "right" => Finished(p, b, left)
        /\ p[n] = "forked" => ~Untouched(p, b, right)
        /\ p[n] = "get" => Finished(p, b, left) /\ ~Untouched(p, b, right)
        /\ p[n] = "done" \/ Finished(p, b, n) =>
              \/ Untouched(p, b, left) /\ Untouched(p, b, right)
              \/ Finished(p, b, left) /\ Finished(p, b, right)

NodeIsRight(p, b, n) ==
    /\ p[n] \in {"queued", "create"} => b[n] = 0
    /\ p[n] \in Stages \ {"create"} => b[n] = 1
    /\ b[n] \in {0, 1}
    /\ HasChildren(n) => HalvesAreRight(p, b, n)
    /\ ~HasChildren(n) =>
          /\ p[n] \notin {"fork", "left", "right", "forked", "get"}
          /\ 2 * n \in Nodes => Untouched(p, b, 2 * n)

TreeIsRight(p, b, done) ==
    /\ \A n \in Nodes : NodeIsRight(p, b, n)
    /\ \A n \in done : Finished(p, b, n)

\* The caller is in the call for the root while there is any other, and at the
\* end of that one no other is left.
CallerIsAtRoot ==
    /\ main_pc = "build" <=> stack[Main] # <<>>
    /\ main_pc = "build" => 1 \in NodesOf(stack[Main])
    /\ main_pc \in {"begin", "prepare", "wait"} =>
          ready = {} /\ \A n \in Nodes : Untouched(phase, built, n)
    /\ main_pc = "end" =>
          built[1] = 1 /\ \A n \in Nodes : phase[n] = "none"

\* Each thread that is to be prepared has at most one task, or has arrived.
Preparing == {w \in Workers : job[w] = "prepare"}

PreparationsAreCounted ==
    /\ arrived + to_add + Cardinality(PreparesIn(tasks)) + Cardinality(Preparing) <= Cardinality(Workers)
    /\ main_pc # "prepare" => to_add = 0
    /\ main_pc \in {"begin", "build", "end"} =>
          /\ PreparesIn(tasks) = {}
          /\ \A w \in Workers : job[w] \notin {"prepare", "barrier"}
    /\ main_pc = "begin" => arrived = 0

IInv ==
    /\ TypeOK
    /\ \A w \in Workers : job[w] = "node" <=> stack[w] # <<>>
    /\ HeldOnce
    /\ \A t \in Threads : Linked(stack[t])
    /\ TreeIsRight(phase, built, ready)
    /\ CallerIsAtRoot
    /\ PreparationsAreCounted

\* A call of kdtree_build() that has counted every thread of the pool returns.
\* Any call either returns or goes wrong in one of the two ways there are: no
\* thread was available, for which there is no barrier, or a thread that was
\* not available then builds a node now, which has no thread_state for it.
\* That a thread is not available takes tasks of somebody else, or an earlier
\* build whose last task is not accounted for yet.
BuildEnds ==
    /\ main_pc = "prepare" /\ threads = Cardinality(Workers) ~> main_pc = "end"
    /\ main_pc = "begin" ~> main_pc = "end" \/ program # "running"
=============================================================================

------------------------------ MODULE BvhBuild ------------------------------
(***************************************************************************)
(* The threads that build a bounding volume hierarchy (bvh_build() and     *)
(* what it calls in lib/intersection_structures/bvh.cpp) on a ThreadPool.  *)
(*                                                                         *)
(* Near the root, a node is built horizontally: the call has a number of   *)
(* threads to use, hands out that many chunks of its range twice, waits at *)
(* a barrier for the chunks, divides the threads between the two halves    *)
(* and gives the right one to the pool without asking whether a thread is  *)
(* available.  A half with less than two threads is built vertically, as   *)
(* the nodes of a k-d tree are (KdTreeBuild.tla).                          *)
(*                                                                         *)
(* The pool is seen as in KdTreeBuild.  The model begins when              *)
(* prepare_build_context() is done, which leaves the pool without a task.  *)
(* A worker it did not prepare, because something else had it then, has no *)
(* thread_state, as in KdTreeBuild; when it is given a node to build, the  *)
(* model goes on and the program does not.                                 *)
(* Where the tree splits is not modelled; a subtree of at most             *)
(* THREAD_MIN_INTERSECTABLES, built without the pool, is a leaf here.      *)
(***************************************************************************)
EXTENDS Naturals, Sequences, FiniteSets, TLC

CONSTANTS
    Workers,     \* threads of the pool
    Main,        \* the thread that calls bvh_build()
    NumThreads,  \* num_threads: what threads_available() was at the beginning
    Nodes,       \* nodes there may be, numbered like a heap: the children of
                 \* n are 2n and 2n + 1
    Inner,       \* nodes that are not leaves, whatever the input
    Shares       \* numbers of threads a left half may be given

ASSUME WorkersAssumption == IsFiniteSet(Workers) /\ Workers # {}
ASSUME MainAssumption == Main \notin Workers
\* The Barrier of prepare_build_context() is not made for no thread: it has an
\* assertion for that.
ASSUME NumThreadsAssumption == NumThreads \in 1..Cardinality(Workers)
ASSUME NodesAssumption ==
    /\ IsFiniteSet(Nodes) /\ Nodes \subseteq Nat \ {0} /\ 1 \in Nodes
    /\ \A n \in Nodes : 2 * n \in Nodes <=> 2 * n + 1 \in Nodes
    /\ \A n \in Nodes \ {1} : \E m \in Nodes : n \in {2 * m, 2 * m + 1}
ASSUME InnerAssumption == Inner \subseteq {n \in Nodes : 2 * n + 1 \in Nodes}
ASSUME SharesAssumption == 1 \in Shares /\ Shares \subseteq Nat

VARIABLES
    tasks,      \* tasks_ of the pool
    job,        \* kind of the task of a worker, "none" when it has none
    chunk_of,   \* the node the chunk task of a worker is for
    stack,      \* the calls of create_build_node() of each thread
    arrived,    \* tasks that have arrived at the barrier of each node
    ready,      \* nodes whose future has its value
    built,      \* history: nodes that were built, with how often
    done        \* bvh_build() has its root

vars == <<tasks, job, chunk_of, stack, arrived, ready, built, done>>

Threads == Workers \cup {Main}

\* Where a call is.  Horizontally: "chunks" while it adds tasks, "barrier" in
\* arrive_and_wait(), in the first and the second parallel_for; then "async".
\* Vertically: "fork" when threads_available() was greater than zero, "left"
\* and "right" in a recursive call with the other half to be done, respectively
\* done, on this thread.  Both: "create" at the beginning, "forked" in the call
\* for the left half with the right half given to the pool, "get" in
\* future.get(), "done" before the return.
Stages == {"create", "chunks1", "barrier1", "chunks2", "barrier2", "async",
           "fork", "left", "right", "forked", "get", "done"}

ThreadCounts == 0..NumThreads

Frames == [node : Nodes, threads : ThreadCounts, stage : Stages,
           todo : 0..NumThreads]

NodeTask(n, t) == [kind |-> "node", node |-> n, threads |-> t]
ChunkTask(n)   == [kind |-> "chunk", node |-> n, threads |-> 0]
TaskSet == [kind : {"node"}, node : Nodes, threads : ThreadCounts]
               \cup [kind : {"chunk"}, node : Nodes, threads : {0}]

\* A round has one chunk less in the pool than it has threads.
MaxArrived == NumThreads - 1

TypeOK ==
    /\ tasks \in Seq(TaskSet)
    /\ job \in [Workers -> {"none", "node", "chunk", "returned"}]
    /\ chunk_of \in [Workers -> Nodes]
    /\ stack \in [Threads -> Seq(Frames)]
    /\ arrived \in [Nodes -> 0..MaxArrived]
    /\ ready \subseteq Nodes
    /\ built \in [Nodes -> Nat]
    /\ done \in BOOLEAN

Frame(n, t) == [node |-> n, threads |-> t, stage |-> "create", todo |-> 0]

Init ==
    /\ tasks = <<>>
    /\ job = [w \in Workers |-> "none"]
    /\ chunk_of = [w \in Workers |-> 1]
    /\ stack = [t \in Threads |->
                   IF t = Main THEN <<Frame(1, NumThreads)>> ELSE <<>>]
    /\ arrived = [n \in Nodes |-> 0]
    /\ ready = {}
    /\ built = [n \in Nodes |-> 0]
    /\ done = FALSE

-----------------------------------------------------------------------------
(* The pool.                                                               *)

BusyWorkers == {w \in Workers : job[w] # "none"}

threads_available == Cardinality(Workers) - Cardinality(BusyWorkers)

add_task(task) == tasks' = Append(tasks, task)

take_task(w) ==
    /\ job[w] \in {"none", "returned"}
    /\ tasks # <<>>
    /\ tasks' = Tail(tasks)
    /\ LET task == Head(tasks)
       IN  /\ job' = [job EXCEPT ![w] = task.kind]
           /\ IF task.kind = "node"
              THEN /\ stack' = [stack EXCEPT ![w] =
                                   <<Frame(task.node, task.threads)>>]
                   /\ UNCHANGED chunk_of
              ELSE /\ chunk_of' = [chunk_of EXCEPT ![w] = task.node]
                   /\ UNCHANGED stack
    /\ UNCHANGED <<arrived, ready, built, done>>

no_task(w) ==
    /\ job[w] = "returned"
    /\ tasks = <<>>
    /\ job' = [job EXCEPT ![w] = "none"]
    /\ UNCHANGED <<tasks, chunk_of, stack, arrived, ready, built, done>>

-----------------------------------------------------------------------------
(* create_build_node().  The innermost call of a thread is the head of its *)
(* stack.                                                                  *)

At(t, stage) == stack[t] # <<>> /\ Head(stack[t]).stage = stage
Node(t) == Head(stack[t]).node
NumFor(t) == Head(stack[t]).threads

SetStage(s, stage) == <<[Head(s) EXCEPT !.stage = stage]>> \o Tail(s)
Call(s, n, threads) == <<Frame(n, threads)>> \o s

MaySplit(n) == 2 * n + 1 \in Nodes
MayBeLeaf(n) == n \notin Inner

\* next_build_node(): the node exists from now on.
NextNode(t) == built' = [built EXCEPT ![Node(t)] = @ + 1]

\* A call that is given two threads or more and many intersectables.
Horizontally(t) == NumFor(t) >= 2

create_leaf(t) ==
    /\ At(t, "create")
    /\ MayBeLeaf(Node(t))
    /\ NextNode(t)
    /\ stack' = [stack EXCEPT ![t] = SetStage(@, "done")]
    /\ UNCHANGED <<tasks, job, chunk_of, arrived, ready, done>>

-----------------------------------------------------------------------------
(* create_build_node_thread_horizontally().                                *)

\* The head of a parallel_for: one chunk less than threads goes to the pool.
Chunks(s, stage) ==
    <<[Head(s) EXCEPT !.stage = stage, !.todo = Head(s).threads - 1]>> \o Tail(s)

begin_horizontally(t) ==
    /\ At(t, "create")
    /\ Horizontally(t)
    /\ NextNode(t)
    /\ stack' = [stack EXCEPT ![t] = Chunks(@, "chunks1")]
    /\ UNCHANGED <<tasks, job, chunk_of, arrived, ready, done>>

OneChunkLess(s) == <<[Head(s) EXCEPT !.todo = @ - 1]>> \o Tail(s)

add_chunk(t) ==
    /\ At(t, "chunks1") \/ At(t, "chunks2")
    /\ Head(stack[t]).todo > 0
    /\ add_task(ChunkTask(Node(t)))
    /\ stack' = [stack EXCEPT ![t] = OneChunkLess(@)]
    /\ UNCHANGED <<job, chunk_of, arrived, ready, built, done>>

\* The last chunk is done by the calling thread, which then waits.
own_chunk(t) ==
    /\ At(t, "chunks1") \/ At(t, "chunks2")
    /\ Head(stack[t]).todo = 0
    /\ \/ /\ At(t, "chunks1")
          /\ stack' = [stack EXCEPT ![t] = SetStage(@, "barrier1")]
       \/ /\ At(t, "chunks2")
          /\ stack' = [stack EXCEPT ![t] = SetStage(@, "barrier2")]
    /\ UNCHANGED <<tasks, job, chunk_of, arrived, ready, built, done>>

\* Mutant of chunk_returns: a cancelled chunk returns without arriving.
chunk_returns_early(w) ==
    /\ job[w] = "chunk"
    /\ chunk_of' = [chunk_of EXCEPT ![w] = 1]
    /\ job' = [job EXCEPT ![w] = "returned"]
    /\ UNCHANGED <<tasks, stack, arrived, ready, built, done>>

\* The task of a chunk: func() and barrier.arrive().
chunk_returns(w) ==
    /\ job[w] = "chunk"
    /\ arrived' = [arrived EXCEPT ![chunk_of[w]] = @ + 1]
    /\ chunk_of' = [chunk_of EXCEPT ![w] = 1]
    /\ job' = [job EXCEPT ![w] = "returned"]
    /\ UNCHANGED <<tasks, stack, ready, built, done>>

\* Mutant of AllChunksArrived: the barrier is made for one thread less.
AllButOneArrived(t) == arrived[Node(t)] + 2 >= NumFor(t)

AllChunksArrived(t) == arrived[Node(t)] = NumFor(t) - 1

\* After the first round the node may turn out to be a leaf (planar, or the
\* build was cancelled); otherwise the second begins.
leave_barrier1(t) ==
    /\ At(t, "barrier1")
    /\ AllChunksArrived(t)
    /\ arrived' = [arrived EXCEPT ![Node(t)] = 0]
    /\ \/ /\ MayBeLeaf(Node(t))
          /\ stack' = [stack EXCEPT ![t] = SetStage(@, "done")]
       \/ /\ MaySplit(Node(t))
          /\ stack' = [stack EXCEPT ![t] = Chunks(@, "chunks2")]
    /\ UNCHANGED <<tasks, job, chunk_of, ready, built, done>>

leave_barrier2(t) ==
    /\ At(t, "barrier2")
    /\ AllChunksArrived(t)
    /\ arrived' = [arrived EXCEPT ![Node(t)] = 0]
    /\ stack' = [stack EXCEPT ![t] = SetStage(@, "async")]
    /\ UNCHANGED <<tasks, job, chunk_of, ready, built, done>>

\* The threads are divided in proportion to the halves, at least one each.
async_right_half(t) ==
    /\ At(t, "async")
    /\ \E threads_left \in Shares \cap 1..(NumFor(t) - 1) :
          /\ add_task(NodeTask(2 * Node(t) + 1, NumFor(t) - threads_left))
          /\ stack' = [stack EXCEPT ![t] =
                          Call(SetStage(@, "forked"), 2 * Node(t), threads_left)]
    /\ UNCHANGED <<job, chunk_of, arrived, ready, built, done>>

-----------------------------------------------------------------------------
(* create_build_node() for one thread.                                     *)

ThreadForRightSide == threads_available > 0

decide_fork(t) ==
    /\ At(t, "create")
    /\ ~Horizontally(t)
    /\ MaySplit(Node(t))
    /\ NextNode(t)
    /\ \/ /\ ThreadForRightSide
          /\ stack' = [stack EXCEPT ![t] = SetStage(@, "fork")]
       \/ /\ ~ThreadForRightSide
          /\ stack' = [stack EXCEPT ![t] =
                          Call(SetStage(@, "left"), 2 * Node(t), 1)]
    /\ UNCHANGED <<tasks, job, chunk_of, arrived, ready, done>>

async_right(t) ==
    /\ At(t, "fork")
    /\ add_task(NodeTask(2 * Node(t) + 1, 1))
    /\ stack' = [stack EXCEPT ![t] = Call(SetStage(@, "forked"), 2 * Node(t), 1)]
    /\ UNCHANGED <<job, chunk_of, arrived, ready, built, done>>

-----------------------------------------------------------------------------
(* Returns.                                                                *)

\* The innermost call returns to the one around it.
return_left(t) ==
    /\ At(t, "done")
    /\ Tail(stack[t]) # <<>>
    /\ LET caller == Tail(stack[t])
       IN  stack' = [stack EXCEPT ![t] =
               CASE Head(caller).stage = "left" ->
                       Call(SetStage(caller, "right"),
                            2 * Head(caller).node + 1, 1)
                 [] Head(caller).stage = "forked" -> SetStage(caller, "get")
                 [] OTHER -> SetStage(caller, "done")]
    /\ UNCHANGED <<tasks, job, chunk_of, arrived, ready, built, done>>

\* Mutant of RightSideReady: the right half is used without waiting for it.
RightSideForgotten(t) == TRUE

RightSideReady(t) == 2 * Node(t) + 1 \in ready

get_right(t) ==
    /\ At(t, "get")
    /\ RightSideReady(t)
    /\ stack' = [stack EXCEPT ![t] = SetStage(@, "done")]
    /\ UNCHANGED <<tasks, job, chunk_of, arrived, ready, built, done>>

return_node(w) ==
    /\ w \in Workers
    /\ At(w, "done")
    /\ Tail(stack[w]) = <<>>
    /\ ready' = ready \cup {Node(w)}
    /\ stack' = [stack EXCEPT ![w] = <<>>]
    /\ job' = [job EXCEPT ![w] = "returned"]
    /\ UNCHANGED <<tasks, chunk_of, arrived, built, done>>

return_root ==
    /\ At(Main, "done")
    /\ Tail(stack[Main]) = <<>>
    /\ stack' = [stack EXCEPT ![Main] = <<>>]
    /\ done' = TRUE
    /\ UNCHANGED <<tasks, job, chunk_of, arrived, ready, built>>

-----------------------------------------------------------------------------

Create(t) ==
    \/ create_leaf(t)
    \/ begin_horizontally(t)
    \/ add_chunk(t)
    \/ own_chunk(t)
    \/ leave_barrier1(t)
    \/ leave_barrier2(t)
    \/ async_right_half(t)
    \/ decide_fork(t)
    \/ async_right(t)
    \/ return_left(t)
    \/ get_right(t)
    \/ return_node(t)

Worker(w) ==
    \/ take_task(w)
    \/ no_task(w)
    \/ chunk_returns(w)

Next ==
    \/ \E t \in Threads : Create(t)
    \/ \E w \in Workers : Worker(w)
    \/ return_root

Spec == Init /\ [][Next]_vars

\* Every thread that can take a step takes one in the end.
FairSpec ==
    /\ Spec
    /\ \A w \in Workers : WF_vars(Create(w) \/ Worker(w))
    /\ WF_vars(Create(Main) \/ return_root)

-----------------------------------------------------------------------------
(* Properties.                                                             *)

\* A thread that can do nothing before another does something.
Blocked(t) ==
    \/ At(t, "get") /\ ~RightSideReady(t)
    \/ (At(t, "barrier1") \/ At(t, "barrier2")) /\ ~AllChunksArrived(t)
    \/ stack[t] = <<>> /\ (t \in Workers => job[t] = "none" /\ tasks = <<>>)

\* There is always a thread that can go on with the build.
SomeThreadGoesOn == done \/ \E t \in Threads : ~Blocked(t)

\* Where a call is in one of the two rounds of chunks.
RoundStages == {"chunks1", "barrier1", "chunks2", "barrier2"}

ChunksIn(q, n)   == {i \in DOMAIN q : q[i] = ChunkTask(n)}
RunningChunks(n) == {w \in Workers : job[w] = "chunk" /\ chunk_of[w] = n}

\* The chunks of a node that are queued, run or have arrived.
ChunksOf(n) ==
    arrived[n] + Cardinality(ChunksIn(tasks, n)) + Cardinality(RunningChunks(n))

\* The tasks of a node's chunks refer to the barrier and the chunk states on
\* the stack of the call that made them: none is left when that returns.
NoChunkOutlivesItsCall ==
    LET InRound(n) == \E t \in Threads : \E i \in DOMAIN stack[t] :
                         stack[t][i].node = n /\ stack[t][i].stage \in RoundStages
    IN  /\ \A i \in DOMAIN tasks :
              tasks[i].kind = "chunk" => InRound(tasks[i].node)
        /\ \A w \in Workers : job[w] = "chunk" => InRound(chunk_of[w])

\* Chunks are not lost: with those not yet added they make up the round.
ChunksAddUp ==
    \A t \in Threads : \A i \in DOMAIN stack[t] :
        LET f == stack[t][i] IN
        f.stage \in RoundStages => f.threads - 1 = f.todo + ChunksOf(f.node)

\* All that threads share of a round is what the call makes of it.
ChunksAreExact == TypeOK /\ NoChunkOutlivesItsCall /\ ChunksAddUp

\* No node is built by two threads, or twice by one; and when bvh_build() goes
\* on to read the tree, the tree is all there: no node has one child only, or
\* children and no existence of its own.
TreeIsComplete ==
    /\ \A n \in Nodes : built[n] <= 1
    /\ done =>
          /\ built[1] = 1
          /\ \A n \in Nodes : MaySplit(n) =>
                /\ built[2 * n] = built[2 * n + 1]
                /\ built[2 * n] = 1 => built[n] = 1

\* What these rest on.  A node is queued, or in the call of one thread, or in
\* neither place.
NodesOf(s) == {s[i].node : i \in DOMAIN s}

On(s, n, stage) == \E i \in DOMAIN s : s[i].node = n /\ s[i].stage = stage

QueuedIn(q) == {q[i].node : i \in {j \in DOMAIN q : q[j].kind = "node"}}

InStage(n, stage) == \E t \in Threads : On(stack[t], n, stage)

Phases == Stages \cup {"queued", "none"}

phase == [n \in Nodes |->
    IF n \in QueuedIn(tasks) THEN "queued"
    ELSE IF \E stage \in Stages : InStage(n, stage)
         THEN CHOOSE stage \in Stages : InStage(n, stage)
         ELSE "none"]

Distinct(s) == \A i, j \in DOMAIN s : s[i].node = s[j].node => i = j

QueuedOnce(q) ==
    \A i, j \in DOMAIN q :
        /\ q[i].kind = "node" /\ q[j].kind = "node"
        /\ q[i].node = q[j].node
        => i = j

HeldOnce ==
    /\ \A t \in Threads :
          /\ Distinct(stack[t])
          /\ NodesOf(stack[t]) \cap QueuedIn(tasks) = {}
          /\ \A u \in Threads \ {t} : NodesOf(stack[t]) \cap NodesOf(stack[u]) = {}
    /\ QueuedOnce(tasks)

\* A call is for the half of the node that the call around it is at.
CallOf(caller, n) ==
    \/ caller.stage \in {"left", "forked"} /\ n = 2 * caller.node
    \/ caller.stage = "right" /\ n = 2 * caller.node + 1

Linked(s) == \A i \in DOMAIN s : i + 1 \in DOMAIN s => CallOf(s[i + 1], s[i].node)

\* The halves of a node, by where the node is: p is the phase of each node, b
\* how often each was built, d the nodes whose futures have their value.
Untouched(p, b, n) == p[n] = "none" /\ b[n] = 0
Finished(p, b, n)  == p[n] = "none" /\ b[n] = 1

BeforeHalves == {"queued", "create", "fork", "async"} \cup RoundStages

HalvesAreRight(p, b, n) ==
    LET left  == 2 * n
        right == 2 * n + 1
    IN  /\ p[n] \in BeforeHalves \/ Untouched(p, b, n) =>
              Untouched(p, b, left) /\ Untouched(p, b, right)
        /\ p[n] = "left" => Untouched(p, b, right)
        /\ p[n] = "right" => Finished(p, b, left)
        /\ p[n] = "forked" => ~Untouched(p, b, right)
        /\ p[n] = "get" => Finished(p, b, left) /\ ~Untouched(p, b, right)
        /\ p[n] = "done" \/ Finished(p, b, n) =>
              \/ Untouched(p, b, left) /\ Untouched(p, b, right)
              \/ Finished(p, b, left) /\ Finished(p, b, right)

NodeIsRight(p, b, n) ==
    /\ p[n] \in {"queued", "create"} => b[n] = 0
    /\ p[n] \in Stages \ {"create"} => b[n] = 1
    /\ b[n] \in {0, 1}
    /\ MaySplit(n) => HalvesAreRight(p, b, n)
    /\ ~MaySplit(n) => p[n] \in {"queued", "none", "create", "chunks1", "barrier1", "done"}

TreeIsRight(p, b, d) ==
    /\ \A n \in Nodes : NodeIsRight(p, b, n)
    /\ \A n \in d : Finished(p, b, n)

\* The caller is in the call for the root until it is done, and no other call
\* is left then.
CallerIsAtRoot ==
    /\ ~done => 1 \in NodesOf(stack[Main])
    /\ done => /\ stack[Main] = <<>>
               /\ built[1] = 1 /\ \A n \in Nodes : phase[n] = "none"

\* The call f is in a round of the chunks that c counts.
chunks == [n \in Nodes |-> ChunksOf(n)]

RoundIsRight(f, c) ==
    /\ f.stage \in RoundStages => f.threads - 1 = f.todo + c[f.node]
    /\ f.stage \in {"barrier1", "barrier2"} => f.todo = 0

\* The calls that threads are at, and the nodes in no round: s are the stacks,
\* p is the phase of each node.
RoundsAreRight(s, p, c) ==
    /\ \A t \in Threads : s[t] # <<>> => RoundIsRight(Head(s[t]), c)
    /\ \A n \in Nodes : p[n] \notin RoundStages => c[n] = 0

IInv ==
    /\ TypeOK
    /\ \A w \in Workers : job[w] = "node" <=> stack[w] # <<>>
    /\ HeldOnce
    /\ \A t \in Threads : Linked(stack[t])
    /\ TreeIsRight(phase, built, ready)
    /\ CallerIsAtRoot
    /\ RoundsAreRight(stack, phase, chunks)

\* Workers are interchangeable.
Symmetry == Permutations(Workers)

\* bvh_build() returns.
BuildEnds == <>done
=============================================================================

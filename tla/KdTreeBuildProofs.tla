------------------------- MODULE KdTreeBuildProofs -------------------------
(***************************************************************************)
(* The build of a k-d tree, for any number of workers, any shape of the    *)
(* tree, any number of builds and of tasks of others.                      *)
(*                                                                         *)
(* First, it cannot use up the pool: some worker does not depend on a      *)
(* future.  A worker comes to depend on one only after it saw a free       *)
(* worker, and a free worker is in no call.  Taking a task, which may make *)
(* that one busy, does not make it depend on anything.                     *)
(*                                                                         *)
(* Second, each node is built once and the tree is complete at the end,    *)
(* and no task of a build is left then.  This takes the inductive          *)
(* invariant IInv: a node is queued, in the call of one thread, or nowhere *)
(* (HeldOnce), and where it is says what has become of its halves          *)
(* (TreeIsRight).  Each step changes the phases of a node and of one or    *)
(* both of its halves; that the tree stays right is proved of functions p  *)
(* and b alone, without the threads (NodeCreated to NodeGoesOn), that the  *)
(* phases change like that is proved of the stacks and the queue           *)
(* (StageStep to FirstStep), and each action combines one of both.         *)
(***************************************************************************)
EXTENDS KdTreeBuild, FiniteSetTheorems, SequenceTheorems, TLAPS

\* The types the argument needs.
Calls == [node : Nat, stage : Stages]
Shape ==
    /\ tasks \in Seq([kind : {"node", "prepare", "other"}, node : Nat])
    /\ job \in [Workers -> Jobs]
    /\ stack \in [Threads -> Seq(Calls)]

PoolInv ==
    /\ Shape
    /\ OnlyNodeTasksCall
    /\ SomeWorkerDependsOnNobody

-----------------------------------------------------------------------------
(* Sequences that begin with an element.                                   *)

LEMMA ConsIndices ==
    ASSUME NEW S, NEW f \in S, NEW s \in Seq(S), NEW c, c = <<f>> \o s
    PROVE  /\ c \in Seq(S) /\ c # <<>> /\ Head(c) = f /\ Tail(c) = s
           /\ DOMAIN c = 1..(1 + Len(s)) /\ DOMAIN s = 1..Len(s) /\ Len(s) \in Nat
           /\ c[1] = f /\ 1 \in DOMAIN c
           /\ \A i \in DOMAIN s : i + 1 \in DOMAIN c /\ c[i + 1] = s[i]
           /\ \A i \in DOMAIN c : i = 1 \/ (i - 1 \in DOMAIN s /\ c[i] = s[i - 1])
<1>1. <<f>> \in Seq(S) /\ Len(<<f>>) = 1 /\ <<f>>[1] = f
  OBVIOUS
<1>2. /\ c \in Seq(S)
      /\ Len(c) = 1 + Len(s)
      /\ \A i \in 1..(1 + Len(s)) : c[i] = IF i <= 1 THEN <<f>>[i] ELSE s[i - 1]
  BY <1>1, ConcatProperties
<1>3. DOMAIN c = 1..(1 + Len(s)) /\ DOMAIN s = 1..Len(s) /\ Len(s) \in Nat
  BY <1>2, LenProperties
<1>4. Head(c) = f /\ Tail(c) = s /\ c # <<>>
  BY ConcatSimplifications, <1>1, <1>2
<1>5. c[1] = f /\ 1 \in DOMAIN c
  BY <1>1, <1>2, <1>3
<1>6. \A i \in DOMAIN s : i + 1 \in DOMAIN c /\ c[i + 1] = s[i]
  BY <1>2, <1>3
<1>7. \A i \in DOMAIN c : i = 1 \/ (i - 1 \in DOMAIN s /\ c[i] = s[i - 1])
  BY <1>2, <1>3
<1> QED
  BY <1>2, <1>3, <1>4, <1>5, <1>6, <1>7

LEMMA HeadAndTail ==
    ASSUME NEW S, NEW s \in Seq(S), s # <<>>
    PROVE  Head(s) \in S /\ Tail(s) \in Seq(S) /\ s = <<Head(s)>> \o Tail(s)
<1>1. Head(s) \in S /\ Tail(s) \in Seq(S)
  BY HeadTailProperties
<1>2. s = <<Head(s)>> \o Tail(s)
  <2>1. /\ Len(Tail(s)) = Len(s) - 1 /\ Len(s) \in Nat
        /\ \A i \in 1..Len(Tail(s)) : Tail(s)[i] = s[i + 1]
        /\ Head(s) = s[1]
    BY HeadTailProperties, LenProperties
  <2>2. <<Head(s)>> \in Seq(S) /\ Len(<<Head(s)>>) = 1
        /\ <<Head(s)>>[1] = s[1]
    BY <1>1, <2>1
  <2>3. /\ <<Head(s)>> \o Tail(s) \in Seq(S)
        /\ Len(<<Head(s)>> \o Tail(s)) = 1 + Len(Tail(s))
        /\ \A i \in 1..(1 + Len(Tail(s))) :
              (<<Head(s)>> \o Tail(s))[i] =
                 IF i <= 1 THEN <<Head(s)>>[i] ELSE Tail(s)[i - 1]
    BY <1>1, <2>2, ConcatProperties
  <2>4. \A i \in 1..Len(s) : s[i] = (<<Head(s)>> \o Tail(s))[i]
    BY <2>1, <2>2, <2>3
  <2>5. Len(s) = Len(<<Head(s)>> \o Tail(s))
    BY <2>1, <2>3
  <2> QED
    BY <2>3, <2>4, <2>5, SeqEqual
<1> QED
  BY <1>1, <1>2

-----------------------------------------------------------------------------
(* The stages of a stack of calls.                                         *)

\* A sequence is its head in front of its tail.
LEMMA StagesOfCons ==
    ASSUME NEW f \in Calls, NEW s \in Seq(Calls)
    PROVE  /\ <<f>> \o s \in Seq(Calls)
           /\ StagesOf(<<f>> \o s) = {f.stage} \cup StagesOf(s)
           /\ Head(<<f>> \o s) = f
           /\ Tail(<<f>> \o s) = s
           /\ <<f>> \o s # <<>>
<1>1. PICK c : c = <<f>> \o s
  OBVIOUS
<1>2. /\ c \in Seq(Calls) /\ c # <<>> /\ Head(c) = f /\ Tail(c) = s
      /\ c[1] = f /\ 1 \in DOMAIN c
      /\ \A i \in DOMAIN s : i + 1 \in DOMAIN c /\ c[i + 1] = s[i]
      /\ \A i \in DOMAIN c : i = 1 \/ (i - 1 \in DOMAIN s /\ c[i] = s[i - 1])
  BY <1>1, ConsIndices
<1>3. ASSUME NEW i \in DOMAIN c PROVE c[i].stage \in {f.stage} \cup StagesOf(s)
  <2>1. i = 1 \/ (i - 1 \in DOMAIN s /\ c[i] = s[i - 1])
    BY <1>2
  <2> QED
    BY <1>2, <2>1 DEF StagesOf
<1>4. ASSUME NEW i \in DOMAIN s PROVE s[i].stage \in StagesOf(c)
  <2>1. i + 1 \in DOMAIN c /\ c[i + 1] = s[i]
    BY <1>2
  <2> QED
    BY <2>1 DEF StagesOf
<1>5. f.stage \in StagesOf(c)
  BY <1>2 DEF StagesOf
<1>6. StagesOf(c) = {f.stage} \cup StagesOf(s)
  BY <1>3, <1>4, <1>5 DEF StagesOf
<1> QED
  BY <1>1, <1>2, <1>6

LEMMA StagesOfNonEmpty ==
    ASSUME NEW s \in Seq(Calls), s # <<>>
    PROVE  /\ Head(s) \in Calls
           /\ Tail(s) \in Seq(Calls)
           /\ StagesOf(s) = {Head(s).stage} \cup StagesOf(Tail(s))
<1>1. Head(s) \in Calls /\ Tail(s) \in Seq(Calls) /\ s = <<Head(s)>> \o Tail(s)
  BY HeadAndTail
<1> QED
  BY <1>1, StagesOfCons

LEMMA StagesOfSetStage ==
    ASSUME NEW s \in Seq(Calls), s # <<>>, NEW stage \in Stages
    PROVE  /\ SetStage(s, stage) \in Seq(Calls)
           /\ StagesOf(SetStage(s, stage)) = {stage} \cup StagesOf(Tail(s))
<1> DEFINE f == [Head(s) EXCEPT !.stage = stage]
<1>1. f \in Calls /\ f.stage = stage
  BY StagesOfNonEmpty DEF Calls
<1>2. Tail(s) \in Seq(Calls)
  BY StagesOfNonEmpty
<1>3. SetStage(s, stage) = <<f>> \o Tail(s)
  BY DEF SetStage
<1> HIDE DEF f
<1> QED
  BY <1>1, <1>2, <1>3, StagesOfCons

LEMMA StagesOfCall ==
    ASSUME NEW s \in Seq(Calls), NEW n \in Nat
    PROVE  /\ Call(s, n) \in Seq(Calls)
           /\ StagesOf(Call(s, n)) = {"create"} \cup StagesOf(s)
<1>1. [node |-> n, stage |-> "create"] \in Calls
  BY DEF Calls, Stages
<1> QED
  BY <1>1, StagesOfCons DEF Call

LEMMA StagesOfEmpty == StagesOf(<<>>) = {}
  BY DEF StagesOf

LEMMA RightChild == \A n \in Nat : 2 * n + 1 \in Nat
  OBVIOUS

LEMMA AppendType ==
    ASSUME NEW S, NEW s \in Seq(S), NEW e \in S
    PROVE  Append(s, e) \in Seq(S)
  OBVIOUS

LEMMA StagesOfOne ==
    ASSUME NEW f \in Calls
    PROVE  <<f>> \in Seq(Calls) /\ StagesOf(<<f>>) = {f.stage}
<1>1. <<f>> \in Seq(Calls) /\ DOMAIN <<f>> = 1..1 /\ <<f>>[1] = f
  OBVIOUS
<1> QED
  BY <1>1 DEF StagesOf

-----------------------------------------------------------------------------
(* The steps.                                                              *)

LEMMA InitPoolInv == Init => PoolInv
<1> SUFFICES ASSUME Init PROVE PoolInv
  OBVIOUS
<1>1. Shape
  <2>1. tasks \in Seq([kind : {"node", "prepare", "other"}, node : Nat])
    BY DEF Init
  <2>2. job \in [Workers -> Jobs]
    BY DEF Init, Jobs
  <2>3. stack \in [Threads -> Seq(Calls)]
    BY DEF Init
  <2> QED
    BY <2>1, <2>2, <2>3 DEF Shape
<1>2. \A w \in Workers : stack[w] = <<>>
  BY DEF Init, Threads
<1>3. SomeWorkerDependsOnNobody
  BY <1>2, StagesOfEmpty, WorkersAssumption
  DEF SomeWorkerDependsOnNobody, Delegates
<1> QED
  BY <1>1, <1>2, <1>3 DEF PoolInv, OnlyNodeTasksCall

\* When a thread is available some worker has no task.
LEMMA FreeWorker ==
    ASSUME threads_available > 0
    PROVE  \E v \in Workers : job[v] = "none"
<1> SUFFICES ASSUME \A v \in Workers : job[v] # "none" PROVE FALSE
  OBVIOUS
<1>1. BusyWorkers = Workers
  BY DEF BusyWorkers, Busy
<1>2. Cardinality(Workers) \in Nat
  BY FS_CardinalityType, WorkersAssumption
<1> QED
  BY <1>1, <1>2 DEF threads_available

\* A step of create_build_node(): t goes on with the calls s, which make it
\* depend on a future only if it did before or saw a free worker.
LEMMA CallStep ==
    ASSUME PoolInv, NEW t \in Threads, stack[t] # <<>>,
           NEW s \in Seq(Calls), stack' = [stack EXCEPT ![t] = s],
           job' = job,
           tasks' \in Seq([kind : {"node", "prepare", "other"}, node : Nat]),
           \/ StagesOf(s) \cap {"fork", "forked", "get"} = {}
           \/ Delegates(t)
           \/ threads_available > 0
    PROVE  PoolInv'
<1>1. Shape'
  BY DEF PoolInv, Shape
<1>2. \A x \in Threads : stack'[x] = IF x = t THEN s ELSE stack[x]
  BY DEF PoolInv, Shape
<1>3. OnlyNodeTasksCall'
  BY <1>2 DEF PoolInv, OnlyNodeTasksCall, Threads
<1>4. SomeWorkerDependsOnNobody'
  <2>1. CASE threads_available > 0
    <3>1. PICK v \in Workers : job[v] = "none"
      BY <2>1, FreeWorker
    <3>2. stack[v] = <<>>
      BY <3>1 DEF PoolInv, OnlyNodeTasksCall
    <3>3. stack'[v] = <<>>
      BY <1>2, <3>2 DEF Threads
    <3> QED
      BY <3>3, StagesOfEmpty DEF SomeWorkerDependsOnNobody, Delegates
  <2>2. CASE ~(threads_available > 0)
    <3>1. PICK w \in Workers : ~Delegates(w)
      BY DEF PoolInv, SomeWorkerDependsOnNobody
    <3>2. CASE w = t
      <4>1. stack'[w] = s
        BY <1>2, <3>2
      <4> QED
        BY <2>2, <3>1, <3>2, <4>1 DEF SomeWorkerDependsOnNobody, Delegates
    <3>3. CASE w # t
      <4>1. stack'[w] = stack[w]
        BY <1>2, <3>3 DEF Threads
      <4> QED
        BY <3>1, <4>1 DEF SomeWorkerDependsOnNobody, Delegates
    <3> QED
      BY <3>2, <3>3
  <2> QED
    BY <2>1, <2>2
<1> QED
  BY <1>1, <1>3, <1>4 DEF PoolInv

\* A step that changes what a thread does but leaves it in no call, or in the
\* first one of a task.
LEMMA OtherStep ==
    ASSUME PoolInv, Shape',
           \A w \in Workers : \/ stack'[w] = stack[w] /\ job'[w] = job[w]
                              \/ stack'[w] = <<>>
                              \/ job'[w] = "node" /\ StagesOf(stack'[w]) = {"create"}
                              \/ stack'[w] = stack[w] /\ stack[w] = <<>>
    PROVE  PoolInv'
<1>1. OnlyNodeTasksCall'
  BY DEF PoolInv, OnlyNodeTasksCall
<1>2. SomeWorkerDependsOnNobody'
  <2>1. PICK w \in Workers : ~Delegates(w)
    BY DEF PoolInv, SomeWorkerDependsOnNobody
  <2>2. ~Delegates(w)'
    BY <2>1, StagesOfEmpty DEF Delegates
  <2> QED
    BY <2>2 DEF SomeWorkerDependsOnNobody
<1> QED
  BY <1>1, <1>2 DEF PoolInv

LEMMA CreateStep ==
    ASSUME PoolInv, NEW t \in Threads, Create(t)
    PROVE  PoolInv'
<1> DEFINE s == stack[t]
           D == {"fork", "forked", "get"}
           TaskSeq == Seq([kind : {"node", "prepare", "other"}, node : Nat])
<1> USE DEF PoolInv, Shape
<1>1. s \in Seq(Calls) /\ tasks \in TaskSeq
  OBVIOUS
<1>2. s # <<>> => /\ Head(s) \in Calls /\ Tail(s) \in Seq(Calls)
                  /\ StagesOf(s) = {Head(s).stage} \cup StagesOf(Tail(s))
                  /\ Head(s).node \in Nat
                  /\ \A stage \in Stages :
                        /\ SetStage(s, stage) \in Seq(Calls)
                        /\ StagesOf(SetStage(s, stage)) =
                              {stage} \cup StagesOf(Tail(s))
  BY <1>1, StagesOfNonEmpty, StagesOfSetStage DEF Calls
<1>3. Stages = {"create", "fork", "left", "right", "forked", "get", "done"}
  BY DEF Stages
<1>4. CASE create_leaf(t) \/ get_right(t)
  <2>1. s # <<>> /\ stack' = [stack EXCEPT ![t] = SetStage(s, "done")]
        /\ job' = job /\ tasks' = tasks
    BY <1>4 DEF create_leaf, get_right, At
  <2>2. StagesOf(SetStage(s, "done")) \cap D = {} \/ Delegates(t)
    BY <1>2, <1>3, <2>1 DEF Delegates
  <2> QED
    BY <1>1, <1>2, <1>3, <2>1, <2>2, CallStep
<1>5. CASE decide_fork(t)
  <2>1. s # <<>> /\ job' = job /\ tasks' = tasks
    BY <1>5 DEF decide_fork, At
  <2>2. CASE ThreadForRightSide /\ stack' = [stack EXCEPT ![t] = SetStage(s, "fork")]
    <3>1. threads_available > 0
      BY <2>2 DEF ThreadForRightSide
    <3> QED
      BY <1>1, <1>2, <1>3, <2>1, <2>2, <3>1, CallStep
  <2>3. CASE stack' = [stack EXCEPT ![t] =
                          Call(SetStage(s, "left"), 2 * Head(s).node)]
    <3>1. /\ Call(SetStage(s, "left"), 2 * Head(s).node) \in Seq(Calls)
          /\ StagesOf(Call(SetStage(s, "left"), 2 * Head(s).node)) =
                {"create"} \cup {"left"} \cup StagesOf(Tail(s))
      <4>1. /\ SetStage(s, "left") \in Seq(Calls)
            /\ StagesOf(SetStage(s, "left")) = {"left"} \cup StagesOf(Tail(s))
            /\ 2 * Head(s).node \in Nat
        BY <1>2, <1>3, <2>1
      <4> QED
        BY <4>1, StagesOfCall
    <3>2. StagesOf(Call(SetStage(s, "left"), 2 * Head(s).node)) \cap D = {}
          \/ Delegates(t)
      BY <1>2, <2>1, <3>1 DEF Delegates
    <3> QED
      BY <1>1, <2>1, <2>3, <3>1, <3>2, CallStep
  <2> QED
    BY <1>5, <2>2, <2>3 DEF decide_fork
<1>6. CASE async_right(t)
  <2>1. /\ s # <<>> /\ Head(s).stage = "fork" /\ job' = job
        /\ tasks' = Append(tasks, NodeTask(2 * Head(s).node + 1))
        /\ stack' = [stack EXCEPT ![t] =
                        Call(SetStage(s, "forked"), 2 * Head(s).node)]
    BY <1>6 DEF async_right, At, add_task
  <2>2. Delegates(t)
    BY <1>2, <2>1 DEF Delegates
  <2>3. Call(SetStage(s, "forked"), 2 * Head(s).node) \in Seq(Calls)
    <3>1. SetStage(s, "forked") \in Seq(Calls) /\ 2 * Head(s).node \in Nat
      BY <1>2, <1>3, <2>1
    <3> QED
      BY <3>1, StagesOfCall
  <2>4. tasks' \in TaskSeq
    <3>1. NodeTask(2 * Head(s).node + 1)
             \in [kind : {"node", "prepare", "other"}, node : Nat]
      BY <1>2, <2>1 DEF NodeTask
    <3> QED
      BY <1>1, <2>1, <3>1
  <2> QED
    BY <2>1, <2>2, <2>3, <2>4, CallStep
<1>7. CASE return_left(t)
  <2> DEFINE c == Tail(s)
  <2>1. /\ s # <<>> /\ c # <<>> /\ c \in Seq(Calls)
        /\ job' = job /\ tasks' = tasks
    BY <1>2, <1>7 DEF return_left, At
  <2>2. /\ Head(c).node \in Nat
        /\ StagesOf(c) = {Head(c).stage} \cup StagesOf(Tail(c))
        /\ \A stage \in Stages :
              /\ SetStage(c, stage) \in Seq(Calls)
              /\ StagesOf(SetStage(c, stage)) = {stage} \cup StagesOf(Tail(c))
    BY <2>1, StagesOfNonEmpty, StagesOfSetStage DEF Calls
  <2>3. StagesOf(c) \subseteq StagesOf(s)
    BY <1>2, <2>1
  <2>4. CASE stack' = [stack EXCEPT ![t] =
                          Call(SetStage(c, "right"), 2 * Head(c).node + 1)]
    <3>1. /\ Call(SetStage(c, "right"), 2 * Head(c).node + 1) \in Seq(Calls)
          /\ StagesOf(Call(SetStage(c, "right"), 2 * Head(c).node + 1)) =
                {"create"} \cup {"right"} \cup StagesOf(Tail(c))
      <4>1. /\ SetStage(c, "right") \in Seq(Calls)
            /\ StagesOf(SetStage(c, "right")) = {"right"} \cup StagesOf(Tail(c))
            /\ 2 * Head(c).node + 1 \in Nat
        <5>1. Head(c).node \in Nat /\ "right" \in Stages
          BY <1>3, <2>2
        <5>2. 2 * Head(c).node + 1 \in Nat
          BY <5>1, RightChild
        <5> HIDE DEF c
        <5> QED
          BY <2>1, <5>1, <5>2, StagesOfSetStage
      <4> QED
        BY <4>1, StagesOfCall
    <3>2. \/ StagesOf(Call(SetStage(c, "right"), 2 * Head(c).node + 1)) \cap D = {}
          \/ Delegates(t)
      BY <2>2, <2>3, <3>1 DEF Delegates
    <3> QED
      BY <1>1, <2>1, <2>4, <3>1, <3>2, CallStep
  <2>5. CASE Head(c).stage = "forked"
             /\ stack' = [stack EXCEPT ![t] = SetStage(c, "get")]
    <3>1. Delegates(t)
      BY <2>2, <2>3, <2>5 DEF Delegates
    <3> QED
      BY <1>1, <1>3, <2>1, <2>2, <2>5, <3>1, CallStep
  <2>6. CASE stack' = [stack EXCEPT ![t] = SetStage(c, "done")]
    <3>1. StagesOf(SetStage(c, "done")) \cap D = {} \/ Delegates(t)
      BY <1>3, <2>2, <2>3 DEF Delegates
    <3> QED
      BY <1>1, <1>3, <2>1, <2>2, <2>6, <3>1, CallStep
  <2> QED
    BY <1>7, <2>4, <2>5, <2>6 DEF return_left
<1>8. CASE return_node(t)
  <2>1. /\ t \in Workers /\ tasks' = tasks
        /\ stack' = [stack EXCEPT ![t] = <<>>]
        /\ job' = [job EXCEPT ![t] = "returned"]
    BY <1>8 DEF return_node
  <2>2. Shape'
    BY <2>1 DEF Jobs
  <2>3. \A w \in Workers : \/ stack'[w] = stack[w] /\ job'[w] = job[w]
                           \/ stack'[w] = <<>>
    BY <2>1 DEF Threads
  <2> QED
    BY <2>2, <2>3, OtherStep
<1>9. CASE unprepared(t)
  <2>1. UNCHANGED <<tasks, job, stack>>
    BY <1>9 DEF unprepared
  <2> QED
    BY <2>1, OtherStep
<1> QED
  BY <1>4, <1>5, <1>6, <1>7, <1>8, <1>9 DEF Create

LEMMA WorkerStep ==
    ASSUME PoolInv, NEW w \in Workers, Worker(w)
    PROVE  PoolInv'
<1> USE DEF PoolInv, Shape
<1>1. CASE take_task(w)
  <2>1. /\ tasks # <<>> /\ tasks' = Tail(tasks)
        /\ job' = [job EXCEPT ![w] = Head(tasks).kind]
        /\ stack' = [stack EXCEPT ![w] =
              IF Head(tasks).kind = "node"
              THEN <<[node |-> Head(tasks).node, stage |-> "create"]>>
              ELSE <<>>]
    BY <1>1 DEF take_task
  <2>2. /\ Head(tasks) \in [kind : {"node", "prepare", "other"}, node : Nat]
        /\ tasks' \in Seq([kind : {"node", "prepare", "other"}, node : Nat])
    BY <2>1, HeadTailProperties
  <2> DEFINE f == [node |-> Head(tasks).node, stage |-> "create"]
  <2>3. f \in Calls /\ f.stage = "create"
    BY <2>2 DEF Calls, Stages
  <2>4. \E calls \in Seq(Calls) :
           /\ stack' = [stack EXCEPT ![w] = calls]
           /\ \/ Head(tasks).kind = "node" /\ StagesOf(calls) = {"create"}
              \/ calls = <<>>
    <3>1. CASE Head(tasks).kind = "node"
      <4>1. stack' = [stack EXCEPT ![w] = <<f>>]
        BY <2>1, <3>1
      <4> HIDE DEF f
      <4>2. <<f>> \in Seq(Calls) /\ StagesOf(<<f>>) = {"create"}
        BY <2>3, StagesOfOne
      <4> QED
        BY <3>1, <4>1, <4>2
    <3>2. CASE Head(tasks).kind # "node"
      <4>1. /\ <<>> \in Seq(Calls)
            /\ stack' = [stack EXCEPT ![w] = <<>>]
        BY <2>1, <3>2
      <4> QED
        BY <4>1
    <3> QED
      BY <3>1, <3>2
  <2>5. PICK calls \in Seq(Calls) :
           /\ stack' = [stack EXCEPT ![w] = calls]
           /\ \/ Head(tasks).kind = "node" /\ StagesOf(calls) = {"create"}
              \/ calls = <<>>
    BY <2>4
  <2>6. Shape'
    <3>1. job' \in [Workers -> Jobs]
      BY <2>1, <2>2 DEF Jobs
    <3> QED
      BY <2>2, <2>5, <3>1
  <2>7. \A x \in Workers :
           \/ stack'[x] = stack[x] /\ job'[x] = job[x]
           \/ stack'[x] = <<>>
           \/ job'[x] = "node" /\ StagesOf(stack'[x]) = {"create"}
    BY <2>1, <2>5 DEF Threads
  <2> QED
    BY <2>6, <2>7, OtherStep
<1>2. CASE \/ no_task(w) \/ other_returns(w) \/ leave_barrier(w)
           \/ prepare_task(w)
  <2>1. /\ UNCHANGED <<tasks, stack>>
        /\ job[w] # "node"
        /\ job' \in [Workers -> Jobs]
        /\ \A x \in Workers \ {w} : job'[x] = job[x]
    BY <1>2 DEF no_task, other_returns, leave_barrier, prepare_task, Jobs
  <2>2. stack[w] = <<>>
    BY <2>1 DEF OnlyNodeTasksCall
  <2> QED
    BY <2>1, <2>2, OtherStep
<1> QED
  BY <1>1, <1>2 DEF Worker

LEMMA CallerStep ==
    ASSUME PoolInv, Caller \/ add_other
    PROVE  PoolInv'
<1> DEFINE T == [kind : {"node", "prepare", "other"}, node : Nat]
<1> USE DEF PoolInv, Shape
<1>1. \/ UNCHANGED tasks
      \/ tasks' = Append(tasks, PrepareTask)
      \/ tasks' = Append(tasks, OtherTask)
  BY DEF Caller, count_threads, barrier_for_none, add_prepare, main_prepared,
         start_build, return_root, kdtree_build, add_other, add_task
<1>2. tasks' \in Seq(T)
  <2>1. PrepareTask \in T /\ OtherTask \in T
    BY DEF PrepareTask, OtherTask
  <2>2. tasks \in Seq(T)
    OBVIOUS
  <2> HIDE DEF T
  <2>3. /\ Append(tasks, PrepareTask) \in Seq(T)
        /\ Append(tasks, OtherTask) \in Seq(T)
    BY <2>1, <2>2, AppendType
  <2> QED
    BY <1>1, <2>2, <2>3
<1>3. /\ job' = job
      /\ \/ UNCHANGED stack
         \/ stack' = [stack EXCEPT ![Main] = <<[node |-> 1, stage |-> "create"]>>]
         \/ stack' = [stack EXCEPT ![Main] = <<>>]
  BY DEF Caller, count_threads, barrier_for_none, add_prepare, main_prepared,
         start_build, return_root, kdtree_build, add_other
<1>4. \A w \in Workers : stack'[w] = stack[w]
  BY <1>3, MainAssumption DEF Threads
<1>5. stack' \in [Threads -> Seq(Calls)]
  <2> DEFINE f == [node |-> 1, stage |-> "create"]
  <2>1. f \in Calls
    BY DEF Calls, Stages
  <2>2. \/ UNCHANGED stack
        \/ stack' = [stack EXCEPT ![Main] = <<f>>]
        \/ stack' = [stack EXCEPT ![Main] = <<>>]
    BY <1>3
  <2> HIDE DEF f
  <2>3. <<f>> \in Seq(Calls) /\ <<>> \in Seq(Calls)
    BY <2>1, StagesOfOne
  <2> QED
    BY <2>2, <2>3
<1> QED
  BY <1>2, <1>3, <1>4, <1>5, OtherStep

LEMMA NextPoolInv == PoolInv /\ [Next]_vars => PoolInv'
<1> SUFFICES ASSUME PoolInv, [Next]_vars PROVE PoolInv'
  OBVIOUS
<1>1. CASE UNCHANGED vars
  <2>1. Shape' /\ \A w \in Workers : stack'[w] = stack[w] /\ job'[w] = job[w]
    BY <1>1 DEF vars, PoolInv, Shape
  <2> QED
    BY <2>1, OtherStep
<1> QED
  BY <1>1, CreateStep, WorkerStep, CallerStep DEF Next

\* Some worker of the pool never depends on another: it runs to the end of
\* its task, or is free to take one.  For any number of workers, any tree and
\* any number of tasks of others.
THEOREM PoolIsNeverUsedUp == Spec => []SomeWorkerDependsOnNobody
<1>1. PoolInv => SomeWorkerDependsOnNobody
  BY DEF PoolInv
<1> QED
  BY <1>1, InitPoolInv, NextPoolInv, PTL DEF Spec

-----------------------------------------------------------------------------
(* Stacks of calls.                                                        *)

LEMMA ConsStack ==
    ASSUME NEW f \in Frames, NEW s \in Seq(Frames), NEW c, c = <<f>> \o s
    PROVE  /\ c \in Seq(Frames) /\ c # <<>> /\ Head(c) = f /\ Tail(c) = s
           /\ NodesOf(c) = {f.node} \cup NodesOf(s)
           /\ \A n, stage : On(c, n, stage) <=>
                 (f.node = n /\ f.stage = stage) \/ On(s, n, stage)
           /\ Distinct(c) <=> Distinct(s) /\ f.node \notin NodesOf(s)
           /\ Linked(c) <=> Linked(s) /\ (s # <<>> => CallOf(Head(s), f.node))
<1>1. /\ c \in Seq(Frames) /\ c # <<>> /\ Head(c) = f /\ Tail(c) = s
      /\ DOMAIN c = 1..(1 + Len(s)) /\ DOMAIN s = 1..Len(s) /\ Len(s) \in Nat
      /\ c[1] = f /\ 1 \in DOMAIN c
      /\ \A i \in DOMAIN s : i + 1 \in DOMAIN c /\ c[i + 1] = s[i]
      /\ \A i \in DOMAIN c : i = 1 \/ (i - 1 \in DOMAIN s /\ c[i] = s[i - 1])
  BY ConsIndices
<1>2. NodesOf(c) = {f.node} \cup NodesOf(s)
  <2>1. \A i \in DOMAIN c : c[i].node = f.node \/ \E j \in DOMAIN s : c[i].node = s[j].node
    BY <1>1
  <2>2. c[1].node = f.node /\ \A j \in DOMAIN s : j + 1 \in DOMAIN c /\ c[j + 1].node = s[j].node
    BY <1>1
  <2>3. NodesOf(c) \subseteq {f.node} \cup NodesOf(s)
    BY <2>1 DEF NodesOf
  <2>4. f.node \in NodesOf(c)
    BY <1>1, <2>2 DEF NodesOf
  <2>5. \A j \in DOMAIN s : s[j].node \in NodesOf(c)
    <3> TAKE j \in DOMAIN s
    <3>1. j + 1 \in DOMAIN c /\ c[j + 1].node = s[j].node
      BY <2>2
    <3> QED
      BY <3>1 DEF NodesOf
  <2> QED
    BY <2>3, <2>4, <2>5 DEF NodesOf
<1>3. ASSUME NEW n, NEW stage
      PROVE  On(c, n, stage) <=> (f.node = n /\ f.stage = stage) \/ On(s, n, stage)
  <2>1. ASSUME On(c, n, stage) PROVE (f.node = n /\ f.stage = stage) \/ On(s, n, stage)
    <3>1. PICK i \in DOMAIN c : c[i].node = n /\ c[i].stage = stage
      BY <2>1 DEF On
    <3>2. i = 1 \/ (i - 1 \in DOMAIN s /\ c[i] = s[i - 1])
      BY <1>1
    <3> QED
      BY <1>1, <3>1, <3>2 DEF On
  <2>2. ASSUME f.node = n, f.stage = stage PROVE On(c, n, stage)
    BY <1>1, <2>2 DEF On
  <2>3. ASSUME On(s, n, stage) PROVE On(c, n, stage)
    <3>1. PICK i \in DOMAIN s : s[i].node = n /\ s[i].stage = stage
      BY <2>3 DEF On
    <3>2. i + 1 \in DOMAIN c /\ c[i + 1] = s[i]
      BY <1>1
    <3> QED
      BY <3>1, <3>2 DEF On
  <2> QED
    BY <2>1, <2>2, <2>3
<1>4. ASSUME Distinct(c) PROVE Distinct(s) /\ f.node \notin NodesOf(s)
  <2>1. Distinct(s)
    <3> SUFFICES ASSUME NEW i \in DOMAIN s, NEW j \in DOMAIN s, s[i].node = s[j].node
                 PROVE  i = j
      BY DEF Distinct
    <3>1. c[i + 1].node = c[j + 1].node /\ i + 1 \in DOMAIN c /\ j + 1 \in DOMAIN c
      BY <1>1
    <3>2. i + 1 = j + 1
      BY <1>4, <3>1 DEF Distinct
    <3> QED
      BY <1>1, <3>2
  <2>2. ASSUME NEW i \in DOMAIN s, s[i].node = f.node PROVE FALSE
    <3>1. c[i + 1].node = c[1].node /\ i + 1 \in DOMAIN c
      BY <1>1, <2>2
    <3>2. i + 1 = 1
      BY <1>1, <1>4, <3>1 DEF Distinct
    <3> QED
      BY <1>1, <3>2
  <2> QED
    BY <2>1, <2>2 DEF NodesOf
<1>5. ASSUME Distinct(s), f.node \notin NodesOf(s) PROVE Distinct(c)
  <2> SUFFICES ASSUME NEW i \in DOMAIN c, NEW j \in DOMAIN c, c[i].node = c[j].node
               PROVE  i = j
    BY DEF Distinct
  <2>1. \A k \in DOMAIN s : s[k].node # f.node
    BY <1>5 DEF NodesOf
  <2>2. CASE i = 1 \/ j = 1
    BY <1>1, <2>1, <2>2
  <2>3. CASE i # 1 /\ j # 1
    <3>1. i - 1 \in DOMAIN s /\ j - 1 \in DOMAIN s /\ s[i - 1].node = s[j - 1].node
      BY <1>1, <2>3
    <3>2. i - 1 = j - 1
      BY <1>5, <3>1 DEF Distinct
    <3> QED
      BY <1>1, <3>2
  <2> QED
    BY <2>2, <2>3
<1>6. s # <<>> => Head(s) = s[1] /\ 1 \in DOMAIN s
  BY <1>1, EmptySeq, HeadTailProperties
<1>7. ASSUME Linked(c) PROVE Linked(s) /\ (s # <<>> => CallOf(Head(s), f.node))
  <2>1. ASSUME NEW i \in DOMAIN s, i + 1 \in DOMAIN s
        PROVE  CallOf(s[i + 1], s[i].node)
    <3>1. /\ i + 1 \in DOMAIN c /\ c[i + 1] = s[i]
          /\ (i + 1) + 1 \in DOMAIN c /\ c[(i + 1) + 1] = s[i + 1]
      BY <1>1, <2>1
    <3> QED
      BY <1>7, <3>1 DEF Linked
  <2>2. ASSUME s # <<>> PROVE CallOf(Head(s), f.node)
    <3>1. 1 + 1 \in DOMAIN c /\ c[1 + 1] = Head(s)
      BY <1>1, <1>6, <2>2
    <3> QED
      BY <1>1, <1>7, <3>1 DEF Linked
  <2> QED
    BY <2>1, <2>2 DEF Linked
<1>8. ASSUME Linked(s), s # <<>> => CallOf(Head(s), f.node) PROVE Linked(c)
  <2> SUFFICES ASSUME NEW i \in DOMAIN c, i + 1 \in DOMAIN c
               PROVE  CallOf(c[i + 1], c[i].node)
    BY DEF Linked
  <2>1. CASE i = 1
    <3>1. 1 \in DOMAIN s /\ c[1 + 1] = s[1]
      BY <1>1, <2>1
    <3>2. s # <<>>
      BY <1>1, <3>1
    <3> QED
      BY <1>1, <1>6, <1>8, <2>1, <3>1, <3>2
  <2>2. CASE i # 1
    <3>1. /\ i - 1 \in DOMAIN s /\ c[i] = s[i - 1]
          /\ (i - 1) + 1 \in DOMAIN s /\ c[i + 1] = s[(i - 1) + 1]
      BY <1>1, <2>2
    <3> QED
      BY <1>8, <3>1 DEF Linked
  <2> QED
    BY <2>1, <2>2
<1> QED
  BY <1>1, <1>2, <1>3, <1>4, <1>5, <1>7, <1>8

LEMMA EmptyStack ==
    /\ <<>> \in Seq(Frames) /\ NodesOf(<<>>) = {} /\ Distinct(<<>>) /\ Linked(<<>>)
    /\ \A n, stage : ~On(<<>>, n, stage)
BY DEF NodesOf, Distinct, Linked, On

LEMMA NodesAreInStages ==
    ASSUME NEW s \in Seq(Frames)
    PROVE  /\ NodesOf(s) \subseteq Nodes
           /\ \A n \in NodesOf(s) : \E stage \in Stages : On(s, n, stage)
           /\ \A n, stage : On(s, n, stage) => n \in NodesOf(s) /\ stage \in Stages
           /\ Distinct(s) => \A n, st, su : On(s, n, st) /\ On(s, n, su) => st = su
<1>1. \A i \in DOMAIN s : s[i] \in Frames
  BY LenProperties
<1>2. \A i \in DOMAIN s : s[i].node \in Nodes /\ s[i].stage \in Stages
  BY <1>1 DEF Frames
<1> QED
  BY <1>2 DEF NodesOf, On, Distinct

-----------------------------------------------------------------------------
(* The queue of the pool.                                                  *)

LEMMA QueueGrows ==
    ASSUME NEW q \in Seq(TaskSet), NEW e \in TaskSet, NEW r, r = Append(q, e)
    PROVE  /\ r \in Seq(TaskSet)
           /\ QueuedIn(r) = QueuedIn(q) \cup (IF e.kind = "node" THEN {e.node} ELSE {})
           /\ PreparesIn(r) = PreparesIn(q) \cup (IF e.kind = "prepare" THEN {Len(q) + 1} ELSE {})
           /\ QueuedOnce(q) /\ (e.kind = "node" => e.node \notin QueuedIn(q)) => QueuedOnce(r)
<1>1. /\ r \in Seq(TaskSet) /\ DOMAIN q = 1..Len(q) /\ Len(q) \in Nat
      /\ DOMAIN r = 1..(Len(q) + 1)
      /\ \A i \in 1..Len(q) : r[i] = q[i]
      /\ r[Len(q) + 1] = e
  BY AppendProperties, LenProperties
<1>2. PICK n \in Nat : n = Len(q)
  BY <1>1
<1>3. /\ DOMAIN q = 1..n /\ DOMAIN r = (1..n) \cup {n + 1} /\ n + 1 \notin 1..n
      /\ \A i \in 1..n : r[i] = q[i]
      /\ r[n + 1] = e
  BY <1>1, <1>2
<1>4. QueuedIn(r) = QueuedIn(q) \cup (IF e.kind = "node" THEN {e.node} ELSE {})
  BY <1>3 DEF QueuedIn
<1>5. PreparesIn(r) = PreparesIn(q) \cup (IF e.kind = "prepare" THEN {n + 1} ELSE {})
  BY <1>3 DEF PreparesIn
<1>6. ASSUME QueuedOnce(q), e.kind = "node" => e.node \notin QueuedIn(q)
      PROVE  QueuedOnce(r)
  <2>1. \A i \in 1..n : q[i].kind = "node" => q[i].node \in QueuedIn(q)
    BY <1>3 DEF QueuedIn
  <2>2. \A i \in 1..n : r[i].kind = "node" => r[i] # e
    BY <1>3, <1>6, <2>1
  <2> QED
    BY <1>3, <1>6, <2>2 DEF QueuedOnce
<1> QED
  BY <1>1, <1>2, <1>4, <1>5, <1>6

LEMMA QueueShrinks ==
    ASSUME NEW q \in Seq(TaskSet), q # <<>>, NEW e, e = Head(q), NEW r, r = Tail(q)
    PROVE  /\ r \in Seq(TaskSet) /\ e \in TaskSet
           /\ QueuedIn(q) = QueuedIn(r) \cup (IF e.kind = "node" THEN {e.node} ELSE {})
           /\ PreparesIn(q) = {i + 1 : i \in PreparesIn(r)}
                                \cup (IF e.kind = "prepare" THEN {1} ELSE {})
           /\ QueuedOnce(q) => /\ QueuedOnce(r)
                               /\ e.kind = "node" => e.node \notin QueuedIn(r)
<1>1. e \in TaskSet /\ r \in Seq(TaskSet) /\ q = <<e>> \o r
  BY HeadAndTail
<1>2. /\ DOMAIN q = 1..(1 + Len(r)) /\ DOMAIN r = 1..Len(r) /\ Len(r) \in Nat
      /\ q[1] = e /\ 1 \in DOMAIN q
      /\ \A i \in DOMAIN r : i + 1 \in DOMAIN q /\ q[i + 1] = r[i]
      /\ \A i \in DOMAIN q : i = 1 \/ (i - 1 \in DOMAIN r /\ q[i] = r[i - 1])
  BY <1>1, ConsIndices
<1>3. QueuedIn(q) = QueuedIn(r) \cup (IF e.kind = "node" THEN {e.node} ELSE {})
  <2>1. ASSUME NEW i \in DOMAIN q, q[i].kind = "node"
        PROVE  q[i].node \in QueuedIn(r) \cup (IF e.kind = "node" THEN {e.node} ELSE {})
    <3>1. i = 1 \/ (i - 1 \in DOMAIN r /\ q[i] = r[i - 1])
      BY <1>2
    <3> QED
      BY <1>2, <2>1, <3>1 DEF QueuedIn
  <2>2. ASSUME NEW j \in DOMAIN r, r[j].kind = "node" PROVE r[j].node \in QueuedIn(q)
    <3>1. j + 1 \in DOMAIN q /\ q[j + 1] = r[j]
      BY <1>2
    <3> QED
      BY <2>2, <3>1 DEF QueuedIn
  <2>3. e.kind = "node" => e.node \in QueuedIn(q)
    BY <1>2 DEF QueuedIn
  <2>4. QueuedIn(q) \subseteq QueuedIn(r) \cup (IF e.kind = "node" THEN {e.node} ELSE {})
    BY <2>1 DEF QueuedIn
  <2>5. QueuedIn(r) \subseteq QueuedIn(q)
    <3>1. \A x \in QueuedIn(r) : \E j \in DOMAIN r : r[j].kind = "node" /\ x = r[j].node
      BY DEF QueuedIn
    <3> QED
      BY <2>2, <3>1
  <2> QED
    BY <2>3, <2>4, <2>5
<1>4. PreparesIn(q) = {i + 1 : i \in PreparesIn(r)}
                         \cup (IF e.kind = "prepare" THEN {1} ELSE {})
  <2>1. ASSUME NEW i \in PreparesIn(q)
        PROVE  i \in {k + 1 : k \in PreparesIn(r)} \cup (IF e.kind = "prepare" THEN {1} ELSE {})
    <3>1. i \in DOMAIN q /\ q[i].kind = "prepare"
      BY DEF PreparesIn
    <3>2. CASE i = 1
      BY <1>2, <3>1, <3>2
    <3>3. CASE i # 1
      <4>1. i - 1 \in PreparesIn(r) /\ i = (i - 1) + 1
        BY <1>2, <3>1, <3>3 DEF PreparesIn
      <4> QED
        BY <4>1
    <3> QED
      BY <3>2, <3>3
  <2>2. ASSUME NEW k \in PreparesIn(r) PROVE k + 1 \in PreparesIn(q)
    BY <1>2 DEF PreparesIn
  <2>3. e.kind = "prepare" => 1 \in PreparesIn(q)
    BY <1>2 DEF PreparesIn
  <2> QED
    BY <2>1, <2>2, <2>3
<1>5. ASSUME QueuedOnce(q)
      PROVE  QueuedOnce(r) /\ (e.kind = "node" => e.node \notin QueuedIn(r))
  <2>1. ASSUME NEW i \in DOMAIN r, NEW j \in DOMAIN r, r[i].kind = "node", r[i] = r[j]
        PROVE  i = j
    <3>1. i + 1 \in DOMAIN q /\ q[i + 1] = r[i] /\ j + 1 \in DOMAIN q /\ q[j + 1] = r[j]
      BY <1>2
    <3>2. i + 1 = j + 1
      BY <1>5, <2>1, <3>1 DEF QueuedOnce
    <3> QED
      BY <1>2, <3>2
  <2>2. ASSUME NEW i \in DOMAIN r, e.kind = "node", r[i].kind = "node", r[i].node = e.node
        PROVE  FALSE
    <3>1. i + 1 \in DOMAIN q /\ q[i + 1] = r[i] /\ 1 \in DOMAIN q /\ q[1] = e
      BY <1>2
    <3>2. r[i] \in TaskSet
      BY <1>1, <1>2
    <3>3. r[i] = e
      BY <1>1, <2>2, <3>2 DEF TaskSet
    <3>4. i + 1 = 1
      BY <1>5, <2>2, <3>1, <3>3 DEF QueuedOnce
    <3> QED
      BY <1>2, <3>4
  <2> QED
    BY <2>1, <2>2 DEF QueuedOnce, QueuedIn
<1> QED
  BY <1>1, <1>3, <1>4, <1>5

LEMMA QueueTypes ==
    ASSUME NEW q \in Seq(TaskSet)
    PROVE  /\ QueuedIn(q) \subseteq Nodes
           /\ IsFiniteSet(PreparesIn(q)) /\ Cardinality(PreparesIn(q)) \in Nat
<1>1. DOMAIN q = 1..Len(q) /\ Len(q) \in Nat /\ \A i \in DOMAIN q : q[i] \in TaskSet
  BY LenProperties
<1>2. QueuedIn(q) \subseteq Nodes
  BY <1>1 DEF QueuedIn, TaskSet
<1>3. IsFiniteSet(1..Len(q))
  BY <1>1, FS_Interval
<1>4. PreparesIn(q) \subseteq 1..Len(q)
  BY <1>1 DEF PreparesIn
<1> QED
  BY <1>2, <1>3, <1>4, FS_Subset, FS_CardinalityType

\* Each prepare task that is added, or taken, is one.
LEMMA PreparesGrow ==
    ASSUME NEW q \in Seq(TaskSet), NEW e \in TaskSet, NEW r, r = Append(q, e)
    PROVE  Cardinality(PreparesIn(r)) <=
               Cardinality(PreparesIn(q)) + (IF e.kind = "prepare" THEN 1 ELSE 0)
<1>1. PreparesIn(r) = PreparesIn(q) \cup (IF e.kind = "prepare" THEN {Len(q) + 1} ELSE {})
  BY QueueGrows
<1>2. IsFiniteSet(PreparesIn(q)) /\ Cardinality(PreparesIn(q)) \in Nat
  BY QueueTypes
<1>3. CASE e.kind = "prepare"
  <2>1. PreparesIn(r) = PreparesIn(q) \cup {Len(q) + 1}
    BY <1>1, <1>3
  <2>2. PICK P : P = PreparesIn(q)
    OBVIOUS
  <2>3. PICK x : x = Len(q) + 1
    OBVIOUS
  <2>4. IsFiniteSet(P) /\ Cardinality(P) \in Nat
    BY <1>2, <2>2
  <2>5. Cardinality(P \cup {x}) = IF x \in P THEN Cardinality(P) ELSE Cardinality(P) + 1
    BY <2>4, FS_AddElement
  <2>6. Cardinality(P \cup {x}) <= Cardinality(P) + 1
    BY <2>4, <2>5
  <2> QED
    BY <1>3, <2>1, <2>2, <2>3, <2>6
<1>4. CASE e.kind # "prepare"
  BY <1>1, <1>2, <1>4
<1> QED
  BY <1>3, <1>4

\* {i + 1 : i \in P} has as many elements as P.
LEMMA ShiftedSet ==
    ASSUME NEW P \in SUBSET (Nat \ {0}), NEW S, S = {i + 1 : i \in P}, IsFiniteSet(S)
    PROVE  Cardinality(P) <= Cardinality(S) /\ 1 \notin S
<1> DEFINE f == [i \in P |-> i + 1]
<1>1. f \in [P -> S] /\ \A i, j \in P : f[i] = f[j] => i = j
  OBVIOUS
<1>2. f \in Injection(P, S)
  BY <1>1 DEF Injection, IsInjective
<1> HIDE DEF f
<1>3. Cardinality(P) <= Cardinality(S)
  BY <1>2, FS_Injection
<1>4. 1 \notin S
  <2>1. \A i \in P : i + 1 # 1
    <3> TAKE i \in P
    <3>1. i \in Nat /\ i # 0
      OBVIOUS
    <3> QED
      BY <3>1
  <2> QED
    BY <2>1
<1> QED
  BY <1>3, <1>4

LEMMA PreparesShrink ==
    ASSUME NEW q \in Seq(TaskSet), q # <<>>
    PROVE  Cardinality(PreparesIn(Tail(q))) + (IF Head(q).kind = "prepare" THEN 1 ELSE 0)
               <= Cardinality(PreparesIn(q))
<1>1. PICK r : r = Tail(q)
  OBVIOUS
<1>2. PICK P : P = PreparesIn(r)
  OBVIOUS
<1>3. PICK S : S = {i + 1 : i \in P}
  OBVIOUS
<1>4. /\ r \in Seq(TaskSet)
      /\ PreparesIn(q) = S \cup (IF Head(q).kind = "prepare" THEN {1} ELSE {})
  BY <1>1, <1>2, <1>3, QueueShrinks
<1>5. P \in SUBSET (Nat \ {0})
  <2>1. DOMAIN r = 1..Len(r) /\ Len(r) \in Nat
    BY <1>4, LenProperties
  <2> QED
    BY <1>2, <2>1 DEF PreparesIn
<1>6. IsFiniteSet(PreparesIn(q)) /\ Cardinality(PreparesIn(q)) \in Nat
      /\ Cardinality(P) \in Nat
  BY <1>2, <1>4, QueueTypes
<1>7. IsFiniteSet(S) /\ Cardinality(S) \in Nat
  BY <1>4, <1>6, FS_Subset, FS_CardinalityType
<1>8. Cardinality(P) <= Cardinality(S) /\ 1 \notin S
  BY <1>3, <1>5, <1>7, ShiftedSet
<1>9. Cardinality(S \cup {1}) = Cardinality(S) + 1
  BY <1>7, <1>8, FS_AddElement
<1>10. CASE Head(q).kind = "prepare"
  <2>1. PreparesIn(q) = S \cup {1}
    BY <1>4, <1>10
  <2> QED
    BY <1>1, <1>2, <1>6, <1>7, <1>8, <1>9, <1>10, <2>1
<1>11. CASE Head(q).kind # "prepare"
  <2>1. PreparesIn(q) = S
    BY <1>4, <1>11
  <2> QED
    BY <1>1, <1>2, <1>6, <1>7, <1>8, <1>11, <2>1
<1> QED
  BY <1>10, <1>11

-----------------------------------------------------------------------------
(* The phase of a node, and the calls and tasks it stands for.             *)

PhasesAre(p) ==
    /\ p \in [Nodes -> Phases]
    /\ \A n \in Nodes :
          /\ p[n] = "queued" <=> n \in QueuedIn(tasks)
          /\ \A stage \in Stages : p[n] = stage <=> InStage(n, stage)

LEMMA StagesAreNoOtherPhases ==
    "queued" \notin Stages /\ "none" \notin Stages /\ Stages \subseteq Phases
    /\ "queued" \in Phases /\ "none" \in Phases
BY DEF Stages, Phases

\* A node is in one stage of one call.
LEMMA OneStage ==
    ASSUME TypeOK, HeldOnce, NEW n \in Nodes, NEW st \in Stages, NEW t \in Threads,
           On(stack[t], n, st)
    PROVE  /\ n \in NodesOf(stack[t])
           /\ n \notin QueuedIn(tasks)
           /\ \A u \in Threads \ {t} : n \notin NodesOf(stack[u])
           /\ \A su \in Stages : InStage(n, su) => su = st
<1>1. \A u \in Threads : stack[u] \in Seq(Frames)
  BY DEF TypeOK
<1>2. n \in NodesOf(stack[t])
  BY <1>1, NodesAreInStages
<1>3. n \notin QueuedIn(tasks) /\ \A u \in Threads \ {t} : n \notin NodesOf(stack[u])
  BY <1>2 DEF HeldOnce
<1>4. ASSUME NEW su \in Stages, InStage(n, su) PROVE su = st
  <2>1. PICK u \in Threads : On(stack[u], n, su)
    BY <1>4 DEF InStage
  <2>2. n \in NodesOf(stack[u])
    BY <1>1, <2>1, NodesAreInStages
  <2>3. u = t
    BY <1>3, <2>2
  <2>4. Distinct(stack[t])
    BY DEF HeldOnce
  <2> QED
    BY <1>1, <2>1, <2>3, <2>4, NodesAreInStages
<1> QED
  BY <1>2, <1>3, <1>4

LEMMA PhaseIsRight == TypeOK /\ HeldOnce => PhasesAre(phase)
<1> SUFFICES ASSUME TypeOK, HeldOnce PROVE PhasesAre(phase)
  OBVIOUS
<1>1. ASSUME NEW n \in Nodes
      PROVE  /\ phase[n] \in Phases
             /\ phase[n] = "queued" <=> n \in QueuedIn(tasks)
             /\ \A stage \in Stages : phase[n] = stage <=> InStage(n, stage)
  <2>1. phase[n] = IF n \in QueuedIn(tasks) THEN "queued"
                   ELSE IF \E stage \in Stages : InStage(n, stage)
                        THEN CHOOSE stage \in Stages : InStage(n, stage)
                        ELSE "none"
    BY DEF phase
  <2>2. CASE \E stage \in Stages : InStage(n, stage)
    <3>1. PICK st \in Stages, t \in Threads : On(stack[t], n, st)
      BY <2>2 DEF InStage
    <3>2. InStage(n, st) /\ n \notin QueuedIn(tasks) /\ \A su \in Stages : InStage(n, su) => su = st
      BY <3>1, OneStage DEF InStage
    <3>3. phase[n] = st
      BY <2>1, <3>2
    <3> QED
      BY <3>2, <3>3, StagesAreNoOtherPhases
  <2>3. CASE ~\E stage \in Stages : InStage(n, stage)
    BY <2>1, <2>3, StagesAreNoOtherPhases
  <2> QED
    BY <2>2, <2>3
<1>2. phase \in [Nodes -> Phases]
  <2>1. phase = [n \in Nodes |-> phase[n]]
    BY DEF phase
  <2> QED
    BY <1>1, <2>1
<1> QED
  BY <1>1, <1>2 DEF PhasesAre

LEMMA OnePhase == \A p, q : PhasesAre(p) /\ PhasesAre(q) => p = q
<1> SUFFICES ASSUME NEW p, NEW q, PhasesAre(p), PhasesAre(q) PROVE p = q
  OBVIOUS
<1>1. ASSUME NEW n \in Nodes PROVE p[n] = q[n]
  <2>1. p[n] \in Phases /\ q[n] \in Phases
    BY DEF PhasesAre
  <2>2. CASE p[n] \in Stages
    BY <2>2 DEF PhasesAre
  <2>3. CASE q[n] \in Stages
    BY <2>3 DEF PhasesAre
  <2>4. CASE p[n] \notin Stages /\ q[n] \notin Stages
    <3>1. p[n] \in {"queued", "none"} /\ q[n] \in {"queued", "none"}
      BY <2>1, <2>4 DEF Phases
    <3>2. p[n] = "queued" <=> q[n] = "queued"
      BY DEF PhasesAre
    <3> QED
      BY <3>1, <3>2
  <2> QED
    BY <2>2, <2>3, <2>4
<1> QED
  BY <1>1 DEF PhasesAre

LEMMA PhaseIs == TypeOK /\ HeldOnce => \A p : PhasesAre(p) => phase = p
BY PhaseIsRight, OnePhase

\* What the phase of a node in a call of t says.
LEMMA PhaseOnStack ==
    ASSUME TypeOK, HeldOnce, NEW t \in Threads
    PROVE  /\ \A n \in NodesOf(stack[t]) : phase[n] \in Stages /\ On(stack[t], n, phase[n])
           /\ \A n \in Nodes, st \in Stages : On(stack[t], n, st) => phase[n] = st
<1>1. PhasesAre(phase)
  BY PhaseIsRight
<1>2. ASSUME NEW n \in Nodes, NEW st \in Stages, On(stack[t], n, st) PROVE phase[n] = st
  BY <1>1, <1>2 DEF PhasesAre, InStage
<1>3. ASSUME NEW n \in NodesOf(stack[t])
      PROVE  phase[n] \in Stages /\ On(stack[t], n, phase[n])
  <2>1. stack[t] \in Seq(Frames)
    BY DEF TypeOK
  <2>2. n \in Nodes /\ \E stage \in Stages : On(stack[t], n, stage)
    BY <2>1, NodesAreInStages
  <2> QED
    BY <1>2, <2>2
<1> QED
  BY <1>2, <1>3

-----------------------------------------------------------------------------
(* How the tree grows: what each step makes of the phases of the nodes.    *)

LEMMA ChildrenAreNodes ==
    \A n \in Nodes : HasChildren(n) =>
        /\ 2 * n \in Nodes /\ 2 * n + 1 \in Nodes
        /\ 2 * n # n /\ 2 * n + 1 # n /\ 2 * n # 2 * n + 1
        /\ 2 * n # 1 /\ 2 * n + 1 # 1
BY MaxNodeAssumption DEF Nodes, HasChildren

LEMMA ChildrenDiffer ==
    \A m, n \in Nodes : /\ 2 * m # 2 * n + 1
                        /\ 2 * m = 2 * n => m = n
                        /\ 2 * m + 1 = 2 * n + 1 => m = n
BY MaxNodeAssumption DEF Nodes

\* A node that is as far as it was for the node it is a half of.
Kept(p, b, q, c, n) ==
    /\ Untouched(q, c, n) <=> Untouched(p, b, n)
    /\ Finished(p, b, n) => Finished(q, c, n)

LEMMA NodeUnchanged ==
    ASSUME NEW p, NEW b, NEW q, NEW c, NEW m, NodeIsRight(p, b, m),
           q[m] = p[m], c[m] = b[m],
           2 * m \in Nodes => Kept(p, b, q, c, 2 * m),
           HasChildren(m) => Kept(p, b, q, c, 2 * m + 1) /\ 2 * m \in Nodes
    PROVE  NodeIsRight(q, c, m)
BY DEF NodeIsRight, HalvesAreRight, Kept, Untouched, Finished

\* Steps change the phases of the nodes in X only, which are right afterwards,
\* and are kept unless the node they are halves of is in X.
GrowsAt(X, p, b, q, c, d) ==
    /\ \A m \in Nodes \ X :
          /\ q[m] = p[m] /\ c[m] = b[m]
          /\ 2 * m \in X => Kept(p, b, q, c, 2 * m)
          /\ 2 * m + 1 \in X => Kept(p, b, q, c, 2 * m + 1)
    /\ \A m \in X : NodeIsRight(q, c, m) /\ (m \in d => Finished(q, c, m))

LEMMA TreeGrows ==
    ASSUME NEW p, NEW b, NEW q, NEW c, NEW d \in SUBSET Nodes, TreeIsRight(p, b, d),
           NEW X \in SUBSET Nodes, GrowsAt(X, p, b, q, c, d)
    PROVE  TreeIsRight(q, c, d)
<1>1. ASSUME NEW m \in Nodes \ X PROVE NodeIsRight(q, c, m)
  <2>1. NodeIsRight(p, b, m)
    BY DEF TreeIsRight
  <2>2. \A k \in Nodes \ X : Kept(p, b, q, c, k)
    BY DEF GrowsAt, Kept, Untouched, Finished
  <2>3. 2 * m \in Nodes => Kept(p, b, q, c, 2 * m)
    BY <2>2 DEF GrowsAt
  <2>4. HasChildren(m) => Kept(p, b, q, c, 2 * m + 1) /\ 2 * m \in Nodes
    BY <2>2, ChildrenAreNodes DEF GrowsAt
  <2> QED
    BY <2>1, <2>3, <2>4, NodeUnchanged DEF GrowsAt
<1>2. ASSUME NEW m \in d PROVE Finished(q, c, m)
  BY DEF TreeIsRight, Finished, GrowsAt
<1> QED
  BY <1>1, <1>2 DEF TreeIsRight, GrowsAt

\* create_leaf() and decide_fork() with a thread for the right half
LEMMA NodeCreated ==
    ASSUME NEW p \in [Nodes -> Phases], NEW b \in [Nodes -> Nat], NEW d \in SUBSET Nodes,
           TreeIsRight(p, b, d), NEW n \in Nodes, p[n] = "create",
           NEW to \in {"done", "fork"}, to = "fork" => HasChildren(n),
           NEW q, q = [p EXCEPT ![n] = to], NEW c, c = [b EXCEPT ![n] = @ + 1]
    PROVE  TreeIsRight(q, c, d)
<1>1. ASSUME NEW m \in Nodes
      PROVE  /\ q[m] = IF m = n THEN to ELSE p[m]
             /\ c[m] = IF m = n THEN 1 ELSE b[m]
  BY DEF TreeIsRight, NodeIsRight
<1>2. \A m \in Nodes : Kept(p, b, q, c, m)
  BY <1>1 DEF Kept, Untouched, Finished
<1>3. NodeIsRight(p, b, n) /\ n \notin d
  BY DEF TreeIsRight, Finished
<1>4. NodeIsRight(q, c, n)
  BY <1>1, <1>2, <1>3, ChildrenAreNodes
     DEF NodeIsRight, HalvesAreRight, Kept, Stages, Untouched, Finished
<1> QED
  <2>1. GrowsAt({n}, p, b, q, c, d)
    BY <1>1, <1>2, <1>3, <1>4 DEF GrowsAt
  <2> QED
    BY <2>1, TreeGrows

\* decide_fork() without one: the left half is begun
LEMMA LeftBegun ==
    ASSUME NEW p \in [Nodes -> Phases], NEW b \in [Nodes -> Nat], NEW d \in SUBSET Nodes,
           TreeIsRight(p, b, d), NEW n \in Nodes, p[n] = "create", HasChildren(n),
           NEW q, q = [p EXCEPT ![n] = "left", ![2 * n] = "create"],
           NEW c, c = [b EXCEPT ![n] = @ + 1]
    PROVE  TreeIsRight(q, c, d)
<1>1. PICK l \in Nodes : l = 2 * n /\ l # n /\ 2 * n + 1 \in Nodes /\ 2 * n + 1 # n /\ 2 * n + 1 # l
  BY ChildrenAreNodes
<1>2. ASSUME NEW m \in Nodes
      PROVE  /\ q[m] = IF m = n THEN "left" ELSE IF m = l THEN "create" ELSE p[m]
             /\ c[m] = IF m = n THEN 1 ELSE b[m]
  BY <1>1 DEF TreeIsRight, NodeIsRight
<1>3. \A m \in Nodes \ {l} : Kept(p, b, q, c, m)
  BY <1>1, <1>2 DEF Kept, Untouched, Finished
<1>4. NodeIsRight(p, b, n) /\ NodeIsRight(p, b, l)
  BY DEF TreeIsRight
<1>5. Untouched(p, b, l) /\ Untouched(p, b, 2 * n + 1)
  BY <1>1, <1>4 DEF NodeIsRight, HalvesAreRight
<1>6. n \notin d /\ l \notin d
  BY <1>5 DEF TreeIsRight, Finished, Untouched
<1>7. NodeIsRight(q, c, n)
  BY <1>1, <1>2, <1>3, <1>5
     DEF NodeIsRight, HalvesAreRight, Kept, Stages, Untouched, Finished
<1>8. NodeIsRight(q, c, l)
  <2>1. 2 * l # l /\ 2 * l + 1 # l
    BY DEF Nodes
  <2> QED
    BY <1>1, <1>2, <1>3, <1>4, <1>5, <2>1, ChildrenAreNodes
     DEF NodeIsRight, HalvesAreRight, Kept, Stages, Untouched, Finished
<1> QED
  <2>1. GrowsAt({n, l}, p, b, q, c, d)
    BY <1>1, <1>2, <1>3, <1>6, <1>7, <1>8, ChildrenDiffer DEF GrowsAt
  <2> QED
    BY <2>1, TreeGrows

\* async_right(): the right half is queued and the left one begun
LEMMA BothBegun ==
    ASSUME NEW p \in [Nodes -> Phases], NEW b \in [Nodes -> Nat], NEW d \in SUBSET Nodes,
           TreeIsRight(p, b, d), NEW n \in Nodes, p[n] = "fork",
           NEW q, q = [p EXCEPT ![n] = "forked", ![2 * n] = "create", ![2 * n + 1] = "queued"]
    PROVE  TreeIsRight(q, b, d)
<1>1. PICK l \in Nodes, r \in Nodes : /\ l = 2 * n /\ r = 2 * n + 1 /\ HasChildren(n)
                                      /\ l # n /\ r # n /\ r # l
  <2>1. HasChildren(n)
    BY DEF TreeIsRight, NodeIsRight
  <2> QED
    BY <2>1, ChildrenAreNodes
<1>2. ASSUME NEW m \in Nodes
      PROVE  q[m] = IF m = n THEN "forked" ELSE IF m = l THEN "create"
                    ELSE IF m = r THEN "queued" ELSE p[m]
  BY <1>1
<1>3. \A m \in Nodes \ {l, r} : Kept(p, b, q, b, m)
  BY <1>1, <1>2 DEF Kept, Untouched, Finished
<1>4. NodeIsRight(p, b, n) /\ NodeIsRight(p, b, l) /\ NodeIsRight(p, b, r)
  BY DEF TreeIsRight
<1>5. Untouched(p, b, l) /\ Untouched(p, b, r)
  BY <1>1, <1>4 DEF NodeIsRight, HalvesAreRight
<1>6. n \notin d /\ l \notin d /\ r \notin d
  BY <1>5 DEF TreeIsRight, Finished, Untouched
<1>7. NodeIsRight(q, b, n)
  BY <1>1, <1>2, <1>4, <1>5
     DEF NodeIsRight, HalvesAreRight, Stages, Untouched, Finished
<1>8. ASSUME NEW k \in {l, r} PROVE NodeIsRight(q, b, k)
  <2>1. /\ 2 * k # l /\ 2 * k # r /\ 2 * k + 1 # l /\ 2 * k + 1 # r
    BY <1>1 DEF Nodes
  <2> QED
    BY <1>1, <1>2, <1>3, <1>4, <1>5, <2>1, ChildrenAreNodes
     DEF NodeIsRight, HalvesAreRight, Kept, Stages, Untouched, Finished
<1> QED
  <2>1. \A m \in Nodes \ {n, l, r} : 2 * m \notin {l, r} /\ 2 * m + 1 \notin {l, r}
    BY <1>1, ChildrenDiffer
  <2>2. GrowsAt({n, l, r}, p, b, q, b, d)
    BY <1>2, <1>3, <1>6, <1>7, <1>8, <2>1 DEF GrowsAt
  <2> QED
    BY <2>2, TreeGrows

\* return_left() to a call without a thread for the right half
LEMMA RightBegun ==
    ASSUME NEW p \in [Nodes -> Phases], NEW b \in [Nodes -> Nat], NEW d \in SUBSET Nodes,
           TreeIsRight(p, b, d), NEW n \in Nodes, p[n] = "left", p[2 * n] = "done",
           NEW q, q = [p EXCEPT ![n] = "right", ![2 * n] = "none", ![2 * n + 1] = "create"]
    PROVE  TreeIsRight(q, b, d)
<1>1. PICK l \in Nodes, r \in Nodes : /\ l = 2 * n /\ r = 2 * n + 1 /\ HasChildren(n)
                                      /\ l # n /\ r # n /\ r # l
  <2>1. HasChildren(n)
    BY DEF TreeIsRight, NodeIsRight
  <2> QED
    BY <2>1, ChildrenAreNodes
<1>2. ASSUME NEW m \in Nodes
      PROVE  q[m] = IF m = n THEN "right" ELSE IF m = l THEN "none"
                    ELSE IF m = r THEN "create" ELSE p[m]
  BY <1>1
<1>3. \A m \in Nodes \ {l, r} : Kept(p, b, q, b, m)
  BY <1>1, <1>2 DEF Kept, Untouched, Finished
<1>4. NodeIsRight(p, b, n) /\ NodeIsRight(p, b, l) /\ NodeIsRight(p, b, r)
  BY DEF TreeIsRight
<1>5. Untouched(p, b, r) /\ b[l] = 1
  BY <1>1, <1>4 DEF NodeIsRight, HalvesAreRight, Stages
<1>6. n \notin d /\ l \notin d /\ r \notin d
  BY <1>1, <1>5 DEF TreeIsRight, Finished, Untouched
<1>7. NodeIsRight(q, b, n)
  BY <1>1, <1>2, <1>4, <1>5
     DEF NodeIsRight, HalvesAreRight, Stages, Untouched, Finished
<1>8. ASSUME NEW k \in {l, r} PROVE NodeIsRight(q, b, k)
  <2>1. /\ 2 * k # l /\ 2 * k # r /\ 2 * k + 1 # l /\ 2 * k + 1 # r
    BY <1>1 DEF Nodes
  <2> QED
    BY <1>1, <1>2, <1>3, <1>4, <1>5, <2>1, ChildrenAreNodes
     DEF NodeIsRight, HalvesAreRight, Kept, Stages, Untouched, Finished
<1> QED
  <2>1. \A m \in Nodes \ {n, l, r} : 2 * m \notin {l, r} /\ 2 * m + 1 \notin {l, r}
    BY <1>1, ChildrenDiffer
  <2>2. GrowsAt({n, l, r}, p, b, q, b, d)
    BY <1>2, <1>3, <1>6, <1>7, <1>8, <2>1 DEF GrowsAt
  <2> QED
    BY <2>2, TreeGrows

\* return_left() of one half to a call that the other half is left to wait for
\* or is done: k is the half that returns
LEMMA HalfReturns ==
    ASSUME NEW p \in [Nodes -> Phases], NEW b \in [Nodes -> Nat], NEW d \in SUBSET Nodes,
           TreeIsRight(p, b, d), NEW n \in Nodes, NEW k, p[k] = "done",
           NEW to \in {"get", "done"},
           \/ p[n] = "forked" /\ k = 2 * n /\ to = "get"
           \/ p[n] = "right" /\ k = 2 * n + 1 /\ to = "done",
           NEW q, q = [p EXCEPT ![n] = to, ![k] = "none"]
    PROVE  TreeIsRight(q, b, d)
<1>1. /\ k \in Nodes /\ k # n /\ HasChildren(n) /\ 2 * n \in Nodes /\ 2 * n + 1 \in Nodes
      /\ 2 * n # n /\ 2 * n + 1 # n /\ 2 * n # 2 * n + 1
  <2>1. HasChildren(n)
    BY DEF TreeIsRight, NodeIsRight
  <2> QED
    BY <2>1, ChildrenAreNodes
<1>2. ASSUME NEW m \in Nodes
      PROVE  q[m] = IF m = n THEN to ELSE IF m = k THEN "none" ELSE p[m]
  BY <1>1
<1>3. NodeIsRight(p, b, n) /\ NodeIsRight(p, b, k)
  BY <1>1 DEF TreeIsRight
<1>4. b[k] = 1 /\ b[n] = 1
  BY <1>1, <1>3 DEF NodeIsRight, Stages
<1>5. \A m \in Nodes : Kept(p, b, q, b, m)
  BY <1>1, <1>2, <1>4 DEF Kept, Untouched, Finished
<1>6. n \notin d /\ k \notin d
  BY <1>1 DEF TreeIsRight, Finished, Untouched
<1>7. NodeIsRight(q, b, n)
  <2>1. Finished(q, b, k)
    BY <1>1, <1>2, <1>4 DEF Finished
  <2> QED
    BY <1>1, <1>2, <1>3, <1>4, <1>5, <2>1
       DEF NodeIsRight, HalvesAreRight, Kept, Stages, Untouched, Finished
<1>8. NodeIsRight(q, b, k)
  BY <1>1, <1>2, <1>3, <1>4, <1>5, ChildrenAreNodes
     DEF NodeIsRight, HalvesAreRight, Kept, Stages, Untouched, Finished
<1> QED
  <2>1. GrowsAt({n, k}, p, b, q, b, d)
    BY <1>1, <1>2, <1>5, <1>6, <1>7, <1>8 DEF GrowsAt
  <2> QED
    BY <1>1, <2>1, TreeGrows

\* take_task(), get_right(), and the end of the outermost call
LEMMA NodeGoesOn ==
    ASSUME NEW p \in [Nodes -> Phases], NEW b \in [Nodes -> Nat], NEW d \in SUBSET Nodes,
           TreeIsRight(p, b, d), NEW n \in Nodes, NEW to \in {"create", "done", "none"},
           \/ p[n] = "queued" /\ to = "create"
           \/ p[n] = "get" /\ to = "done" /\ 2 * n + 1 \in d
           \/ p[n] = "done" /\ to = "none",
           NEW q, q = [p EXCEPT ![n] = to]
    PROVE  TreeIsRight(q, b, d) /\ (to = "none" => TreeIsRight(q, b, d \cup {n}))
<1>1. ASSUME NEW m \in Nodes PROVE q[m] = IF m = n THEN to ELSE p[m]
  OBVIOUS
<1>2. NodeIsRight(p, b, n) /\ n \notin d
  BY DEF TreeIsRight, Finished
<1>3. b[n] = IF to = "create" THEN 0 ELSE 1
  BY <1>2 DEF NodeIsRight, Stages
<1>4. \A m \in Nodes : Kept(p, b, q, b, m)
  BY <1>1, <1>3 DEF Kept, Untouched, Finished
<1>5. NodeIsRight(q, b, n)
  <2>1. to = "done" => Finished(p, b, 2 * n + 1)
    BY DEF TreeIsRight
  <2> QED
    BY <1>1, <1>2, <1>3, <1>4, <2>1, ChildrenAreNodes
       DEF NodeIsRight, HalvesAreRight, Kept, Stages, Untouched, Finished
<1>6. TreeIsRight(q, b, d)
  <2>1. GrowsAt({n}, p, b, q, b, d)
    BY <1>1, <1>2, <1>4, <1>5 DEF GrowsAt
  <2> QED
    BY <2>1, TreeGrows
<1> QED
  BY <1>1, <1>3, <1>6 DEF TreeIsRight, Finished

-----------------------------------------------------------------------------
(* A step that changes the calls of one thread, and the queue.             *)

\* t goes on with the calls s; q is what becomes of the phases.
MovesTo(t, s, q) ==
    \A n \in Nodes :
        /\ n \in NodesOf(s) =>
              /\ On(s, n, q[n])
              /\ n \notin QueuedIn(tasks')
              /\ n \in NodesOf(stack[t]) \/ phase[n] \in {"none", "queued"}
        /\ n \notin NodesOf(s) =>
              /\ q[n] = "queued" <=> n \in QueuedIn(tasks')
              /\ n \in NodesOf(stack[t]) => q[n] \in {"none", "queued"}
              /\ n \notin NodesOf(stack[t]) =>
                    q[n] = phase[n] \/ {q[n], phase[n]} \subseteq {"none", "queued"}

LEMMA ThreadStep ==
    ASSUME TypeOK, HeldOnce, TypeOK',
           NEW t \in Threads, NEW s \in Seq(Frames), stack' = [stack EXCEPT ![t] = s],
           Distinct(s), QueuedOnce(tasks'),
           NEW q \in [Nodes -> Phases], MovesTo(t, s, q)
    PROVE  HeldOnce' /\ phase' = q
<1>1. ASSUME NEW u \in Threads
      PROVE  /\ stack'[u] = IF u = t THEN s ELSE stack[u]
             /\ stack[u] \in Seq(Frames)
  BY DEF TypeOK
<1>2. PhasesAre(phase)
  BY PhaseIsRight
<1>3. ASSUME NEW u \in Threads \ {t}, NEW n \in NodesOf(stack[u])
      PROVE  n \in Nodes /\ n \notin NodesOf(s) /\ n \notin QueuedIn(tasks')
  <2>1. n \in Nodes /\ phase[n] \in Stages
    BY <1>1, NodesAreInStages, PhaseOnStack
  <2>2. n \notin NodesOf(stack[t])
    BY DEF HeldOnce
  <2>3. phase[n] \notin {"none", "queued"}
    BY <2>1, StagesAreNoOtherPhases
  <2> QED
    BY <2>1, <2>2, <2>3 DEF MovesTo
<1>4. NodesOf(s) \subseteq Nodes /\ NodesOf(s) \cap QueuedIn(tasks') = {}
  BY NodesAreInStages DEF MovesTo
<1>5. ASSUME NEW u \in Threads
      PROVE  /\ Distinct(stack'[u])
             /\ NodesOf(stack'[u]) \cap QueuedIn(tasks') = {}
             /\ \A v \in Threads \ {u} : NodesOf(stack'[u]) \cap NodesOf(stack'[v]) = {}
  <2>1. Distinct(stack[u]) /\ \A v \in Threads \ {u} : NodesOf(stack[u]) \cap NodesOf(stack[v]) = {}
    BY DEF HeldOnce
  <2>2. CASE u = t
    BY <1>1, <1>3, <1>4, <2>2
  <2>3. CASE u # t
    BY <1>1, <1>3, <2>1, <2>3
  <2> QED
    BY <2>2, <2>3
<1>6. HeldOnce'
  BY <1>5 DEF HeldOnce
<1>7. ASSUME NEW n \in Nodes
      PROVE  q[n] = "queued" <=> n \in QueuedIn(tasks')
  <2>1. CASE n \in NodesOf(s)
    BY <2>1, NodesAreInStages, StagesAreNoOtherPhases DEF MovesTo
  <2>2. CASE n \notin NodesOf(s)
    BY <2>2 DEF MovesTo
  <2> QED
    BY <2>1, <2>2
<1>8. ASSUME NEW n \in Nodes, NEW stage \in Stages
      PROVE  q[n] = stage <=> \E u \in Threads : On(stack'[u], n, stage)
  <2>1. CASE n \in NodesOf(s)
    <3>1. On(s, n, q[n])
      BY <2>1 DEF MovesTo
    <3>2. \A u \in Threads \ {t} : ~On(stack'[u], n, stage)
      BY <1>1, <1>3, <2>1, NodesAreInStages
    <3>3. On(s, n, stage) <=> q[n] = stage
      BY <3>1, NodesAreInStages
    <3> QED
      BY <1>1, <3>2, <3>3
  <2>2. CASE n \notin NodesOf(s) /\ n \in NodesOf(stack[t])
    <3>1. q[n] # stage
      BY <2>2, StagesAreNoOtherPhases DEF MovesTo
    <3>2. \A u \in Threads \ {t} : n \notin NodesOf(stack[u])
      BY <2>2 DEF HeldOnce
    <3>3. \A u \in Threads : ~On(stack'[u], n, stage)
      BY <1>1, <2>2, <3>2, NodesAreInStages
    <3> QED
      BY <3>1, <3>3
  <2>3. CASE n \notin NodesOf(s) /\ n \notin NodesOf(stack[t])
    <3>1. q[n] = stage <=> phase[n] = stage
      BY <2>3, StagesAreNoOtherPhases DEF MovesTo
    <3>2. phase[n] = stage <=> \E u \in Threads : On(stack[u], n, stage)
      BY <1>2 DEF PhasesAre, InStage
    <3>3. ~On(s, n, stage) /\ ~On(stack[t], n, stage)
      BY <1>1, <2>3, NodesAreInStages
    <3> QED
      BY <1>1, <3>1, <3>2, <3>3
  <2> QED
    BY <2>1, <2>2, <2>3
<1>9. PhasesAre(q)'
  BY <1>7, <1>8 DEF PhasesAre, InStage
<1>10. (TypeOK /\ HeldOnce => \A p : PhasesAre(p) => phase = p)'
  BY PhaseIs, PTL
<1> QED
  BY <1>6, <1>9, <1>10

\* The nodes of other threads and the queue are as they were, up to r and l.
LEMMA SamePhase ==
    ASSUME UNCHANGED stack, QueuedIn(tasks') = QueuedIn(tasks)
    PROVE  phase' = phase
<1>1. \A n, stage : InStage(n, stage)' <=> InStage(n, stage)
  BY DEF InStage
<1> QED
  BY <1>1 DEF phase

-----------------------------------------------------------------------------
(* The calls of a thread, as create_build_node() changes them.             *)

\* The parts of the invariant that say where the nodes are.
Structure ==
    /\ TypeOK
    /\ \A w \in Workers : job[w] = "node" <=> stack[w] # <<>>
    /\ HeldOnce
    /\ \A t \in Threads : Linked(stack[t])

\* The types of what is not a call.
RestOK ==
    /\ tasks \in Seq(TaskSet)
    /\ job \in [Workers -> Jobs]
    /\ ready \subseteq Nodes
    /\ main_pc \in {"begin", "prepare", "wait", "build", "end"}
    /\ threads \in 0..Cardinality(Workers)
    /\ to_add \in 0..Cardinality(Workers)
    /\ arrived \in 0..Cardinality(Workers)
    /\ thread_state \subseteq Threads
    /\ built \in [Nodes -> Nat]
    /\ others \in 0..Others
    /\ more_builds \in 0..MoreBuilds
    /\ program \in {"running", "aborted", "undefined"}

\* f and the calls c around it are the calls of t.
Innermost(t, f, c) ==
    /\ f \in Frames /\ c \in Seq(Frames)
    /\ stack[t] = <<f>> \o c /\ stack[t] # <<>>
    /\ f = Head(stack[t]) /\ c = Tail(stack[t])
    /\ NodesOf(stack[t]) = {f.node} \cup NodesOf(c)
    /\ f.node \in Nodes /\ f.node \notin NodesOf(c)
    /\ f.stage \in Stages /\ phase[f.node] = f.stage
    /\ Distinct(c) /\ Linked(c)
    /\ c # <<>> => CallOf(Head(c), f.node)
    /\ \A m \in NodesOf(c) : m \in Nodes /\ phase[m] \in Stages /\ On(c, m, phase[m])

LEMMA InnermostCall ==
    ASSUME Structure, NEW t \in Threads, stack[t] # <<>>
    PROVE  Innermost(t, Head(stack[t]), Tail(stack[t]))
<1>1. PICK s : s = stack[t]
  OBVIOUS
<1>2. s \in Seq(Frames) /\ s # <<>> /\ Distinct(s) /\ Linked(s)
  BY <1>1 DEF Structure, TypeOK, HeldOnce
<1>3. PICK f, c : f = Head(s) /\ c = Tail(s)
  OBVIOUS
<1>4. f \in Frames /\ c \in Seq(Frames) /\ s = <<f>> \o c
  BY <1>2, <1>3, HeadAndTail
<1>5. /\ NodesOf(s) = {f.node} \cup NodesOf(c)
      /\ \A n, stage : On(s, n, stage) <=>
            (f.node = n /\ f.stage = stage) \/ On(c, n, stage)
      /\ Distinct(c) /\ f.node \notin NodesOf(c)
      /\ Linked(c) /\ (c # <<>> => CallOf(Head(c), f.node))
  BY <1>2, <1>4, ConsStack
<1>6. f.node \in Nodes /\ f.stage \in Stages
  BY <1>4 DEF Frames
<1>7. TypeOK /\ HeldOnce
  BY DEF Structure
<1>8. phase[f.node] = f.stage
  BY <1>1, <1>5, <1>6, <1>7, PhaseOnStack
<1>9. ASSUME NEW m \in NodesOf(c)
      PROVE  m \in Nodes /\ phase[m] \in Stages /\ On(c, m, phase[m])
  <2>1. m \in NodesOf(s) /\ m # f.node
    BY <1>5
  <2>2. m \in Nodes
    BY <1>2, <2>1, NodesAreInStages
  <2>3. phase[m] \in Stages /\ On(s, m, phase[m])
    BY <1>1, <1>7, <2>1, PhaseOnStack
  <2> QED
    BY <1>5, <2>1, <2>2, <2>3
<1> QED
  BY <1>1, <1>2, <1>3, <1>4, <1>5, <1>6, <1>8, <1>9 DEF Innermost

\* The calls c with one for n at a stage within them.
IsWithCall(s, n, stage, c) ==
    /\ s \in Seq(Frames) /\ s # <<>> /\ Distinct(s) /\ Linked(s)
    /\ NodesOf(s) = {n} \cup NodesOf(c)
    /\ Head(s).node = n /\ Head(s).stage = stage
    /\ \A m, st : On(s, m, st) <=> (m = n /\ st = stage) \/ On(c, m, st)

LEMMA WithCall ==
    ASSUME NEW c \in Seq(Frames), Distinct(c), Linked(c), NEW n \in Nodes \ NodesOf(c),
           NEW stage \in Stages, c # <<>> => CallOf(Head(c), n)
    PROVE  IsWithCall(<<[node |-> n, stage |-> stage]>> \o c, n, stage, c)
<1>1. PICK f : f = [node |-> n, stage |-> stage]
  OBVIOUS
<1>2. f \in Frames /\ f.node = n /\ f.stage = stage
  BY <1>1 DEF Frames
<1>3. PICK s : s = <<f>> \o c
  OBVIOUS
<1>4. IsWithCall(s, n, stage, c)
  BY <1>2, <1>3, ConsStack DEF IsWithCall
<1> QED
  BY <1>1, <1>3, <1>4

LEMMA SetStageIs ==
    ASSUME NEW s \in Seq(Frames), s # <<>>, NEW stage
    PROVE  SetStage(s, stage) = <<[node |-> Head(s).node, stage |-> stage]>> \o Tail(s)
<1>1. Head(s) \in Frames
  BY HeadAndTail
<1>2. [Head(s) EXCEPT !.stage = stage] = [node |-> Head(s).node, stage |-> stage]
  BY <1>1 DEF Frames
<1> QED
  BY <1>2 DEF SetStage

LEMMA JobsAreKept ==
    ASSUME Structure, job' = job, NEW t \in Threads, stack[t] # <<>>, NEW s, s # <<>>,
           stack' = [stack EXCEPT ![t] = s]
    PROVE  \A w \in Workers : job'[w] = "node" <=> stack'[w] # <<>>
<1>1. \A w \in Workers : stack'[w] = IF w = t THEN s ELSE stack[w]
  BY DEF Structure, TypeOK, Threads
<1> QED
  BY <1>1 DEF Structure

LEMMA StructureIsKept ==
    ASSUME Structure, RestOK',
           NEW t \in Threads, NEW s \in Seq(Frames), stack' = [stack EXCEPT ![t] = s],
           Distinct(s), Linked(s), QueuedOnce(tasks'),
           \A w \in Workers : job'[w] = "node" <=> stack'[w] # <<>>,
           NEW q \in [Nodes -> Phases], MovesTo(t, s, q)
    PROVE  Structure' /\ phase' = q
<1>0. TypeOK'
  <2>1. stack' \in [Threads -> Seq(Frames)]
    BY DEF Structure, TypeOK
  <2> QED
    BY <2>1 DEF RestOK, TypeOK
<1>1. HeldOnce' /\ phase' = q
  BY <1>0, ThreadStep DEF Structure
<1>2. \A u \in Threads : stack'[u] = IF u = t THEN s ELSE stack[u]
  BY DEF Structure, TypeOK
<1>3. \A u \in Threads : Linked(stack'[u])
  BY <1>2 DEF Structure
<1> QED
  BY <1>0, <1>1, <1>3 DEF Structure

\* The innermost call goes on to another stage.
GoesOn(t, n, st, q) ==
    /\ q = [phase EXCEPT ![n] = st]
    /\ st \in Stages /\ stack' = [stack EXCEPT ![t] = SetStage(stack[t], st)]
    /\ job' = job /\ tasks' = tasks

LEMMA StageStep ==
    ASSUME Structure, RestOK', NEW t \in Threads, NEW f, NEW c, Innermost(t, f, c),
           NEW n, n = f.node, NEW st, NEW q, GoesOn(t, n, st, q)
    PROVE  Structure' /\ phase' = q
<1> USE DEF GoesOn
<1>1. n = f.node
  OBVIOUS
<1>2. PICK g, s : g = [node |-> n, stage |-> st] /\ s = <<g>> \o c
  OBVIOUS
<1>3. stack[t] \in Seq(Frames)
  BY DEF Structure, TypeOK
<1>4. stack' = [stack EXCEPT ![t] = s]
  BY <1>1, <1>2, <1>3, SetStageIs DEF Innermost
<1>5. /\ c \in Seq(Frames) /\ Distinct(c) /\ Linked(c)
      /\ n \in Nodes \ NodesOf(c) /\ (c # <<>> => CallOf(Head(c), n))
  BY <1>1 DEF Innermost
<1>6. IsWithCall(s, n, st, c)
  BY <1>2, <1>5, WithCall
<1>7. q = [phase EXCEPT ![n] = st]
  OBVIOUS
<1>8. phase \in [Nodes -> Phases] /\ PhasesAre(phase)
  BY PhaseIsRight DEF Structure, PhasesAre
<1>9. q \in [Nodes -> Phases] /\ \A m \in Nodes : q[m] = IF m = n THEN st ELSE phase[m]
  BY <1>7, <1>8, StagesAreNoOtherPhases
<1>10. \A m \in Nodes : phase[m] = "queued" <=> m \in QueuedIn(tasks)
  BY <1>8 DEF PhasesAre
<1>11. NodesOf(stack[t]) = {n} \cup NodesOf(c) /\ phase[n] \in Stages
       /\ \A m \in NodesOf(c) : m \in Nodes /\ phase[m] \in Stages /\ On(c, m, phase[m])
  BY <1>1 DEF Innermost
<1>12. MovesTo(t, s, q)
  BY <1>6, <1>9, <1>10, <1>11, StagesAreNoOtherPhases DEF MovesTo, IsWithCall
<1>13. \A w \in Workers : job'[w] = "node" <=> stack'[w] # <<>>
  <2>1. stack[t] # <<>>
    BY DEF Innermost
  <2> QED
    BY <1>4, <1>6, <2>1, JobsAreKept DEF IsWithCall
<1>14. QueuedOnce(tasks')
  BY DEF Structure, HeldOnce
<1> QED
  BY <1>1, <1>4, <1>6, <1>7, <1>9, <1>12, <1>13, <1>14, StructureIsKept
     DEF IsWithCall

\* What is around the call g in the calls c: g and d, the calls around it.
IsAround(c, g, d) ==
    /\ g \in Frames /\ d \in Seq(Frames)
    /\ NodesOf(c) = {g.node} \cup NodesOf(d) /\ Distinct(d) /\ Linked(d)
    /\ g.node \notin NodesOf(d) /\ (d # <<>> => CallOf(Head(d), g.node))
    /\ \A m, sm : On(c, m, sm) <=> (g.node = m /\ g.stage = sm) \/ On(d, m, sm)

LEMMA AroundHead ==
    ASSUME NEW c \in Seq(Frames), c # <<>>, Distinct(c), Linked(c)
    PROVE  IsAround(c, Head(c), Tail(c))
<1>1. Head(c) \in Frames /\ Tail(c) \in Seq(Frames) /\ c = <<Head(c)>> \o Tail(c)
  BY HeadAndTail
<1>2. PICK g, d : g = Head(c) /\ d = Tail(c)
  OBVIOUS
<1>3. IsAround(c, g, d)
  BY <1>1, <1>2, ConsStack DEF IsAround
<1> QED
  BY <1>2, <1>3

\* The innermost call, for n, goes on to another stage and calls itself for k;
\* the nodes in Q are given to the pool.
Begins(t, n, st, k, Q, q) ==
    /\ k \in Nodes /\ st \in Stages /\ q \in [Nodes -> Phases]
    /\ CallOf([node |-> n, stage |-> st], k) /\ k # n /\ phase[k] = "none"
    /\ stack' = [stack EXCEPT ![t] = Call(SetStage(stack[t], st), k)] /\ job' = job
    /\ Q \subseteq Nodes \ {n, k} /\ \A m \in Q : phase[m] = "none"
    /\ QueuedIn(tasks') = QueuedIn(tasks) \cup Q /\ QueuedOnce(tasks')
    /\ \A m \in Nodes : q[m] = IF m = n THEN st ELSE IF m = k THEN "create"
                                ELSE IF m \in Q THEN "queued" ELSE phase[m]

LEMMA BeginStep ==
    ASSUME Structure, RestOK', NEW t \in Threads, NEW f, NEW c, Innermost(t, f, c),
           NEW n, n = f.node, NEW k, NEW st, NEW Q, NEW q, Begins(t, n, st, k, Q, q)
    PROVE  Structure' /\ phase' = q
<1> USE DEF Begins
<1>1. PICK g, h : g = [node |-> n, stage |-> st] /\ h = [node |-> k, stage |-> "create"]
  OBVIOUS
<1>2. PICK s1 : s1 = <<g>> \o c
  OBVIOUS
<1>3. PICK s : s = <<h>> \o s1
  OBVIOUS
<1>4. stack[t] \in Seq(Frames)
  BY DEF Structure, TypeOK
<1>5. stack' = [stack EXCEPT ![t] = s]
  BY <1>1, <1>2, <1>3, <1>4, SetStageIs DEF Innermost, Call
<1>6. /\ c \in Seq(Frames) /\ Distinct(c) /\ Linked(c)
      /\ n \in Nodes \ NodesOf(c) /\ (c # <<>> => CallOf(Head(c), n))
  BY DEF Innermost
<1>7. IsWithCall(s1, n, st, c)
  BY <1>1, <1>2, <1>6, WithCall
<1>8. PhasesAre(phase)
  BY PhaseIsRight DEF Structure
<1>9. NodesOf(stack[t]) = {n} \cup NodesOf(c) /\ phase[n] \in Stages
      /\ \A m \in NodesOf(c) : m \in Nodes /\ phase[m] \in Stages /\ On(c, m, phase[m])
  BY DEF Innermost
<1>10. k \notin NodesOf(c)
  BY <1>9, StagesAreNoOtherPhases
<1>11. IsWithCall(s, k, "create", s1)
  <2>1. k \in Nodes \ NodesOf(s1) /\ "create" \in Stages
    BY <1>7, <1>10 DEF IsWithCall, Stages
  <2>2. s1 \in Seq(Frames) /\ Distinct(s1) /\ Linked(s1) /\ CallOf(Head(s1), k)
    BY <1>7 DEF IsWithCall, CallOf
  <2> QED
    BY <1>1, <1>3, <2>1, <2>2, WithCall
<1>12. \A m \in Nodes : phase[m] = "queued" <=> m \in QueuedIn(tasks)
  BY <1>8 DEF PhasesAre
<1>13. /\ NodesOf(s) = {k, n} \cup NodesOf(c)
       /\ \A m, sm : On(s, m, sm) <=> \/ m = k /\ sm = "create"
                                      \/ m = n /\ sm = st
                                      \/ On(c, m, sm)
  BY <1>7, <1>11 DEF IsWithCall
<1>14. MovesTo(t, s, q)
  BY <1>6, <1>9, <1>10, <1>12, <1>13, StagesAreNoOtherPhases DEF MovesTo
<1>15. \A w \in Workers : job'[w] = "node" <=> stack'[w] # <<>>
  <2>1. stack[t] # <<>> /\ s # <<>>
    BY <1>11 DEF Innermost, IsWithCall
  <2> QED
    BY <1>5, <2>1, JobsAreKept
<1>16. s \in Seq(Frames) /\ Distinct(s) /\ Linked(s)
  BY <1>11 DEF IsWithCall
<1> QED
  BY <1>5, <1>14, <1>15, <1>16, StructureIsKept

\* The innermost call, for k, returns to the one for n, which goes on to
\* another stage.
Returns(t, f, c, g, st, q) ==
    /\ c # <<>> /\ g = Head(c) /\ st \in Stages /\ q \in [Nodes -> Phases]
    /\ stack' = [stack EXCEPT ![t] = SetStage(c, st)] /\ job' = job /\ tasks' = tasks
    /\ \A m \in Nodes : q[m] = IF m = g.node THEN st ELSE IF m = f.node THEN "none"
                                ELSE phase[m]

LEMMA ReturnStep ==
    ASSUME Structure, RestOK', NEW t \in Threads, NEW f, NEW c, Innermost(t, f, c),
           NEW g, NEW st, NEW q, Returns(t, f, c, g, st, q)
    PROVE  Structure' /\ phase' = q
<1> USE DEF Returns
<1>1. PICK n, k, d : n = g.node /\ k = f.node /\ d = Tail(c)
  OBVIOUS
<1>2. PICK h, s : h = [node |-> n, stage |-> st] /\ s = <<h>> \o d
  OBVIOUS
<1>3. /\ c \in Seq(Frames) /\ Distinct(c) /\ Linked(c) /\ k \in Nodes \ NodesOf(c)
      /\ NodesOf(stack[t]) = {k} \cup NodesOf(c)
      /\ \A m \in NodesOf(c) : m \in Nodes /\ phase[m] \in Stages /\ On(c, m, phase[m])
  BY <1>1 DEF Innermost
<1>4. stack' = [stack EXCEPT ![t] = s]
  BY <1>1, <1>2, <1>3, SetStageIs
<1>5. g \in Frames /\ d \in Seq(Frames) /\ c = <<g>> \o d
  BY <1>1, <1>3, HeadAndTail
<1>6. /\ NodesOf(c) = {n} \cup NodesOf(d) /\ Distinct(d) /\ Linked(d)
      /\ n \notin NodesOf(d) /\ (d # <<>> => CallOf(Head(d), n))
      /\ \A m, sm : On(c, m, sm) <=> (n = m /\ g.stage = sm) \/ On(d, m, sm)
  BY <1>1, <1>3, AroundHead DEF IsAround
<1>7. n \in Nodes
  BY <1>3, <1>6
<1>8. IsWithCall(s, n, st, d)
  BY <1>2, <1>5, <1>6, <1>7, WithCall
<1>9. \A m \in Nodes : phase[m] = "queued" <=> m \in QueuedIn(tasks)
  BY PhaseIsRight DEF Structure, PhasesAre
<1>10. \A m \in NodesOf(d) : On(d, m, phase[m])
  BY <1>3, <1>6
<1>11. phase[k] \in Stages
  BY <1>1 DEF Innermost
<1>12. /\ NodesOf(s) = {n} \cup NodesOf(d)
       /\ \A m, sm : On(s, m, sm) <=> (m = n /\ sm = st) \/ On(d, m, sm)
  BY <1>8 DEF IsWithCall
<1>13. MovesTo(t, s, q)
  BY <1>1, <1>3, <1>6, <1>7, <1>9, <1>10, <1>11, <1>12, StagesAreNoOtherPhases DEF MovesTo
<1>14. \A w \in Workers : job'[w] = "node" <=> stack'[w] # <<>>
  <2>1. stack[t] # <<>> /\ s # <<>>
    BY <1>8 DEF Innermost, IsWithCall
  <2> QED
    BY <1>4, <2>1, JobsAreKept
<1>15. QueuedOnce(tasks')
  BY DEF Structure, HeldOnce
<1> QED
  BY <1>4, <1>8, <1>13, <1>14, <1>15, StructureIsKept DEF IsWithCall

\* The same, and the call for n calls itself for r.
ReturnsToRight(t, f, c, g, r, q) ==
    /\ c # <<>> /\ g = Head(c) /\ r \in Nodes /\ r # g.node /\ r # f.node
    /\ CallOf([node |-> g.node, stage |-> "right"], r) /\ phase[r] = "none"
    /\ stack' = [stack EXCEPT ![t] = Call(SetStage(c, "right"), r)]
    /\ job' = job /\ tasks' = tasks /\ q \in [Nodes -> Phases]
    /\ \A m \in Nodes : q[m] = IF m = g.node THEN "right"
                                ELSE IF m = f.node THEN "none"
                                ELSE IF m = r THEN "create" ELSE phase[m]

LEMMA RightStep ==
    ASSUME Structure, RestOK', NEW t \in Threads, NEW f, NEW c, Innermost(t, f, c),
           NEW g, NEW r, NEW q, ReturnsToRight(t, f, c, g, r, q)
    PROVE  Structure' /\ phase' = q
<1> USE DEF ReturnsToRight
<1>1. PICK n, k, d : n = g.node /\ k = f.node /\ d = Tail(c)
  OBVIOUS
<1>2. PICK h, s1 : h = [node |-> n, stage |-> "right"] /\ s1 = <<h>> \o d
  OBVIOUS
<1>3. PICK e, s : e = [node |-> r, stage |-> "create"] /\ s = <<e>> \o s1
  OBVIOUS
<1>4. /\ c \in Seq(Frames) /\ Distinct(c) /\ Linked(c) /\ k \in Nodes \ NodesOf(c)
      /\ NodesOf(stack[t]) = {k} \cup NodesOf(c)
      /\ \A m \in NodesOf(c) : m \in Nodes /\ phase[m] \in Stages /\ On(c, m, phase[m])
  BY <1>1 DEF Innermost
<1>5. stack' = [stack EXCEPT ![t] = s]
  BY <1>1, <1>2, <1>3, <1>4, SetStageIs DEF Call
<1>6. g \in Frames /\ d \in Seq(Frames) /\ c = <<g>> \o d
  BY <1>1, <1>4, HeadAndTail
<1>7. /\ NodesOf(c) = {n} \cup NodesOf(d) /\ Distinct(d) /\ Linked(d)
      /\ n \notin NodesOf(d) /\ (d # <<>> => CallOf(Head(d), n))
      /\ \A m, sm : On(c, m, sm) <=> (n = m /\ g.stage = sm) \/ On(d, m, sm)
  BY <1>1, <1>4, AroundHead DEF IsAround
<1>8. n \in Nodes /\ "right" \in Stages /\ "create" \in Stages
  BY <1>4, <1>7 DEF Stages
<1>9. IsWithCall(s1, n, "right", d)
  BY <1>2, <1>6, <1>7, <1>8, WithCall
<1>10. r \notin NodesOf(d)
  BY <1>4, <1>7, StagesAreNoOtherPhases
<1>11. IsWithCall(s, r, "create", s1)
  <2>1. r \in Nodes \ NodesOf(s1)
    BY <1>1, <1>9, <1>10 DEF IsWithCall
  <2>2. s1 \in Seq(Frames) /\ Distinct(s1) /\ Linked(s1) /\ CallOf(Head(s1), r)
    BY <1>1, <1>9 DEF IsWithCall, CallOf
  <2> QED
    BY <1>3, <1>8, <2>1, <2>2, WithCall
<1>12. \A m \in Nodes : phase[m] = "queued" <=> m \in QueuedIn(tasks)
  BY PhaseIsRight DEF Structure, PhasesAre
<1>13. \A m \in NodesOf(d) : On(d, m, phase[m])
  BY <1>4, <1>7
<1>14. phase[k] \in Stages
  BY <1>1 DEF Innermost
<1>15. /\ NodesOf(s) = {r, n} \cup NodesOf(d)
       /\ \A m, sm : On(s, m, sm) <=> \/ m = r /\ sm = "create"
                                      \/ m = n /\ sm = "right"
                                      \/ On(d, m, sm)
  BY <1>9, <1>11 DEF IsWithCall
<1>16. MovesTo(t, s, q)
  BY <1>1, <1>4, <1>7, <1>8, <1>10, <1>12, <1>13, <1>14, <1>15, StagesAreNoOtherPhases
     DEF MovesTo
<1>17. \A w \in Workers : job'[w] = "node" <=> stack'[w] # <<>>
  <2>1. stack[t] # <<>> /\ s # <<>>
    BY <1>11 DEF Innermost, IsWithCall
  <2> QED
    BY <1>5, <2>1, JobsAreKept
<1>18. QueuedOnce(tasks')
  BY DEF Structure, HeldOnce
<1> QED
  BY <1>5, <1>11, <1>16, <1>17, <1>18, StructureIsKept DEF IsWithCall

\* The outermost call returns.
Leaves(t, n, q) ==
    /\ q = [phase EXCEPT ![n] = "none"]
    /\ stack' = [stack EXCEPT ![t] = <<>>] /\ tasks' = tasks
    /\ \A w \in Workers : job'[w] = "node" <=> stack'[w] # <<>>

LEMMA LastStep ==
    ASSUME Structure, RestOK', NEW t \in Threads, NEW f, NEW c, Innermost(t, f, c), c = <<>>,
           NEW n, n = f.node, NEW q, Leaves(t, n, q)
    PROVE  Structure' /\ phase' = q
<1> USE DEF Leaves
<1>1. n = f.node
  OBVIOUS
<1>2. n \in Nodes /\ phase[n] \in Stages /\ NodesOf(stack[t]) = {n}
  BY <1>1, EmptyStack DEF Innermost
<1>3. phase \in [Nodes -> Phases] /\ \A m \in Nodes : phase[m] = "queued" <=> m \in QueuedIn(tasks)
  BY PhaseIsRight DEF Structure, PhasesAre
<1>4. q = [phase EXCEPT ![n] = "none"]
  OBVIOUS
<1>5. q \in [Nodes -> Phases] /\ \A m \in Nodes : q[m] = IF m = n THEN "none" ELSE phase[m]
  BY <1>3, <1>4, StagesAreNoOtherPhases
<1>6. MovesTo(t, <<>>, q)
  BY <1>2, <1>3, <1>5, EmptyStack, StagesAreNoOtherPhases DEF MovesTo
<1>7. QueuedOnce(tasks')
  BY DEF Structure, HeldOnce
<1> QED
  BY <1>1, <1>4, <1>5, <1>6, <1>7, EmptyStack, StructureIsKept

\* The first call of a thread, for a node that was queued or nowhere.
StartsAt(t, n, q) ==
    /\ q = [phase EXCEPT ![n] = "create"]
    /\ stack[t] = <<>> /\ n \in Nodes
    /\ stack' = [stack EXCEPT ![t] = <<[node |-> n, stage |-> "create"]>>]
    /\ phase[n] \in {"none", "queued"} /\ n \notin QueuedIn(tasks')
    /\ QueuedIn(tasks) \ {n} = QueuedIn(tasks') /\ QueuedOnce(tasks')
    /\ \A w \in Workers : job'[w] = "node" <=> stack'[w] # <<>>

LEMMA FirstStep ==
    ASSUME Structure, RestOK', NEW t \in Threads, NEW n, NEW q, StartsAt(t, n, q)
    PROVE  Structure' /\ phase' = q
<1> USE DEF StartsAt
<1>1. PICK g : g = [node |-> n, stage |-> "create"]
  OBVIOUS
<1>2. PICK s : s = <<g>> \o <<>>
  OBVIOUS
<1>3. s = <<g>>
  BY <1>2
<1>4. IsWithCall(s, n, "create", <<>>)
  <2>1. "create" \in Stages /\ n \in Nodes \ NodesOf(<<>>)
    BY EmptyStack DEF Stages
  <2> QED
    BY <1>1, <1>2, <2>1, EmptyStack, WithCall
<1>5. phase \in [Nodes -> Phases] /\ \A m \in Nodes : phase[m] = "queued" <=> m \in QueuedIn(tasks)
  BY PhaseIsRight DEF Structure, PhasesAre
<1>6. q = [phase EXCEPT ![n] = "create"]
  OBVIOUS
<1>7. q \in [Nodes -> Phases] /\ \A m \in Nodes : q[m] = IF m = n THEN "create" ELSE phase[m]
  BY <1>5, <1>6 DEF Phases, Stages
<1>8. /\ NodesOf(s) = {n} /\ NodesOf(stack[t]) = {}
      /\ \A m, sm : On(s, m, sm) <=> m = n /\ sm = "create"
  BY <1>4, EmptyStack DEF IsWithCall
<1>9. MovesTo(t, s, q)
  BY <1>5, <1>7, <1>8 DEF MovesTo
<1> QED
  BY <1>1, <1>3, <1>4, <1>6, <1>7, <1>9, StructureIsKept DEF IsWithCall

-----------------------------------------------------------------------------
(* The steps of create_build_node() and the tree.                          *)

\* What each of them leads to.
Grown ==
    /\ Structure'
    /\ TreeIsRight(phase', built', ready')
    /\ phase[1] \in Stages => phase'[1] \in Stages

LEMMA IInvSays ==
    ASSUME IInv
    PROVE  /\ Structure /\ TypeOK /\ HeldOnce /\ RestOK
           /\ TreeIsRight(phase, built, ready)
           /\ phase \in [Nodes -> Phases] /\ built \in [Nodes -> Nat]
           /\ ready \in SUBSET Nodes
           /\ 1 \in Nodes
           /\ QueuedOnce(tasks) /\ tasks \in Seq(TaskSet)
           /\ \A n \in Nodes : phase[n] = "queued" <=> n \in QueuedIn(tasks)
<1>1. Structure /\ TypeOK /\ HeldOnce /\ TreeIsRight(phase, built, ready)
  BY DEF IInv, Structure
<1>2. RestOK
  BY <1>1 DEF TypeOK, RestOK
<1>3. PhasesAre(phase)
  BY <1>1, PhaseIsRight
<1>4. 1 \in Nodes
  BY MaxNodeAssumption DEF Nodes
<1> QED
  BY <1>1, <1>2, <1>3, <1>4 DEF RestOK, PhasesAre, HeldOnce

\* The call a thread is at.
LEMMA AtCall ==
    ASSUME IInv, NEW t \in Threads, NEW stage, At(t, stage)
    PROVE  \E f, c, n : /\ Innermost(t, f, c) /\ stack[t] # <<>>
                        /\ f = Head(stack[t]) /\ c = Tail(stack[t])
                        /\ n = f.node /\ n = Head(stack[t]).node
                        /\ n \in Nodes /\ phase[n] = stage
<1>1. stack[t] # <<>> /\ Head(stack[t]).stage = stage
  BY DEF At
<1>2. PICK f, c : f = Head(stack[t]) /\ c = Tail(stack[t])
  OBVIOUS
<1>3. Innermost(t, f, c)
  BY <1>1, <1>2, InnermostCall, IInvSays
<1>4. f.node \in Nodes /\ phase[f.node] = f.stage
  BY <1>3 DEF Innermost
<1> QED
  BY <1>1, <1>2, <1>3, <1>4

LEMMA CreateLeafStep ==
    ASSUME IInv, NEW t \in Threads, create_leaf(t)
    PROVE  Grown
<1>1. At(t, "create")
  BY DEF create_leaf
<1>2. PICK f, c, n : /\ Innermost(t, f, c) /\ stack[t] # <<>>
                     /\ n = f.node /\ n = Head(stack[t]).node
                     /\ n \in Nodes /\ phase[n] = "create"
  BY <1>1, AtCall
<1>3. /\ stack' = [stack EXCEPT ![t] = SetStage(@, "done")]
      /\ built' = [built EXCEPT ![n] = @ + 1]
      /\ UNCHANGED <<tasks, job, ready>>
  BY <1>2 DEF create_leaf
<1>4. RestOK'
  <2>1. built' \in [Nodes -> Nat]
    BY <1>2, <1>3, IInvSays
  <2> QED
    BY <1>3, <2>1, IInvSays DEF RestOK, create_leaf
<1>5. Structure' /\ phase' = [phase EXCEPT ![n] = "done"]
  <2>1. PICK q : q = [phase EXCEPT ![n] = "done"]
    OBVIOUS
  <2>2. GoesOn(t, n, "done", q)
    BY <1>3, <2>1 DEF GoesOn, Stages
  <2> QED
    BY <1>2, <1>4, <2>1, <2>2, IInvSays, StageStep
<1>6. TreeIsRight(phase', built', ready')
  BY <1>2, <1>3, <1>5, IInvSays, NodeCreated
<1>7. phase[1] \in Stages => phase'[1] \in Stages
  BY <1>2, <1>5, IInvSays DEF Stages
<1> QED
  BY <1>5, <1>6, <1>7 DEF Grown

\* The halves of a node that is at its beginning, or about to be forked.
LEMMA HalvesAreUntouched ==
    ASSUME IInv, NEW n \in Nodes, HasChildren(n), phase[n] \in {"create", "fork"}
    PROVE  /\ phase[2 * n] = "none" /\ phase[2 * n + 1] = "none"
           /\ 2 * n \in Nodes /\ 2 * n + 1 \in Nodes
           /\ 2 * n # n /\ 2 * n + 1 # n /\ 2 * n # 2 * n + 1
<1>1. NodeIsRight(phase, built, n)
  BY DEF IInv, TreeIsRight
<1> QED
  BY <1>1, ChildrenAreNodes DEF NodeIsRight, HalvesAreRight, Untouched

LEMMA DecideForkStep ==
    ASSUME IInv, NEW t \in Threads, decide_fork(t)
    PROVE  Grown
<1>1. At(t, "create")
  BY DEF decide_fork
<1>2. PICK f, c, n : /\ Innermost(t, f, c) /\ stack[t] # <<>>
                     /\ n = f.node /\ n = Head(stack[t]).node
                     /\ n \in Nodes /\ phase[n] = "create"
  BY <1>1, AtCall
<1>3. /\ built' = [built EXCEPT ![n] = @ + 1] /\ HasChildren(n)
      /\ UNCHANGED <<tasks, job, ready>>
  BY <1>2 DEF decide_fork
<1>4. RestOK'
  <2>1. built' \in [Nodes -> Nat]
    BY <1>2, <1>3, IInvSays
  <2> QED
    BY <1>3, <2>1, IInvSays DEF RestOK, decide_fork
<1>5. CASE stack' = [stack EXCEPT ![t] = SetStage(@, "fork")]
  <2>1. Structure' /\ phase' = [phase EXCEPT ![n] = "fork"]
    <3>1. PICK q : q = [phase EXCEPT ![n] = "fork"]
      OBVIOUS
    <3>2. GoesOn(t, n, "fork", q)
      BY <1>3, <1>5, <3>1 DEF GoesOn, Stages
    <3> QED
      BY <1>2, <1>4, <3>1, <3>2, IInvSays, StageStep
  <2>2. TreeIsRight(phase', built', ready')
    BY <1>2, <1>3, <2>1, IInvSays, NodeCreated
  <2>3. phase[1] \in Stages => phase'[1] \in Stages
    BY <1>2, <2>1, IInvSays DEF Stages
  <2> QED
    BY <2>1, <2>2, <2>3 DEF Grown
<1>6. CASE stack' = [stack EXCEPT ![t] = Call(SetStage(@, "left"), 2 * Head(@).node)]
  <2>1. PICK k : k = 2 * n
    OBVIOUS
  <2>2. stack' = [stack EXCEPT ![t] = Call(SetStage(@, "left"), k)]
    BY <1>2, <1>6, <2>1
  <2>3. k \in Nodes /\ k # n /\ phase[k] = "none"
    BY <1>2, <1>3, <2>1, HalvesAreUntouched
  <2>4. PICK q : q = [phase EXCEPT ![n] = "left", ![k] = "create"]
    OBVIOUS
  <2>5. /\ q \in [Nodes -> Phases]
        /\ \A m \in Nodes : q[m] = IF m = n THEN "left" ELSE IF m = k THEN "create"
                                   ELSE IF m \in {} THEN "queued" ELSE phase[m]
    BY <1>2, <2>3, <2>4, IInvSays DEF Phases, Stages
  <2>6. CallOf([node |-> n, stage |-> "left"], k) /\ "left" \in Stages
    BY <2>1 DEF CallOf, Stages
  <2>7. /\ QueuedIn(tasks') = QueuedIn(tasks) \cup {} /\ QueuedOnce(tasks')
        /\ {} \in SUBSET (Nodes \ {n, k}) /\ \A m \in {} : phase[m] = "none"
    BY <1>3, IInvSays
  <2>8. Structure' /\ phase' = q
    <3>1. Begins(t, n, "left", k, {}, q)
      BY <1>3, <2>2, <2>3, <2>5, <2>6, <2>7 DEF Begins
    <3> QED
      BY <1>2, <1>4, <3>1, IInvSays, BeginStep
  <2>9. TreeIsRight(phase', built', ready')
    BY <1>2, <1>3, <2>1, <2>4, <2>8, IInvSays, LeftBegun
  <2>10. phase[1] \in Stages => phase'[1] \in Stages
    BY <2>5, <2>8, IInvSays DEF Stages
  <2> QED
    BY <2>8, <2>9, <2>10 DEF Grown
<1> QED
  BY <1>5, <1>6 DEF decide_fork

LEMMA AsyncRightStep ==
    ASSUME IInv, NEW t \in Threads, async_right(t)
    PROVE  Grown /\ PreparesIn(tasks') = PreparesIn(tasks)
<1>1. At(t, "fork")
  BY DEF async_right
<1>2. PICK f, c, n : /\ Innermost(t, f, c) /\ stack[t] # <<>>
                     /\ n = f.node /\ n = Head(stack[t]).node
                     /\ n \in Nodes /\ phase[n] = "fork"
  BY <1>1, AtCall
<1>3. HasChildren(n)
  BY <1>2 DEF IInv, TreeIsRight, NodeIsRight
<1>4. PICK k, r : k = 2 * n /\ r = 2 * n + 1
  OBVIOUS
<1>5. /\ k \in Nodes /\ r \in Nodes /\ k # n /\ r # n /\ k # r
      /\ phase[k] = "none" /\ phase[r] = "none"
  BY <1>2, <1>3, <1>4, HalvesAreUntouched
<1>6. /\ stack' = [stack EXCEPT ![t] = Call(SetStage(@, "forked"), k)]
      /\ tasks' = Append(tasks, NodeTask(r))
      /\ UNCHANGED <<job, ready, built>>
  BY <1>2, <1>4 DEF async_right, add_task
<1>7. NodeTask(r) \in TaskSet /\ NodeTask(r).kind = "node" /\ NodeTask(r).node = r
  BY <1>5 DEF NodeTask, TaskSet
<1>8. r \notin QueuedIn(tasks)
  BY <1>5, IInvSays
<1>9. PICK e : e = NodeTask(r)
  OBVIOUS
<1>10. /\ tasks' \in Seq(TaskSet) /\ QueuedIn(tasks') = QueuedIn(tasks) \cup {r}
       /\ PreparesIn(tasks') = PreparesIn(tasks) /\ QueuedOnce(tasks')
  <2>1. PICK a, b : a = tasks /\ b = tasks'
    OBVIOUS
  <2>2. /\ a \in Seq(TaskSet) /\ e \in TaskSet /\ b = Append(a, e) /\ e.kind = "node"
        /\ e.node = r /\ QueuedOnce(a) /\ e.node \notin QueuedIn(a)
    BY <1>6, <1>7, <1>8, <1>9, <2>1, IInvSays
  <2>3. /\ b \in Seq(TaskSet) /\ QueuedIn(b) = QueuedIn(a) \cup {r}
        /\ PreparesIn(b) = PreparesIn(a) /\ QueuedOnce(b)
    BY <2>2, QueueGrows
  <2> QED
    BY <2>1, <2>3
<1>11. RestOK'
  BY <1>6, <1>10, IInvSays DEF RestOK, async_right
<1>12. PICK q : q = [phase EXCEPT ![n] = "forked", ![k] = "create", ![r] = "queued"]
  OBVIOUS
<1>13. /\ q \in [Nodes -> Phases]
       /\ \A m \in Nodes : q[m] = IF m = n THEN "forked" ELSE IF m = k THEN "create"
                                  ELSE IF m \in {r} THEN "queued" ELSE phase[m]
  BY <1>2, <1>5, <1>12, IInvSays DEF Phases, Stages
<1>14. CallOf([node |-> n, stage |-> "forked"], k) /\ "forked" \in Stages
  BY <1>4 DEF CallOf, Stages
<1>15. {r} \in SUBSET (Nodes \ {n, k}) /\ \A m \in {r} : phase[m] = "none"
  BY <1>5
<1>16. Structure' /\ phase' = q
  <2>1. Begins(t, n, "forked", k, {r}, q)
    BY <1>5, <1>6, <1>10, <1>13, <1>14, <1>15 DEF Begins
  <2> QED
    BY <1>2, <1>11, <2>1, IInvSays, BeginStep
<1>17. TreeIsRight(phase', built', ready')
  BY <1>2, <1>4, <1>6, <1>12, <1>16, IInvSays, BothBegun
<1>18. phase[1] \in Stages => phase'[1] \in Stages
  <2>1. r # 1
    BY <1>2, <1>3, <1>4, ChildrenAreNodes
  <2> QED
    BY <1>13, <1>16, <2>1, IInvSays DEF Stages
<1> QED
  BY <1>10, <1>16, <1>17, <1>18 DEF Grown

LEMMA GetRightStep ==
    ASSUME IInv, NEW t \in Threads, get_right(t)
    PROVE  Grown
<1>1. At(t, "get")
  BY DEF get_right
<1>2. PICK f, c, n : /\ Innermost(t, f, c) /\ stack[t] # <<>>
                     /\ n = f.node /\ n = Head(stack[t]).node
                     /\ n \in Nodes /\ phase[n] = "get"
  BY <1>1, AtCall
<1>3. /\ stack' = [stack EXCEPT ![t] = SetStage(@, "done")]
      /\ 2 * n + 1 \in ready
      /\ UNCHANGED <<tasks, job, ready, built>>
  BY <1>2 DEF get_right, RightSideReady
<1>4. RestOK'
  BY <1>3, IInvSays DEF RestOK, get_right
<1>5. Structure' /\ phase' = [phase EXCEPT ![n] = "done"]
  <2>1. PICK q : q = [phase EXCEPT ![n] = "done"]
    OBVIOUS
  <2>2. GoesOn(t, n, "done", q)
    BY <1>3, <2>1 DEF GoesOn, Stages
  <2> QED
    BY <1>2, <1>4, <2>1, <2>2, IInvSays, StageStep
<1>6. TreeIsRight(phase', built', ready')
  BY <1>2, <1>3, <1>5, IInvSays, NodeGoesOn
<1>7. phase[1] \in Stages => phase'[1] \in Stages
  BY <1>2, <1>5, IInvSays DEF Stages
<1> QED
  BY <1>5, <1>6, <1>7 DEF Grown

LEMMA ReturnLeftStep ==
    ASSUME IInv, NEW t \in Threads, return_left(t)
    PROVE  Grown
<1>1. At(t, "done")
  BY DEF return_left
<1>2. PICK f, c, k : /\ Innermost(t, f, c) /\ stack[t] # <<>> /\ c = Tail(stack[t])
                     /\ k = f.node /\ k \in Nodes /\ phase[k] = "done"
  BY <1>1, AtCall
<1>3. c # <<>> /\ UNCHANGED <<tasks, job, ready, built>>
  BY <1>2 DEF return_left
<1>4. RestOK'
  BY <1>3, IInvSays DEF RestOK, return_left
<1>5. PICK g, n : g = Head(c) /\ n = g.node
  OBVIOUS
<1>6. CallOf(g, k)
  BY <1>2, <1>3, <1>5 DEF Innermost
<1>7. n \in Nodes /\ phase[n] = g.stage
  <2>1. c \in Seq(Frames) /\ Distinct(c) /\ Linked(c)
    BY <1>2 DEF Innermost
  <2>2. IsAround(c, g, Tail(c))
    BY <1>3, <1>5, <2>1, AroundHead
  <2>3. n \in NodesOf(c) /\ On(c, n, g.stage)
    BY <1>5, <2>2 DEF IsAround
  <2>4. n \in Nodes /\ On(c, n, phase[n])
    BY <1>2, <2>3 DEF Innermost
  <2> QED
    BY <2>1, <2>3, <2>4, NodesAreInStages
<1>8. NodeIsRight(phase, built, n)
  BY <1>7, IInvSays DEF TreeIsRight
<1>9. HasChildren(n)
  BY <1>6, <1>7, <1>8 DEF CallOf, NodeIsRight
<1>10. /\ 2 * n \in Nodes /\ 2 * n + 1 \in Nodes /\ 2 * n # n /\ 2 * n + 1 # n
       /\ 2 * n # 2 * n + 1 /\ 2 * n # 1 /\ 2 * n + 1 # 1
  BY <1>7, <1>9, ChildrenAreNodes
<1>11. k \in {2 * n, 2 * n + 1} /\ k # 1 /\ k # n
  BY <1>5, <1>6, <1>10 DEF CallOf
<1>12. CASE g.stage = "left"
  <2>1. k = 2 * n
    BY <1>5, <1>6, <1>12 DEF CallOf
  <2>2. PICK r : r = 2 * n + 1
    OBVIOUS
  <2>3. stack' = [stack EXCEPT ![t] = Call(SetStage(c, "right"), r)]
    BY <1>2, <1>5, <1>12, <2>2 DEF return_left
  <2>4. phase[r] = "none"
    BY <1>7, <1>8, <1>9, <1>12, <2>2 DEF NodeIsRight, HalvesAreRight, Untouched
  <2>5. PICK q : q = [phase EXCEPT ![n] = "right", ![k] = "none", ![r] = "create"]
    OBVIOUS
  <2>6. /\ q \in [Nodes -> Phases]
        /\ \A m \in Nodes : q[m] = IF m = n THEN "right" ELSE IF m = k THEN "none"
                                   ELSE IF m = r THEN "create" ELSE phase[m]
    BY <1>7, <1>10, <1>11, <2>1, <2>2, <2>5, IInvSays DEF Phases, Stages
  <2>7. CallOf([node |-> n, stage |-> "right"], r)
    BY <2>2 DEF CallOf
  <2>8. ReturnsToRight(t, f, c, g, r, q)
    BY <1>2, <1>3, <1>5, <1>10, <2>1, <2>2, <2>3, <2>4, <2>6, <2>7 DEF ReturnsToRight
  <2>9. Structure' /\ phase' = q
    BY <1>2, <1>4, <2>8, IInvSays, RightStep
  <2>10. TreeIsRight(q, built, ready)
    BY <1>2, <1>7, <1>12, <2>1, <2>2, <2>5, IInvSays, RightBegun
  <2>11. phase[1] \in Stages => phase'[1] \in Stages
    BY <1>11, <2>6, <2>9, IInvSays DEF Stages
  <2> QED
    BY <1>3, <2>9, <2>10, <2>11 DEF Grown
<1>13. CASE g.stage # "left"
  <2>1. PICK st : st = IF g.stage = "forked" THEN "get" ELSE "done"
    OBVIOUS
  <2>2. stack' = [stack EXCEPT ![t] = SetStage(c, st)]
    <3>1. CASE g.stage = "forked"
      BY <1>2, <1>5, <1>13, <2>1, <3>1 DEF return_left
    <3>2. CASE g.stage # "forked"
      BY <1>2, <1>5, <1>13, <2>1, <3>2 DEF return_left
    <3> QED
      BY <3>1, <3>2
  <2>3. \/ g.stage = "forked" /\ k = 2 * n /\ st = "get"
        \/ g.stage = "right" /\ k = 2 * n + 1 /\ st = "done"
    BY <1>5, <1>6, <1>13, <2>1 DEF CallOf
  <2>4. st \in {"get", "done"} /\ st \in Stages
    BY <2>3 DEF Stages
  <2>5. PICK q : q = [phase EXCEPT ![n] = st, ![k] = "none"]
    OBVIOUS
  <2>6. /\ q \in [Nodes -> Phases]
        /\ \A m \in Nodes : q[m] = IF m = n THEN st ELSE IF m = k THEN "none" ELSE phase[m]
    BY <1>2, <1>7, <1>11, <2>4, <2>5, IInvSays DEF Phases, Stages
  <2>7. Returns(t, f, c, g, st, q)
    BY <1>2, <1>3, <1>5, <2>2, <2>4, <2>6 DEF Returns
  <2>8. Structure' /\ phase' = q
    BY <1>2, <1>4, <2>7, IInvSays, ReturnStep
  <2>9. TreeIsRight(q, built, ready)
    <3>1. \/ phase[n] = "forked" /\ k = 2 * n /\ st = "get"
          \/ phase[n] = "right" /\ k = 2 * n + 1 /\ st = "done"
      BY <1>7, <2>3
    <3> QED
      BY <1>2, <1>7, <2>4, <2>5, <3>1, IInvSays, HalfReturns
  <2>10. phase[1] \in Stages => phase'[1] \in Stages
    BY <1>11, <2>4, <2>6, <2>8, IInvSays DEF Stages
  <2> QED
    BY <1>3, <2>8, <2>9, <2>10 DEF Grown
<1> QED
  BY <1>12, <1>13

-----------------------------------------------------------------------------
(* The caller, and the tasks that prepare the threads.                     *)

\* Whoever is in a call, or a queued node, belongs to a build in progress.
LEMMA Building ==
    ASSUME IInv, NEW n \in Nodes, phase[n] # "none"
    PROVE  main_pc = "build" /\ to_add = 0
<1>1. main_pc \in {"begin", "prepare", "wait", "build", "end"}
  BY DEF IInv, TypeOK
<1>2. main_pc \notin {"begin", "prepare", "wait", "end"}
  BY DEF IInv, CallerIsAtRoot, Untouched
<1> QED
  BY <1>1, <1>2 DEF IInv, PreparationsAreCounted

LEMMA BuildingInCall ==
    ASSUME IInv, NEW t \in Threads, stack[t] # <<>>
    PROVE  main_pc = "build" /\ to_add = 0 /\ phase[1] \in Stages
<1>1. Innermost(t, Head(stack[t]), Tail(stack[t]))
  BY InnermostCall, IInvSays
<1>2. Head(stack[t]).node \in Nodes /\ phase[Head(stack[t]).node] # "none"
  BY <1>1, StagesAreNoOtherPhases DEF Innermost
<1>3. main_pc = "build" /\ to_add = 0
  BY <1>2, Building
<1>4. Main \in Threads /\ 1 \in NodesOf(stack[Main])
  BY <1>3 DEF IInv, CallerIsAtRoot, Threads
<1> QED
  BY <1>3, <1>4, IInvSays, PhaseOnStack

\* The node of the caller's outermost call stays with the caller.
LEMMA RootIsKept ==
    ASSUME IInv, NEW t \in Threads, stack[t] # <<>>,
           \A u \in Threads \ {t} : stack'[u] = stack[u],
           Grown
    PROVE  1 \in NodesOf(stack'[Main]) /\ stack'[Main] # <<>>
<1>1. phase[1] \in Stages /\ phase'[1] \in Stages /\ main_pc = "build"
  BY BuildingInCall DEF Grown
<1>2. (TypeOK /\ HeldOnce => PhasesAre(phase))'
  BY PhaseIsRight, PTL
<1>3. PhasesAre(phase)' /\ TypeOK'
  BY <1>2 DEF Grown, Structure
<1>4. PICK u \in Threads : On(stack'[u], 1, phase'[1])
  BY <1>1, <1>3, IInvSays DEF PhasesAre, InStage
<1>5. stack'[u] \in Seq(Frames)
  BY <1>3 DEF TypeOK
<1>6. 1 \in NodesOf(stack'[u])
  BY <1>4, <1>5, NodesAreInStages
<1>7. Main \in Threads /\ 1 \in NodesOf(stack[Main])
  BY <1>1 DEF IInv, CallerIsAtRoot, Threads
<1>8. \A v \in Threads \ {Main} : 1 \notin NodesOf(stack[v])
  BY <1>7 DEF IInv, HeldOnce
<1>9. 1 \in NodesOf(stack'[Main])
  <2>1. CASE t = Main
    BY <1>6, <1>8, <2>1
  <2>2. CASE t # Main
    BY <1>7, <2>2
  <2> QED
    BY <2>1, <2>2
<1> QED
  BY <1>9, EmptyStack

\* A step of create_build_node() that leaves the rest of the build as it was.
LEMMA GrownIsRight ==
    ASSUME IInv, NEW t \in Threads, stack[t] # <<>>,
           \A u \in Threads \ {t} : stack'[u] = stack[u],
           Grown, UNCHANGED <<main_pc, to_add, arrived>>,
           PreparesIn(tasks') = PreparesIn(tasks),
           \A w \in Workers : \/ job'[w] = job[w]
                              \/ job[w] = "node" /\ job'[w] \notin {"prepare", "barrier"}
    PROVE  IInv'
<1>1. main_pc = "build" /\ 1 \in NodesOf(stack'[Main]) /\ stack'[Main] # <<>>
  BY BuildingInCall, RootIsKept
<1>2. CallerIsAtRoot'
  BY <1>1 DEF CallerIsAtRoot
<1>3. Preparing' = Preparing
  BY DEF Preparing
<1>4. PreparationsAreCounted'
  BY <1>1, <1>3 DEF IInv, PreparationsAreCounted
<1> QED
  BY <1>2, <1>4 DEF IInv, Grown, Structure

LEMMA CallKeepsIInv ==
    ASSUME IInv, NEW t \in Threads,
           \/ create_leaf(t) \/ decide_fork(t) \/ async_right(t)
           \/ return_left(t) \/ get_right(t)
    PROVE  IInv'
<1>1. stack[t] # <<>>
  BY DEF create_leaf, decide_fork, async_right, return_left, get_right, At
<1>2. Grown /\ PreparesIn(tasks') = PreparesIn(tasks)
  <2>1. CASE async_right(t)
    BY <2>1, AsyncRightStep
  <2>2. CASE \/ create_leaf(t) \/ decide_fork(t) \/ return_left(t) \/ get_right(t)
    <3>1. tasks' = tasks
      BY <2>2 DEF create_leaf, decide_fork, return_left, get_right
    <3>2. Grown
      BY <2>2, CreateLeafStep, DecideForkStep, ReturnLeftStep, GetRightStep
    <3> QED
      BY <3>1, <3>2
  <2> QED
    BY <2>1, <2>2
<1>3. UNCHANGED <<main_pc, to_add, arrived, job>>
  BY DEF create_leaf, decide_fork, async_right, return_left, get_right
<1>4. \A u \in Threads \ {t} : stack'[u] = stack[u]
  BY IInvSays DEF create_leaf, decide_fork, async_right, return_left, get_right, TypeOK
<1> QED
  BY <1>1, <1>2, <1>3, <1>4, GrownIsRight

LEMMA ReturnNodeKeepsIInv ==
    ASSUME IInv, NEW t \in Threads, return_node(t)
    PROVE  IInv'
<1>1. At(t, "done") /\ t \in Workers
  BY DEF return_node
<1>2. PICK f, c, n : /\ Innermost(t, f, c) /\ stack[t] # <<>> /\ c = Tail(stack[t])
                     /\ n = f.node /\ n = Head(stack[t]).node
                     /\ n \in Nodes /\ phase[n] = "done"
  BY <1>1, AtCall
<1>3. /\ c = <<>> /\ ready' = ready \cup {n}
      /\ stack' = [stack EXCEPT ![t] = <<>>]
      /\ job' = [job EXCEPT ![t] = "returned"]
      /\ UNCHANGED <<tasks, main_pc, threads, to_add, arrived, thread_state,
                     built, others, more_builds, program>>
  BY <1>2 DEF return_node
<1>4. RestOK'
  <2>1. job' \in [Workers -> Jobs] /\ ready' \subseteq Nodes
    BY <1>2, <1>3, IInvSays DEF RestOK, Jobs
  <2> QED
    BY <1>3, <2>1, IInvSays DEF RestOK
<1>5. \A w \in Workers : job'[w] = "node" <=> stack'[w] # <<>>
  <2>1. \A w \in Workers : /\ job'[w] = IF w = t THEN "returned" ELSE job[w]
                           /\ stack'[w] = IF w = t THEN <<>> ELSE stack[w]
    BY <1>3, IInvSays DEF TypeOK, Threads
  <2> QED
    BY <2>1 DEF IInv
<1>6. PICK q : q = [phase EXCEPT ![n] = "none"]
  OBVIOUS
<1>7. Leaves(t, n, q)
  BY <1>3, <1>5, <1>6 DEF Leaves
<1>8. Structure' /\ phase' = q
  BY <1>2, <1>3, <1>4, <1>7, IInvSays, LastStep
<1>9. TreeIsRight(q, built, ready \cup {n})
  BY <1>2, <1>6, IInvSays, NodeGoesOn
<1>10. phase'[1] \in Stages
  <2>1. Main \in Threads /\ Main # t /\ 1 \in NodesOf(stack[Main])
    <3>1. main_pc = "build"
      BY <1>2, BuildingInCall
    <3> QED
      BY <1>1, <3>1, MainAssumption DEF IInv, CallerIsAtRoot, Threads
  <2>2. 1 # n
    <3>1. n \in NodesOf(stack[t])
      BY <1>2 DEF Innermost
    <3> QED
      BY <2>1, <3>1 DEF IInv, HeldOnce
  <2>3. phase[1] \in Stages
    BY <1>2, BuildingInCall
  <2> QED
    BY <1>6, <1>8, <2>2, <2>3, IInvSays
<1>11. Grown
  BY <1>3, <1>8, <1>9, <1>10 DEF Grown
<1>12. \A u \in Threads \ {t} : stack'[u] = stack[u]
  BY <1>3, IInvSays DEF TypeOK
<1>13. \A w \in Workers : \/ job'[w] = job[w]
                          \/ job[w] = "node" /\ job'[w] \notin {"prepare", "barrier"}
  <2>1. job[t] = "node"
    BY <1>1, <1>2 DEF IInv
  <2> QED
    BY <1>1, <1>3, <2>1, IInvSays DEF TypeOK
<1> QED
  BY <1>2, <1>3, <1>11, <1>12, <1>13, GrownIsRight

-----------------------------------------------------------------------------
(* The end of a build: when the root is done every other node is.          *)

\* A set of nodes has a least one: the intervals up to its elements cannot get
\* smaller forever.
LEMMA LeastNode ==
    ASSUME NEW S, S \subseteq Nat, S # {}
    PROVE  \E m \in S : \A n \in S : m <= n
<1> DEFINE T == {1..n : n \in S}
           R == StrictSubsetOrdering(Nat)
<1>1. T \subseteq FiniteSubsetsOf(Nat) /\ T # {}
  <2>1. \A n \in S : IsFiniteSet(1..n) /\ 1..n \subseteq Nat
    BY FS_Interval
  <2> QED
    BY <2>1 DEF FiniteSubsetsOf
<1>2. PICK x \in T : \A y \in T : ~ (<<y, x>> \in R)
  <2>1. IsWellFoundedOn(R, FiniteSubsetsOf(Nat))
    BY FS_StrictSubsetOrderingWellFounded
  <2> HIDE DEF T, R
  <2> QED
    BY <1>1, <2>1, WFMin
<1>3. PICK m \in S : x = 1..m
  BY <1>2
<1>4. ASSUME NEW n \in S, n < m PROVE FALSE
  <2>1. 1..n \subseteq 1..m /\ m \in 1..m /\ m \notin 1..n
    BY <1>4
  <2>2. <<1..n, x>> \in R
    BY <1>3, <2>1, <1>4 DEF StrictSubsetOrdering
  <2> QED
    BY <1>2, <2>2
<1> QED
  BY <1>4

\* Every node but the root is half of a node with a smaller number.
LEMMA ParentOf ==
    ASSUME NEW m \in Nodes, m # 1
    PROVE  \E n \in Nodes : n < m /\ (m = 2 * n \/ m = 2 * n + 1)
<1>1. m \in Nat /\ m >= 2 /\ m <= MaxNode
  BY MaxNodeAssumption DEF Nodes
<1>2. PICK n \in Nat : m = 2 * n \/ m = 2 * n + 1
  <2> DEFINE S == {n \in Nat : m <= 2 * n + 1}
  <2>1. S \subseteq Nat /\ S # {}
    <3>1. m \in S
      BY <1>1
    <3> QED
      BY <3>1
  <2>2. PICK n \in S : \A k \in S : n <= k
    BY <2>1, LeastNode
  <2>3. n \in Nat /\ m <= 2 * n + 1
    BY <2>2
  <2>4. 2 * n <= m
    <3>1. CASE n = 0
      BY <1>1, <3>1
    <3>2. CASE n # 0
      <4>1. n - 1 \in Nat /\ ~(n <= n - 1)
        BY <2>3, <3>2
      <4>2. n - 1 \notin S
        BY <2>2, <4>1
      <4>3. ~(m <= 2 * (n - 1) + 1)
        BY <4>1, <4>2
      <4> QED
        BY <1>1, <2>3, <4>3
    <3> QED
      BY <3>1, <3>2
  <2> QED
    BY <1>1, <2>3, <2>4
<1>3. n >= 1 /\ n < m /\ n <= MaxNode
  BY <1>1, <1>2, MaxNodeAssumption
<1> QED
  BY <1>2, <1>3, MaxNodeAssumption DEF Nodes

\* The phases of a tree whose root is done.
LEMMA OnlyRootIsLeft ==
    ASSUME NEW p \in [Nodes -> Phases], NEW b, NEW d, TreeIsRight(p, b, d),
           p[1] = "done"
    PROVE  /\ \A n \in Nodes \ {1} : p[n] = "none"
           /\ b[1] = 1
<1>1. \A n \in Nodes : NodeIsRight(p, b, n)
  BY DEF TreeIsRight
<1>2. 1 \in Nodes
  BY MaxNodeAssumption DEF Nodes
<1>3. b[1] = 1
  BY <1>1, <1>2 DEF NodeIsRight, Stages
<1>4. ASSUME \E n \in Nodes \ {1} : p[n] # "none" PROVE FALSE
  <2> DEFINE S == {n \in Nodes \ {1} : p[n] # "none"}
  <2>1. S \subseteq Nat /\ S # {}
    BY <1>4, MaxNodeAssumption DEF Nodes
  <2>2. PICK m \in S : \A n \in S : m <= n
    BY <2>1, LeastNode
  <2>3. PICK n \in Nodes : n < m /\ (m = 2 * n \/ m = 2 * n + 1)
    BY <2>2, ParentOf
  <2>4. n \notin S
    BY <2>1, <2>2, <2>3 DEF Nodes
  <2>5. p[n] = "none" \/ p[n] = "done"
    BY <2>4
  <2>6. NodeIsRight(p, b, n) /\ m \in Nodes
    BY <1>1, <2>2
  <2>7. p[n] = "done" \/ Untouched(p, b, n) \/ Finished(p, b, n)
    BY <2>5, <2>6 DEF NodeIsRight, Untouched, Finished
  <2>8. p[m] = "none"
    <3>1. CASE HasChildren(n)
      BY <2>3, <2>6, <2>7, <3>1 DEF NodeIsRight, HalvesAreRight, Untouched, Finished
    <3>2. CASE ~HasChildren(n)
      <4>1. m = 2 * n
        BY <2>3, <2>6, <3>2 DEF HasChildren
      <4> QED
        BY <2>6, <3>2, <4>1 DEF NodeIsRight, Untouched
    <3> QED
      BY <3>1, <3>2
  <2> QED
    BY <2>2, <2>8
<1> QED
  BY <1>3, <1>4

LEMMA ReturnRootKeepsIInv ==
    ASSUME IInv, return_root
    PROVE  IInv'
<1>1. At(Main, "done") /\ Main \in Threads
  BY DEF return_root, Threads
<1>2. PICK f, c, n : /\ Innermost(Main, f, c) /\ stack[Main] # <<>> /\ c = Tail(stack[Main])
                     /\ n = f.node /\ n \in Nodes /\ phase[n] = "done"
  BY <1>1, AtCall
<1>3. /\ c = <<>> /\ stack' = [stack EXCEPT ![Main] = <<>>] /\ main_pc' = "end"
      /\ UNCHANGED <<tasks, job, ready, threads, to_add, arrived, thread_state,
                     built, others, more_builds, program>>
  BY <1>2 DEF return_root
<1>4. main_pc = "build" /\ to_add = 0
  BY <1>1, <1>2, BuildingInCall
<1>5. n = 1
  <2>1. 1 \in NodesOf(stack[Main])
    BY <1>4 DEF IInv, CallerIsAtRoot
  <2> QED
    BY <1>2, <1>3, <2>1, EmptyStack DEF Innermost
<1>6. RestOK'
  BY <1>3, IInvSays DEF RestOK
<1>7. \A w \in Workers : job'[w] = "node" <=> stack'[w] # <<>>
  BY <1>3, IInvSays, MainAssumption DEF IInv, TypeOK, Threads
<1>8. PICK q : q = [phase EXCEPT ![n] = "none"]
  OBVIOUS
<1>9. Leaves(Main, n, q)
  BY <1>3, <1>7, <1>8 DEF Leaves
<1>10. Structure' /\ phase' = q
  BY <1>1, <1>2, <1>3, <1>6, <1>9, IInvSays, LastStep
<1>11. TreeIsRight(phase', built', ready')
  <2>1. TreeIsRight(q, built, ready)
    BY <1>2, <1>8, IInvSays, NodeGoesOn
  <2> QED
    BY <1>3, <1>10, <2>1
<1>12. built[1] = 1 /\ \A m \in Nodes : q[m] = "none"
  <2>1. built[1] = 1 /\ \A m \in Nodes \ {1} : phase[m] = "none"
    BY <1>2, <1>5, IInvSays, OnlyRootIsLeft
  <2> QED
    BY <1>5, <1>8, <2>1, IInvSays
<1>13. CallerIsAtRoot'
  <2>1. stack'[Main] = <<>>
    BY <1>1, <1>3, IInvSays DEF TypeOK
  <2> QED
    BY <1>3, <1>10, <1>12, <2>1 DEF CallerIsAtRoot
<1>14. PreparationsAreCounted'
  <2>1. Preparing' = Preparing
    BY <1>3 DEF Preparing
  <2> QED
    BY <1>3, <1>4, <2>1 DEF IInv, PreparationsAreCounted
<1> QED
  BY <1>10, <1>11, <1>13, <1>14 DEF IInv, Structure

\* thread_pool.wait() has returned: no task of the preparation is left.
LEMMA StartBuildKeepsIInv ==
    ASSUME IInv, start_build
    PROVE  IInv'
<1>1. /\ main_pc = "wait" /\ tasks = <<>> /\ BusyWorkers = {} /\ main_pc' = "build"
      /\ stack' = [stack EXCEPT ![Main] = <<[node |-> 1, stage |-> "create"]>>]
      /\ UNCHANGED <<tasks, job, ready, threads, to_add, arrived, thread_state,
                     built, others, more_builds, program>>
  BY DEF start_build
<1>2. \A w \in Workers : job[w] = "none"
  BY <1>1 DEF BusyWorkers, Busy
<1>3. RestOK'
  BY <1>1, IInvSays DEF RestOK
<1>4. Main \in Threads /\ stack[Main] = <<>>
  BY <1>1 DEF IInv, CallerIsAtRoot, Threads
<1>5. phase[1] = "none" /\ built[1] = 0
  BY <1>1, IInvSays DEF IInv, CallerIsAtRoot, Untouched
<1>6. \A w \in Workers : job'[w] = "node" <=> stack'[w] # <<>>
  BY <1>1, IInvSays, MainAssumption DEF IInv, TypeOK, Threads
<1>7. PICK q : q = [phase EXCEPT ![1] = "create"]
  OBVIOUS
<1>8. StartsAt(Main, 1, q)
  <2>1. QueuedIn(tasks) \ {1} = QueuedIn(tasks') /\ 1 \notin QueuedIn(tasks')
        /\ QueuedOnce(tasks')
    <3>1. QueuedIn(<<>>) = {}
      BY DEF QueuedIn
    <3> QED
      BY <1>1, <3>1, IInvSays
  <2> QED
    BY <1>1, <1>4, <1>5, <1>6, <1>7, <2>1, IInvSays DEF StartsAt
<1>9. Structure' /\ phase' = q
  BY <1>3, <1>4, <1>8, IInvSays, FirstStep
<1>10. TreeIsRight(phase', built', ready')
  <2>1. ready = {} /\ \A n \in Nodes : Untouched(phase, built, n)
    BY <1>1 DEF IInv, CallerIsAtRoot
  <2>2. ASSUME NEW n \in Nodes PROVE NodeIsRight(q, built, n)
    <3>1. /\ q[n] = IF n = 1 THEN "create" ELSE "none"
          /\ built[n] = 0
      BY <1>7, <2>1, IInvSays DEF Untouched
    <3>2. ASSUME NEW m \in Nodes, m = 2 * n \/ m = 2 * n + 1 PROVE Untouched(q, built, m)
      <4>1. m # 1
        BY <3>2 DEF Nodes
      <4> QED
        BY <1>7, <2>1, <4>1, IInvSays DEF Untouched
    <3>3. HasChildren(n) => Untouched(q, built, 2 * n) /\ Untouched(q, built, 2 * n + 1)
      BY <3>2, ChildrenAreNodes
    <3> QED
      BY <3>1, <3>2, <3>3 DEF NodeIsRight, HalvesAreRight, Untouched, Finished, Stages
  <2> QED
    BY <1>1, <1>9, <2>1, <2>2 DEF TreeIsRight
<1>11. CallerIsAtRoot'
  <2>1. PICK s : s = <<[node |-> 1, stage |-> "create"]>>
    OBVIOUS
  <2>2. stack'[Main] = s
    BY <1>1, <1>4, <2>1, IInvSays DEF TypeOK
  <2>3. 1 \in DOMAIN s /\ s[1].node = 1 /\ s # <<>>
    BY <2>1
  <2>4. 1 \in NodesOf(s)
    BY <2>3 DEF NodesOf
  <2> QED
    BY <1>1, <2>2, <2>3, <2>4 DEF CallerIsAtRoot
<1>12. PreparationsAreCounted'
  <2>1. Preparing' = Preparing /\ PreparesIn(tasks) = {}
    BY <1>1 DEF Preparing, PreparesIn
  <2> QED
    BY <1>1, <1>2, <2>1 DEF IInv, PreparationsAreCounted
<1> QED
  BY <1>9, <1>10, <1>11, <1>12 DEF IInv, Structure

-----------------------------------------------------------------------------
(* The pool, and the steps before and between builds.                      *)

\* Steps that leave the calls and the nodes in the queue as they were.
LEMMA CallsUntouched ==
    ASSUME IInv, RestOK', UNCHANGED stack, UNCHANGED built, UNCHANGED ready,
           QueuedIn(tasks') = QueuedIn(tasks), QueuedOnce(tasks'),
           \A w \in Workers : job'[w] = "node" <=> job[w] = "node"
    PROVE  Structure' /\ phase' = phase /\ TreeIsRight(phase', built', ready')
<1>1. phase' = phase
  BY SamePhase
<1>2. TypeOK'
  BY IInvSays DEF RestOK, TypeOK
<1>3. HeldOnce'
  BY DEF IInv, HeldOnce
<1> QED
  BY <1>1, <1>2, <1>3, IInvSays DEF IInv, Structure

LEMMA TakeNode ==
    ASSUME IInv, NEW w \in Workers, take_task(w), Head(tasks).kind = "node"
    PROVE  IInv'
<1>1. PICK a, b, e, n : a = tasks /\ b = Tail(a) /\ e = Head(a) /\ n = e.node
  OBVIOUS
<1>2. /\ a \in Seq(TaskSet) /\ a # <<>> /\ QueuedOnce(a) /\ tasks' = b /\ e.kind = "node"
  BY <1>1, IInvSays DEF take_task
<1>3. /\ b \in Seq(TaskSet) /\ e \in TaskSet
      /\ QueuedIn(a) = QueuedIn(b) \cup {n}
      /\ QueuedOnce(b) /\ n \notin QueuedIn(b)
  BY <1>1, <1>2, QueueShrinks
<1>4. n \in Nodes
  BY <1>1, <1>3 DEF TaskSet
<1>5. phase[n] = "queued"
  BY <1>1, <1>3, <1>4, IInvSays
<1>6. /\ job[w] \in {"none", "returned"} /\ job' = [job EXCEPT ![w] = "node"]
      /\ stack' = [stack EXCEPT ![w] = <<[node |-> n, stage |-> "create"]>>]
      /\ UNCHANGED <<ready, main_pc, threads, to_add, arrived, thread_state,
                     built, others, more_builds, program>>
  BY <1>1 DEF take_task
<1>7. w \in Threads /\ w # Main /\ stack[w] = <<>>
  BY <1>6, MainAssumption DEF IInv, Threads
<1>8. RestOK'
  BY <1>2, <1>3, <1>6, IInvSays DEF RestOK, Jobs
<1>9. \A x \in Workers : job'[x] = "node" <=> stack'[x] # <<>>
  <2>1. /\ \A x \in Workers : job'[x] = IF x = w THEN "node" ELSE job[x]
        /\ \A x \in Workers \ {w} : stack'[x] = stack[x]
        /\ stack'[w] = <<[node |-> n, stage |-> "create"]>>
    BY <1>6, IInvSays DEF TypeOK, Threads
  <2> QED
    BY <2>1 DEF IInv
<1>10. PICK q : q = [phase EXCEPT ![n] = "create"]
  OBVIOUS
<1>11. StartsAt(w, n, q)
  BY <1>1, <1>2, <1>3, <1>4, <1>5, <1>6, <1>7, <1>9, <1>10 DEF StartsAt
<1>12. Structure' /\ phase' = q
  BY <1>7, <1>8, <1>11, IInvSays, FirstStep
<1>13. TreeIsRight(phase', built', ready')
  <2>1. TreeIsRight(q, built, ready)
    BY <1>4, <1>5, <1>10, IInvSays, NodeGoesOn
  <2> QED
    BY <1>6, <1>12, <2>1
<1>14. main_pc = "build" /\ to_add = 0
  BY <1>4, <1>5, Building
<1>15. CallerIsAtRoot'
  <2>1. stack'[Main] = stack[Main]
    BY <1>6, <1>7, IInvSays DEF TypeOK, Threads
  <2> QED
    BY <1>6, <1>14, <2>1 DEF IInv, CallerIsAtRoot
<1>16. PreparationsAreCounted'
  <2>1. \A x \in Workers : job'[x] = IF x = w THEN "node" ELSE job[x]
    BY <1>6, IInvSays DEF TypeOK
  <2>2. Preparing' = Preparing
    BY <1>6, <2>1 DEF Preparing
  <2>3. PreparesIn(tasks') = PreparesIn(tasks)
    <3>1. PreparesIn(tasks) = {}
      BY <1>14 DEF IInv, PreparationsAreCounted
    <3>2. PreparesIn(a) = {i + 1 : i \in PreparesIn(b)}
      BY <1>1, <1>2, QueueShrinks
    <3>3. PreparesIn(b) = {}
      BY <1>1, <3>1, <3>2
    <3> QED
      BY <1>2, <3>1, <3>3
  <2> QED
    BY <1>6, <1>14, <2>1, <2>2, <2>3 DEF IInv, PreparationsAreCounted
<1> QED
  BY <1>12, <1>13, <1>15, <1>16 DEF IInv, Structure

\* What the count of the preparations is made of.
LEMMA CountTypes ==
    ASSUME IInv
    PROVE  /\ arrived \in Nat /\ to_add \in Nat /\ Cardinality(Workers) \in Nat
           /\ Cardinality(PreparesIn(tasks)) \in Nat
           /\ IsFiniteSet(Preparing) /\ Cardinality(Preparing) \in Nat
           /\ arrived + to_add + Cardinality(PreparesIn(tasks)) + Cardinality(Preparing)
                 <= Cardinality(Workers)
<1>1. Cardinality(Workers) \in Nat
  BY WorkersAssumption, FS_CardinalityType
<1>2. arrived \in Nat /\ to_add \in Nat
  BY <1>1, IInvSays DEF TypeOK
<1>3. Cardinality(PreparesIn(tasks)) \in Nat
  BY IInvSays, QueueTypes
<1>4. IsFiniteSet(Preparing) /\ Cardinality(Preparing) \in Nat
  <2>1. Preparing \subseteq Workers
    BY DEF Preparing
  <2> QED
    BY <2>1, WorkersAssumption, FS_Subset, FS_CardinalityType
<1> QED
  BY <1>1, <1>2, <1>3, <1>4 DEF IInv, PreparationsAreCounted

LEMMA TakeOther ==
    ASSUME IInv, NEW w \in Workers, take_task(w), Head(tasks).kind # "node"
    PROVE  IInv'
<1>1. PICK a, b, e : a = tasks /\ b = Tail(a) /\ e = Head(a)
  OBVIOUS
<1>2. /\ a \in Seq(TaskSet) /\ a # <<>> /\ QueuedOnce(a) /\ tasks' = b /\ e.kind # "node"
  BY <1>1, IInvSays DEF take_task
<1>3. /\ b \in Seq(TaskSet) /\ e \in TaskSet
      /\ QueuedIn(a) = QueuedIn(b) /\ QueuedOnce(b)
      /\ PreparesIn(a) = {i + 1 : i \in PreparesIn(b)}
                            \cup (IF e.kind = "prepare" THEN {1} ELSE {})
  <2>1. /\ b \in Seq(TaskSet) /\ e \in TaskSet
        /\ QueuedIn(a) = QueuedIn(b) \cup (IF e.kind = "node" THEN {e.node} ELSE {})
        /\ PreparesIn(a) = {i + 1 : i \in PreparesIn(b)}
                              \cup (IF e.kind = "prepare" THEN {1} ELSE {})
        /\ QueuedOnce(a) => QueuedOnce(b)
    BY <1>1, <1>2, QueueShrinks
  <2>2. QueuedIn(a) = QueuedIn(b)
    BY <1>2, <2>1
  <2> QED
    BY <1>2, <2>1, <2>2
<1>4. e.kind \in {"prepare", "other"}
  BY <1>2, <1>3 DEF TaskSet
<1>5. /\ job[w] \in {"none", "returned"} /\ job' = [job EXCEPT ![w] = e.kind]
      /\ stack' = [stack EXCEPT ![w] = <<>>]
      /\ UNCHANGED <<ready, main_pc, threads, to_add, arrived, thread_state,
                     built, others, more_builds, program>>
  BY <1>1, <1>2 DEF take_task
<1>6. UNCHANGED stack
  <2>1. stack[w] = <<>>
    BY <1>5 DEF IInv
  <2> QED
    BY <1>5, <2>1, IInvSays DEF TypeOK
<1>7. RestOK'
  <2>1. e.kind \in Jobs
    BY <1>4 DEF Jobs
  <2> QED
    BY <1>2, <1>3, <1>5, <2>1, IInvSays DEF RestOK
<1>8. \A x \in Workers : job'[x] = IF x = w THEN e.kind ELSE job[x]
  BY <1>5, IInvSays DEF TypeOK
<1>9. Structure' /\ phase' = phase /\ TreeIsRight(phase', built', ready')
  BY <1>1, <1>2, <1>3, <1>5, <1>6, <1>7, <1>8, CallsUntouched
<1>10. CallerIsAtRoot'
  BY <1>5, <1>6, <1>9 DEF IInv, CallerIsAtRoot
<1>11. PreparationsAreCounted'
  <2>1. arrived + to_add + Cardinality(PreparesIn(b)) + Cardinality(Preparing')
           <= Cardinality(Workers)
    <3>1. PICK p, pb, k : /\ p = Cardinality(PreparesIn(a)) /\ pb = Cardinality(PreparesIn(b))
                          /\ k = IF e.kind = "prepare" THEN 1 ELSE 0
      OBVIOUS
    <3>2. pb + k <= p /\ p \in Nat /\ pb \in Nat
      BY <1>1, <1>2, <1>3, <3>1, PreparesShrink, QueueTypes
    <3>3. Preparing' = IF e.kind = "prepare" THEN Preparing \cup {w} ELSE Preparing
      BY <1>4, <1>5, <1>8 DEF Preparing
    <3>4. w \notin Preparing
      BY <1>5 DEF Preparing
    <3>5. PICK c, d : c = Cardinality(Preparing) /\ d = Cardinality(Preparing')
      OBVIOUS
    <3>6. d = c + k /\ c \in Nat
      <4>1. Cardinality(Preparing \cup {w}) = Cardinality(Preparing) + 1
        BY <3>4, CountTypes, FS_AddElement
      <4> QED
        BY <3>1, <3>3, <3>5, <4>1, CountTypes
    <3>7. arrived + to_add + p + c <= Cardinality(Workers)
      BY <1>1, <3>1, <3>5, CountTypes
    <3>8. arrived + to_add + pb + d <= Cardinality(Workers)
      <4>1. arrived \in Nat /\ to_add \in Nat /\ Cardinality(Workers) \in Nat
        BY CountTypes
      <4>2. k \in {0, 1}
        BY <3>1
      <4> QED
        BY <3>2, <3>6, <3>7, <4>1, <4>2
    <3> QED
      BY <3>1, <3>5, <3>8
  <2>2. ASSUME main_pc \in {"begin", "build", "end"}
        PROVE  PreparesIn(b) = {} /\ e.kind # "prepare"
    <3>1. PreparesIn(a) = {}
      BY <1>1, <2>2 DEF IInv, PreparationsAreCounted
    <3> QED
      BY <1>3, <3>1
  <2> QED
    BY <1>2, <1>4, <1>5, <1>8, <2>1, <2>2 DEF IInv, PreparationsAreCounted
<1> QED
  BY <1>9, <1>10, <1>11 DEF IInv, Structure

\* add_task() of a task that is not a node.
LEMMA AppendOther ==
    ASSUME IInv, NEW e \in TaskSet, e.kind # "node", tasks' = Append(tasks, e)
    PROVE  /\ tasks' \in Seq(TaskSet) /\ QueuedIn(tasks') = QueuedIn(tasks)
           /\ QueuedOnce(tasks')
           /\ Cardinality(PreparesIn(tasks')) \in Nat
           /\ Cardinality(PreparesIn(tasks')) <=
                 Cardinality(PreparesIn(tasks)) + (IF e.kind = "prepare" THEN 1 ELSE 0)
           /\ e.kind # "prepare" => PreparesIn(tasks') = PreparesIn(tasks)
<1>1. PICK a, b : a = tasks /\ b = tasks'
  OBVIOUS
<1>2. a \in Seq(TaskSet) /\ b = Append(a, e) /\ QueuedOnce(a)
  BY <1>1, IInvSays
<1>3. /\ b \in Seq(TaskSet)
      /\ QueuedIn(b) = QueuedIn(a) \cup (IF e.kind = "node" THEN {e.node} ELSE {})
      /\ PreparesIn(b) = PreparesIn(a) \cup (IF e.kind = "prepare" THEN {Len(a) + 1} ELSE {})
      /\ QueuedOnce(b)
  BY <1>2, QueueGrows
<1>4. Cardinality(PreparesIn(b)) <=
          Cardinality(PreparesIn(a)) + (IF e.kind = "prepare" THEN 1 ELSE 0)
  BY <1>2, PreparesGrow
<1>5. QueuedIn(b) = QueuedIn(a)
  BY <1>3
<1>6. e.kind # "prepare" => PreparesIn(b) = PreparesIn(a)
  BY <1>3
<1>7. Cardinality(PreparesIn(b)) \in Nat
  BY <1>3, QueueTypes
<1> QED
  BY <1>1, <1>3, <1>4, <1>5, <1>6, <1>7

LEMMA AddOtherKeepsIInv ==
    ASSUME IInv, add_other
    PROVE  IInv'
<1>1. PICK e : e = OtherTask
  OBVIOUS
<1>2. e \in TaskSet /\ e.kind = "other"
  BY <1>1, IInvSays DEF OtherTask, TaskSet
<1>3. /\ others > 0 /\ others' = others - 1 /\ tasks' = Append(tasks, e)
      /\ UNCHANGED <<job, stack, ready, main_pc, threads, to_add, arrived,
                     thread_state, built, more_builds, program>>
  BY <1>1 DEF add_other, add_task
<1>4. /\ tasks' \in Seq(TaskSet) /\ QueuedIn(tasks') = QueuedIn(tasks)
      /\ QueuedOnce(tasks') /\ PreparesIn(tasks') = PreparesIn(tasks)
  BY <1>2, <1>3, AppendOther
<1>5. RestOK'
  <2>1. others' \in 0..Others
    BY <1>3, IInvSays, OthersAssumption DEF RestOK
  <2> QED
    BY <1>3, <1>4, <2>1, IInvSays DEF RestOK
<1>6. Structure' /\ phase' = phase /\ TreeIsRight(phase', built', ready')
  BY <1>3, <1>4, <1>5, CallsUntouched
<1>7. CallerIsAtRoot'
  BY <1>3, <1>6 DEF IInv, CallerIsAtRoot
<1>8. PreparationsAreCounted'
  BY <1>3, <1>4 DEF IInv, PreparationsAreCounted, Preparing
<1> QED
  BY <1>6, <1>7, <1>8 DEF IInv, Structure

LEMMA AddPrepareKeepsIInv ==
    ASSUME IInv, add_prepare
    PROVE  IInv'
<1>1. PICK e : e = PrepareTask
  OBVIOUS
<1>2. e \in TaskSet /\ e.kind = "prepare"
  BY <1>1, IInvSays DEF PrepareTask, TaskSet
<1>3. /\ main_pc = "prepare" /\ to_add > 0 /\ to_add' = to_add - 1
      /\ tasks' = Append(tasks, e)
      /\ UNCHANGED <<job, stack, ready, main_pc, threads, arrived,
                     thread_state, built, others, more_builds, program>>
  BY <1>1 DEF add_prepare, add_task
<1>4. /\ tasks' \in Seq(TaskSet) /\ QueuedIn(tasks') = QueuedIn(tasks)
      /\ QueuedOnce(tasks')
      /\ Cardinality(PreparesIn(tasks')) \in Nat
      /\ Cardinality(PreparesIn(tasks')) <= Cardinality(PreparesIn(tasks)) + 1
  BY <1>2, <1>3, AppendOther
<1>5. RestOK'
  <2>1. to_add' \in 0..Cardinality(Workers)
    BY <1>3, IInvSays, CountTypes DEF RestOK
  <2> QED
    BY <1>3, <1>4, <2>1, IInvSays DEF RestOK
<1>6. Structure' /\ phase' = phase /\ TreeIsRight(phase', built', ready')
  BY <1>3, <1>4, <1>5, CallsUntouched
<1>7. CallerIsAtRoot'
  BY <1>3, <1>6 DEF IInv, CallerIsAtRoot
<1>8. PreparationsAreCounted'
  <2>1. Preparing' = Preparing
    BY <1>3 DEF Preparing
  <2>2. arrived + to_add' + Cardinality(PreparesIn(tasks')) + Cardinality(Preparing)
           <= Cardinality(Workers)
    <3>1. PICK x, y, p, pb, c, n :
             /\ x = arrived /\ y = to_add /\ p = Cardinality(PreparesIn(tasks))
             /\ pb = Cardinality(PreparesIn(tasks')) /\ c = Cardinality(Preparing)
             /\ n = Cardinality(Workers)
      OBVIOUS
    <3>2. /\ x \in Nat /\ y \in Nat /\ p \in Nat /\ pb \in Nat /\ c \in Nat /\ n \in Nat
          /\ pb <= p + 1 /\ x + y + p + c <= n /\ y > 0
      BY <1>3, <1>4, <3>1, CountTypes
    <3>3. x + (y - 1) + pb + c <= n
      BY <3>2
    <3> QED
      BY <1>3, <3>1, <3>3
  <2> QED
    BY <1>3, <2>1, <2>2 DEF IInv, PreparationsAreCounted
<1> QED
  BY <1>6, <1>7, <1>8 DEF IInv, Structure

\* The other steps of a worker.
LEMMA TaskEndsKeepsIInv ==
    ASSUME IInv, NEW w \in Workers, no_task(w) \/ other_returns(w) \/ leave_barrier(w)
    PROVE  IInv'
<1>1. /\ job[w] \in {"returned", "other", "barrier"}
      /\ \E k \in {"none", "returned"} : job' = [job EXCEPT ![w] = k]
      /\ UNCHANGED <<tasks, stack, ready, main_pc, threads, to_add, arrived,
                     thread_state, built, others, more_builds, program>>
  BY DEF no_task, other_returns, leave_barrier
<1>2. PICK k \in {"none", "returned"} : job' = [job EXCEPT ![w] = k]
  BY <1>1
<1>3. \A x \in Workers : job'[x] = IF x = w THEN k ELSE job[x]
  BY <1>2, IInvSays DEF TypeOK
<1>4. RestOK'
  <2>1. job' \in [Workers -> Jobs]
    BY <1>2, IInvSays DEF TypeOK, Jobs
  <2> QED
    BY <1>1, <2>1, IInvSays DEF RestOK
<1>5. Structure' /\ phase' = phase /\ TreeIsRight(phase', built', ready')
  BY <1>1, <1>3, <1>4, IInvSays, CallsUntouched
<1>6. CallerIsAtRoot'
  BY <1>1, <1>5 DEF IInv, CallerIsAtRoot
<1>7. Preparing' = Preparing
  BY <1>1, <1>3 DEF Preparing
<1>8. PreparationsAreCounted'
  BY <1>1, <1>3, <1>7 DEF IInv, PreparationsAreCounted
<1> QED
  BY <1>5, <1>6, <1>8 DEF IInv, Structure

LEMMA PrepareTaskKeepsIInv ==
    ASSUME IInv, NEW w \in Workers, prepare_task(w)
    PROVE  IInv'
<1>1. /\ job[w] = "prepare" /\ job' = [job EXCEPT ![w] = "barrier"]
      /\ thread_state' = thread_state \cup {w} /\ arrived' = arrived + 1
      /\ UNCHANGED <<tasks, stack, ready, main_pc, threads, to_add, built, others,
                     more_builds, program>>
  BY DEF prepare_task
<1>2. \A x \in Workers : job'[x] = IF x = w THEN "barrier" ELSE job[x]
  BY <1>1, IInvSays DEF TypeOK
<1>3. main_pc \notin {"begin", "build", "end"}
  BY <1>1 DEF IInv, PreparationsAreCounted
<1>4. Preparing' = Preparing \ {w} /\ w \in Preparing
  BY <1>1, <1>2 DEF Preparing
<1>5. arrived' + to_add + Cardinality(PreparesIn(tasks)) + Cardinality(Preparing')
         <= Cardinality(Workers)
      /\ arrived' \in 0..Cardinality(Workers)
  <2>1. Cardinality(Preparing \ {w}) = Cardinality(Preparing) - 1
    BY <1>4, CountTypes, FS_RemoveElement
  <2>2. PICK x, y, p, c, d, n :
           /\ x = arrived /\ y = to_add /\ p = Cardinality(PreparesIn(tasks))
           /\ c = Cardinality(Preparing) /\ d = Cardinality(Preparing')
           /\ n = Cardinality(Workers)
    OBVIOUS
  <2>3. IsFiniteSet(Preparing')
    BY <1>4, CountTypes, FS_RemoveElement
  <2>4. /\ x \in Nat /\ y \in Nat /\ p \in Nat /\ c \in Nat /\ d \in Nat /\ n \in Nat
        /\ d = c - 1 /\ x + y + p + c <= n
    BY <1>4, <2>1, <2>2, <2>3, CountTypes, FS_CardinalityType
  <2>5. (x + 1) + y + p + d <= n /\ x + 1 \in 0..n
    BY <2>4
  <2> QED
    BY <1>1, <2>2, <2>5
<1>6. RestOK'
  <2>1. job' \in [Workers -> Jobs]
    BY <1>1, IInvSays DEF TypeOK, Jobs
  <2>2. thread_state' \subseteq Threads
    BY <1>1, IInvSays DEF TypeOK, Threads
  <2> QED
    BY <1>1, <1>5, <2>1, <2>2, IInvSays DEF RestOK, prepare_task
<1>7. Structure' /\ phase' = phase /\ TreeIsRight(phase', built', ready')
  BY <1>1, <1>2, <1>6, IInvSays, CallsUntouched
<1>8. CallerIsAtRoot'
  BY <1>1, <1>3, <1>7 DEF IInv, CallerIsAtRoot, prepare_task
<1>9. PreparationsAreCounted'
  BY <1>1, <1>3, <1>5 DEF IInv, PreparationsAreCounted, prepare_task
<1> QED
  BY <1>7, <1>8, <1>9 DEF IInv, Structure

\* The steps of the caller around the loop that adds the prepare tasks.
LEMMA CountThreadsKeepsIInv ==
    ASSUME IInv, count_threads
    PROVE  IInv'
<1>1. /\ main_pc = "begin" /\ main_pc' = "prepare"
      /\ threads' = threads_available /\ to_add' = threads_available
      /\ UNCHANGED <<tasks, job, stack, ready, arrived, thread_state, built,
                     others, more_builds, program>>
  BY DEF count_threads
<1>2. threads_available \in 0..Cardinality(Workers)
  <2>1. BusyWorkers \subseteq Workers
    BY DEF BusyWorkers
  <2>2. /\ Cardinality(BusyWorkers) \in Nat
        /\ Cardinality(BusyWorkers) <= Cardinality(Workers)
    BY <2>1, WorkersAssumption, FS_Subset, FS_CardinalityType
  <2> QED
    BY <2>2, CountTypes DEF threads_available
<1>3. RestOK'
  BY <1>1, <1>2, IInvSays DEF RestOK
<1>4. Structure' /\ phase' = phase /\ TreeIsRight(phase', built', ready')
  BY <1>1, <1>3, IInvSays, CallsUntouched
<1>5. CallerIsAtRoot'
  BY <1>1, <1>4 DEF IInv, CallerIsAtRoot
<1>6. PreparationsAreCounted'
  <2>1. Cardinality(PreparesIn(tasks)) = 0 /\ Cardinality(Preparing) = 0 /\ arrived = 0
    <3>1. PreparesIn(tasks) = {} /\ Preparing = {} /\ arrived = 0
      BY <1>1 DEF IInv, PreparationsAreCounted, Preparing
    <3> QED
      BY <3>1, FS_EmptySet
  <2>2. Preparing' = Preparing
    BY <1>1 DEF Preparing
  <2>3. arrived + to_add' + Cardinality(PreparesIn(tasks)) + Cardinality(Preparing)
           <= Cardinality(Workers)
    BY <1>1, <1>2, <2>1, CountTypes
  <2> QED
    BY <1>1, <2>2, <2>3 DEF IInv, PreparationsAreCounted
<1> QED
  BY <1>4, <1>5, <1>6 DEF IInv, Structure

LEMMA MainPreparedKeepsIInv ==
    ASSUME IInv, main_prepared
    PROVE  IInv'
<1>1. /\ main_pc = "prepare" /\ to_add = 0 /\ main_pc' = "wait"
      /\ thread_state' = thread_state \cup {Main}
      /\ UNCHANGED <<tasks, job, stack, ready, threads, to_add, arrived, built,
                     others, more_builds, program>>
  BY DEF main_prepared
<1>2. RestOK'
  BY <1>1, IInvSays DEF RestOK, Threads
<1>3. Structure' /\ phase' = phase /\ TreeIsRight(phase', built', ready')
  BY <1>1, <1>2, IInvSays, CallsUntouched
<1>4. CallerIsAtRoot'
  BY <1>1, <1>3 DEF IInv, CallerIsAtRoot
<1>5. PreparationsAreCounted'
  BY <1>1 DEF IInv, PreparationsAreCounted, Preparing
<1> QED
  BY <1>3, <1>4, <1>5 DEF IInv, Structure

\* Another build begins with a tree of which nothing is built.
LEMMA NothingIsRight ==
    ASSUME NEW p, NEW b, \A n \in Nodes : Untouched(p, b, n)
    PROVE  TreeIsRight(p, b, {})
<1>1. ASSUME NEW n \in Nodes PROVE NodeIsRight(p, b, n)
  <2>1. Untouched(p, b, n) /\ (2 * n \in Nodes => Untouched(p, b, 2 * n))
    OBVIOUS
  <2>2. HasChildren(n) => Untouched(p, b, 2 * n) /\ Untouched(p, b, 2 * n + 1)
    BY ChildrenAreNodes
  <2> QED
    BY <2>1, <2>2 DEF NodeIsRight, HalvesAreRight, Untouched, Finished, Stages
<1> QED
  BY <1>1 DEF TreeIsRight

LEMMA NextBuildKeepsIInv ==
    ASSUME IInv, kdtree_build
    PROVE  IInv'
<1>1. /\ main_pc = "end" /\ main_pc' = "begin"
      /\ more_builds > 0 /\ more_builds' = more_builds - 1
      /\ thread_state' = {} /\ arrived' = 0 /\ ready' = {}
      /\ built' = [n \in Nodes |-> 0]
      /\ UNCHANGED <<tasks, job, stack, threads, to_add, others, program>>
  BY DEF kdtree_build
<1>2. TypeOK'
  <2>1. more_builds' \in 0..MoreBuilds /\ 0 \in 0..Cardinality(Workers)
    BY <1>1, IInvSays, MoreBuildsAssumption, CountTypes DEF TypeOK
  <2>2. built' \in [Nodes -> Nat]
    BY <1>1
  <2> QED
    BY <1>1, <2>1, <2>2, IInvSays DEF TypeOK
<1>3. phase' = phase
  BY <1>1, SamePhase
<1>4. HeldOnce'
  BY <1>1 DEF IInv, HeldOnce
<1>5. \A n \in Nodes : phase'[n] = "none" /\ built'[n] = 0
  BY <1>1, <1>3 DEF IInv, CallerIsAtRoot
<1>6. TreeIsRight(phase', built', ready')
  <2>1. \A n \in Nodes : Untouched(phase', built', n)
    BY <1>5 DEF Untouched
  <2> QED
    BY <1>1, <2>1, NothingIsRight
<1>7. CallerIsAtRoot'
  BY <1>1, <1>5 DEF IInv, CallerIsAtRoot, Untouched
<1>8. PreparationsAreCounted'
  <2>1. /\ Cardinality(PreparesIn(tasks)) = 0 /\ Cardinality(Preparing) = 0 /\ to_add = 0
    <3>1. PreparesIn(tasks) = {} /\ Preparing = {} /\ to_add = 0
      BY <1>1 DEF IInv, PreparationsAreCounted, Preparing
    <3> QED
      BY <3>1, FS_EmptySet
  <2>2. Preparing' = Preparing
    BY <1>1 DEF Preparing
  <2>3. 0 + to_add + Cardinality(PreparesIn(tasks)) + Cardinality(Preparing)
           <= Cardinality(Workers)
    BY <2>1, CountTypes
  <2> QED
    BY <1>1, <2>2, <2>3 DEF IInv, PreparationsAreCounted
<1> QED
  BY <1>1, <1>2, <1>4, <1>6, <1>7, <1>8 DEF IInv

LEMMA InitIInv == Init => IInv
<1> SUFFICES ASSUME Init PROVE IInv
  OBVIOUS
<1> USE DEF Init
<1>1. Cardinality(Workers) \in Nat
  BY WorkersAssumption, FS_CardinalityType
<1>2. TypeOK
  <2>1. job \in [Workers -> Jobs]
    BY DEF Jobs
  <2>2. built \in [Nodes -> Nat] /\ stack \in [Threads -> Seq(Frames)]
    OBVIOUS
  <2>3. tasks \in Seq(TaskSet)
    OBVIOUS
  <2> QED
    BY <1>1, <2>1, <2>2, <2>3, OthersAssumption, MoreBuildsAssumption DEF TypeOK
<1>3. QueuedIn(tasks) = {} /\ PreparesIn(tasks) = {} /\ QueuedOnce(tasks)
  BY DEF QueuedIn, PreparesIn, QueuedOnce
<1>4. \A t \in Threads : stack[t] = <<>>
  OBVIOUS
<1>5. HeldOnce
  BY <1>3, <1>4, EmptyStack DEF HeldOnce
<1>6. \A n \in Nodes : phase[n] = "none"
  <2>1. \A n, stage : ~InStage(n, stage)
    BY <1>4, EmptyStack DEF InStage
  <2> QED
    BY <1>3, <2>1 DEF phase
<1>7. TreeIsRight(phase, built, ready)
  <2>1. \A n \in Nodes : Untouched(phase, built, n)
    BY <1>6 DEF Untouched
  <2>2. ready = {}
    OBVIOUS
  <2> QED
    BY <2>1, <2>2, NothingIsRight
<1>8. CallerIsAtRoot
  BY <1>4, <1>6 DEF CallerIsAtRoot, Untouched, Threads
<1>9. PreparationsAreCounted
  <2>1. Preparing = {}
    BY DEF Preparing
  <2>2. Cardinality(PreparesIn(tasks)) = 0 /\ Cardinality(Preparing) = 0
    BY <1>3, <2>1, FS_EmptySet
  <2>3. 0 + 0 + Cardinality(PreparesIn(tasks)) + Cardinality(Preparing) <= Cardinality(Workers)
    BY <1>1, <2>2
  <2> QED
    BY <1>3, <2>3 DEF PreparationsAreCounted
<1>10. \A w \in Workers : job[w] = "node" <=> stack[w] # <<>>
  BY <1>4 DEF Threads
<1>11. \A t \in Threads : Linked(stack[t])
  BY <1>4, EmptyStack
<1> QED
  BY <1>2, <1>5, <1>7, <1>8, <1>9, <1>10, <1>11 DEF IInv

\* The program stops, or stays as it is.
LEMMA ProgramStops ==
    ASSUME IInv, program' \in {"running", "aborted", "undefined"},
           UNCHANGED <<tasks, job, stack, ready, main_pc, threads, to_add,
                       arrived, thread_state, built, others, more_builds>>
    PROVE  IInv'
<1>1. RestOK'
  BY IInvSays DEF RestOK
<1>2. Structure' /\ phase' = phase /\ TreeIsRight(phase', built', ready')
  BY <1>1, IInvSays, CallsUntouched
<1>3. CallerIsAtRoot' /\ PreparationsAreCounted'
  BY <1>2 DEF IInv, CallerIsAtRoot, PreparationsAreCounted, Preparing
<1> QED
  BY <1>2, <1>3 DEF IInv, Structure

LEMMA NextIInv == IInv /\ [Next]_vars => IInv'
<1> SUFFICES ASSUME IInv, [Next]_vars PROVE IInv'
  OBVIOUS
<1>1. ASSUME NEW t \in Threads, Create(t) PROVE IInv'
  <2>1. CASE unprepared(t)
    BY <2>1, ProgramStops DEF unprepared
  <2> QED
    BY <1>1, <2>1, CallKeepsIInv, ReturnNodeKeepsIInv DEF Create
<1>2. ASSUME NEW w \in Workers, Worker(w) PROVE IInv'
  <2>1. CASE take_task(w)
    BY <2>1, TakeNode, TakeOther
  <2>2. CASE no_task(w) \/ other_returns(w) \/ leave_barrier(w)
    BY <2>2, TaskEndsKeepsIInv
  <2>3. CASE prepare_task(w)
    BY <2>3, PrepareTaskKeepsIInv
  <2> QED
    BY <1>2, <2>1, <2>2, <2>3 DEF Worker
<1>3. CASE Caller
  <2>1. CASE barrier_for_none
    BY <2>1, ProgramStops DEF barrier_for_none
  <2> QED
    BY <1>3, <2>1, CountThreadsKeepsIInv, AddPrepareKeepsIInv,
       MainPreparedKeepsIInv, StartBuildKeepsIInv, ReturnRootKeepsIInv,
       NextBuildKeepsIInv DEF Caller
<1>4. CASE add_other
  BY <1>4, AddOtherKeepsIInv
<1>5. CASE UNCHANGED vars
  BY <1>5, ProgramStops, IInvSays DEF vars, TypeOK
<1> QED
  BY <1>1, <1>2, <1>3, <1>4, <1>5 DEF Next

\* No node is built twice, whichever thread gets to it, and when kdtree_build()
\* goes on to read the tree all of it is there.  For any number of workers, any
\* shape of the tree and any number of builds and of tasks of others.
THEOREM TreeIsBuiltOnce == Spec => []TreeIsComplete
<1>1. IInv => TreeIsComplete
  <2> SUFFICES ASSUME IInv PROVE TreeIsComplete
    OBVIOUS
  <2>1. TypeOK
    BY IInvSays
  <2>2. ASSUME NEW n \in Nodes
        PROVE  /\ built[n] <= 1
               /\ main_pc = "end" /\ HasChildren(n) =>
                     /\ built[2 * n] = built[2 * n + 1]
                     /\ built[2 * n] = 1 => built[n] = 1
    <3>1. NodeIsRight(phase, built, n)
      BY IInvSays DEF TreeIsRight
    <3>2. built[n] \in {0, 1}
      BY <3>1 DEF NodeIsRight
    <3>3. ASSUME main_pc = "end", HasChildren(n)
          PROVE  built[2 * n] = built[2 * n + 1] /\ (built[2 * n] = 1 => built[n] = 1)
      <4>1. phase[n] = "none"
        BY <3>3 DEF IInv, CallerIsAtRoot
      <4>2. HalvesAreRight(phase, built, n)
        BY <3>1, <3>3 DEF NodeIsRight
      <4> QED
        BY <3>2, <4>1, <4>2 DEF HalvesAreRight, Untouched, Finished
    <3> QED
      BY <3>2, <3>3
  <2>3. main_pc = "end" => built[1] = 1
    BY DEF IInv, CallerIsAtRoot
  <2> QED
    BY <2>1, <2>2, <2>3 DEF TreeIsComplete
<1> QED
  BY <1>1, InitIInv, NextIInv, PTL DEF Spec

\* No task of a build is queued, or runs, once what it refers to is gone.
THEOREM TasksEndWithTheirBuild == Spec => []NoTaskOutlivesItsBuild
<1>1. IInv => NoTaskOutlivesItsBuild
  <2> SUFFICES ASSUME IInv PROVE NoTaskOutlivesItsBuild
    OBVIOUS
  <2>1. ASSUME main_pc \in {"build", "end"}
        PROVE  /\ \A i \in DOMAIN tasks : tasks[i] # PrepareTask
               /\ \A w \in Workers : job[w] \notin {"prepare", "barrier"}
    <3>1. PreparesIn(tasks) = {} /\ \A w \in Workers : job[w] \notin {"prepare", "barrier"}
      BY <2>1 DEF IInv, PreparationsAreCounted
    <3>2. PrepareTask.kind = "prepare"
      BY DEF PrepareTask
    <3>3. \A i \in DOMAIN tasks : tasks[i].kind # "prepare"
      BY <3>1 DEF PreparesIn
    <3> QED
      BY <3>1, <3>2, <3>3
  <2>2. ASSUME main_pc = "end"
        PROVE  /\ \A i \in DOMAIN tasks : tasks[i].kind # "node"
               /\ \A w \in Workers : job[w] # "node"
    <3>1. \A n \in Nodes : phase[n] = "none"
      BY <2>2 DEF IInv, CallerIsAtRoot
    <3>2. QueuedIn(tasks) = {}
      BY <3>1, IInvSays, QueueTypes
    <3>3. ASSUME NEW w \in Workers, job[w] = "node" PROVE FALSE
      <4>1. stack[w] # <<>> /\ w \in Threads
        BY <3>3 DEF IInv, Threads
      <4> QED
        BY <2>2, <4>1, BuildingInCall
    <3> QED
      BY <3>2, <3>3 DEF QueuedIn
  <2> QED
    BY <2>1, <2>2 DEF NoTaskOutlivesItsBuild
<1> QED
  BY <1>1, InitIInv, NextIInv, PTL DEF Spec
=============================================================================

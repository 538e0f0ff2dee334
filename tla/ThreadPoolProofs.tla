-------------------------- MODULE ThreadPoolProofs --------------------------
(***************************************************************************)
(* IInv of ThreadPool is inductive, for any number of workers, clients and *)
(* tasks.  It gives the types, the exactness of threads_working_ and the   *)
(* absence of lost wakeups on both condition variables; that wait() is     *)
(* left only in an idle pool follows.                                      *)
(***************************************************************************)
EXTENDS ThreadPool, FiniteSetTheorems, SequenceTheorems, TLAPS

-----------------------------------------------------------------------------
(* Counting.                                                               *)

\* The size of a subset of a finite set is a number within bounds.
LEMMA SubsetSize ==
    ASSUME NEW T, IsFiniteSet(T), NEW S \in SUBSET T
    PROVE  IsFiniteSet(S) /\ Cardinality(S) \in 0..Cardinality(T)
<1>1. IsFiniteSet(S) /\ Cardinality(S) <= Cardinality(T)
  BY FS_Subset
<1>2. Cardinality(S) \in Nat /\ Cardinality(T) \in Nat
  BY <1>1, FS_CardinalityType
<1> QED
  BY <1>1, <1>2

\* The numbers that count workers and clients are numbers.
LEMMA Sizes ==
    ASSUME TypeOK
    PROVE  /\ IsFiniteSet(WorkingWorkers)
           /\ Cardinality(WorkingWorkers) \in 0..Cardinality(Workers)
           /\ IsFiniteSet(AwakeWorkers)
           /\ Cardinality(AwakeWorkers) \in 0..Cardinality(Workers)
           /\ IsFiniteSet(WaitingClients)
           /\ Cardinality(WaitingClients) \in 0..Cardinality(Clients)
<1>1. WorkingWorkers \in SUBSET Workers /\ AwakeWorkers \in SUBSET Workers
  BY DEF WorkingWorkers, AwakeWorkers
<1>2. WaitingClients \in SUBSET Clients
  BY DEF WaitingClients
<1> QED
  BY <1>1, <1>2, SubsetSize, WorkersAssumption, ClientsAssumption

-----------------------------------------------------------------------------
(* The initial state.                                                      *)

LEMMA InitIInv == Init => IInv
<1> SUFFICES ASSUME Init PROVE IInv
  OBVIOUS
<1>1. Cardinality(Workers) \in Nat /\ Cardinality(Clients) \in Nat
  BY FS_CardinalityType, WorkersAssumption, ClientsAssumption
<1>2. TypeOK
  <2>1. pc \in [Threads -> WorkerPCs \cup ClientPCs]
    BY DEF Init, WorkerPCs, ClientPCs
  <2>2. /\ \A w \in Workers : pc[w] \in WorkerPCs
        /\ \A c \in Clients : pc[c] \in ClientPCs
    BY ClientsAssumption DEF Init, Threads, WorkerPCs, ClientPCs
  <2>3. /\ tasks \in Seq(Tasks)
        /\ threads_working \in 0..Cardinality(Workers)
        /\ threads_waiting \in 0..Cardinality(Clients)
    BY <1>1 DEF Init
  <2>4. /\ stop \in BOOLEAN
        /\ work_condition \subseteq Workers
        /\ wait_condition \subseteq Clients
        /\ added \subseteq Tasks
        /\ finished \subseteq Tasks
    BY DEF Init
  <2>5. /\ task \in [Workers -> Tasks \cup {NoTask}]
        /\ promise \in [Tasks -> {"none", "pending", "ready", "broken"}]
    BY DEF Init
  <2> QED
    BY <2>1, <2>2, <2>3, <2>4, <2>5 DEF TypeOK
<1>3. WorkingWorkers = {} /\ WaitingClients = {}
  BY ClientsAssumption DEF Init, WorkingWorkers, WaitingClients, Working, Threads
<1>4. WorkingIsExact /\ WaitingIsExact
  BY <1>3, FS_EmptySet DEF Init, WorkingIsExact, WaitingIsExact
<1>5. SleepersAndTasksInPlace
  BY ClientsAssumption DEF Init, SleepersAndTasksInPlace, Working, Threads
<1>6. NoTaskLeftToSleepers /\ NoClientLeftAsleep
  BY DEF Init, NoTaskLeftToSleepers, NoClientLeftAsleep
<1> QED
  BY <1>2, <1>4, <1>5, <1>6 DEF IInv

-----------------------------------------------------------------------------
(* The steps.                                                              *)

\* New tasks at the end of the queue, with one worker notified for one task
\* or all of them for any number of tasks.
LEMMA EnqueueStep ==
    ASSUME IInv, NEW new \in Seq(Tasks), Enqueue(new),
           (Len(new) = 1 /\ NotifyOneWorker) \/ work_condition' = {},
           promise' \in [Tasks -> {"none", "pending", "ready", "broken"}],
           UNCHANGED <<threads_working, threads_waiting, stop, wait_condition,
                       pc, task, finished>>
    PROVE  IInv'
<1> USE DEF IInv
<1>1. TypeOK /\ tasks' = tasks \o new /\ tasks' \in Seq(Tasks)
  BY DEF TypeOK, Enqueue
<1>2. work_condition' \subseteq work_condition
  BY DEF NotifyOneWorker
<1>3. TypeOK'
  <2>1. added' \subseteq Tasks
    BY <1>1 DEF TypeOK, Enqueue, Range
  <2> QED
    BY <1>1, <1>2, <2>1 DEF TypeOK
<1>4. WorkingIsExact' /\ WaitingIsExact'
  <2>1. WorkingWorkers' = WorkingWorkers /\ WaitingClients' = WaitingClients
    BY DEF WorkingWorkers, Working, WaitingClients
  <2> QED
    BY <2>1 DEF WorkingIsExact, WaitingIsExact
<1>5. SleepersAndTasksInPlace'
  BY <1>2 DEF SleepersAndTasksInPlace, Working
<1>6. NoClientLeftAsleep'
  <2> SUFFICES ASSUME wait_condition # {} PROVE Busy'
    BY DEF NoClientLeftAsleep
  <2>1. tasks # <<>> => tasks' # <<>>
    BY <1>1 DEF TypeOK
  <2> QED
    BY <2>1 DEF NoClientLeftAsleep, Busy
<1>7. NoTaskLeftToSleepers'
  <2>1. CASE work_condition' = {}
    BY <2>1 DEF NoTaskLeftToSleepers
  <2>2. CASE Len(new) = 1 /\ NotifyOneWorker /\ work_condition' # {}
    <3>1. PICK w \in work_condition : work_condition' = work_condition \ {w}
      BY <2>2 DEF NotifyOneWorker
    <3>2. w \in Workers /\ pc[w] = "test"
      BY <3>1, <1>1 DEF TypeOK, SleepersAndTasksInPlace
    <3>3. AwakeWorkers' = AwakeWorkers \cup {w} /\ w \notin AwakeWorkers
      BY <3>1, <3>2 DEF AwakeWorkers, Awake
    <3>4. Cardinality(AwakeWorkers') = Cardinality(AwakeWorkers) + 1
      BY <3>3, <1>1, Sizes, FS_AddElement
    <3>5. Len(tasks') = Len(tasks) + 1
      <4>1. Len(tasks \o new) = Len(tasks) + Len(new)
        BY <1>1, ConcatProperties DEF TypeOK
      <4> QED
        BY <4>1, <1>1, <2>2
    <3>6. Len(tasks) <= Cardinality(AwakeWorkers)
      BY <3>1 DEF NoTaskLeftToSleepers
    <3>7. Len(tasks) \in Nat /\ Cardinality(AwakeWorkers) \in Nat
      BY <1>1, Sizes, FS_CardinalityType DEF TypeOK
    <3> QED
      BY <3>4, <3>5, <3>6, <3>7 DEF NoTaskLeftToSleepers
  <2> QED
    BY <2>1, <2>2
<1> QED
  BY <1>3, <1>4, <1>5, <1>6, <1>7

\* A client enters wait() or tests its condition again.
LEMMA WaitStep ==
    ASSUME IInv, NEW c \in Clients, wait_enter(c) \/ wait_test(c)
    PROVE  IInv'
<1> USE DEF IInv
<1>1. TypeOK /\ c \in Threads /\ c \notin Workers
  BY ClientsAssumption DEF Threads
<1>2. UNCHANGED <<tasks, threads_working, stop, work_condition, task,
                  promise, added, finished>>
  BY DEF wait_enter, wait_test
<1>3. /\ pc' \in [Threads -> WorkerPCs \cup ClientPCs]
      /\ \A d \in Clients : pc'[d] \in ClientPCs
      /\ \A d \in Clients \ {c} : pc'[d] = pc[d]
      /\ \A w \in Workers : pc'[w] = pc[w]
      /\ wait_condition' \subseteq wait_condition \cup {c}
  BY <1>1 DEF TypeOK, wait_enter, wait_test, ClientPCs, Threads
<1>4. WorkingIsExact'
  <2>1. WorkingWorkers' = WorkingWorkers
    BY <1>3 DEF WorkingWorkers, Working
  <2> QED
    BY <1>2, <2>1 DEF WorkingIsExact
<1>5. WaitingIsExact'
  <2>1. CASE wait_enter(c) /\ Busy
    <3>1. c \notin WaitingClients /\ WaitingClients' = WaitingClients \cup {c}
      BY <2>1, <1>1, <1>3 DEF wait_enter, MayCall, WaitingClients, TypeOK
    <3>2. Cardinality(WaitingClients') = Cardinality(WaitingClients) + 1
      BY <3>1, <1>1, Sizes, FS_AddElement
    <3> QED
      BY <2>1, <3>2 DEF wait_enter, WaitingIsExact
  <2>2. CASE wait_test(c) /\ ~Busy
    <3>1. c \in WaitingClients /\ WaitingClients' = WaitingClients \ {c}
      BY <2>2, <1>1, <1>3 DEF wait_test, WaitingClients, TypeOK
    <3>2. Cardinality(WaitingClients') = Cardinality(WaitingClients) - 1
      BY <3>1, <1>1, Sizes, FS_RemoveElement
    <3> QED
      BY <2>2, <3>2 DEF wait_test, WaitingIsExact
  <2>3. CASE UNCHANGED <<threads_waiting, pc>>
    <3>1. WaitingClients' = WaitingClients
      BY <2>3 DEF WaitingClients
    <3> QED
      BY <2>3, <3>1 DEF WaitingIsExact
  <2> QED
    BY <2>1, <2>2, <2>3 DEF wait_enter, wait_test, Busy
<1>6. TypeOK'
  <2>1. pc' \in [Threads -> WorkerPCs \cup ClientPCs]
    BY <1>3
  <2>2. /\ \A w \in Workers : pc'[w] \in WorkerPCs
        /\ \A d \in Clients : pc'[d] \in ClientPCs
    BY <1>1, <1>3 DEF TypeOK
  <2>3. threads_waiting' \in 0..Cardinality(Clients)
    <3>1. WaitingClients' \in SUBSET Clients
      BY DEF WaitingClients
    <3> QED
      BY <1>5, <3>1, SubsetSize, ClientsAssumption DEF WaitingIsExact
  <2>4. wait_condition' \subseteq Clients
    BY <1>1, <1>3 DEF TypeOK
  <2> QED
    BY <1>1, <1>2, <2>1, <2>2, <2>3, <2>4 DEF TypeOK
<1>7. SleepersAndTasksInPlace'
  <2>1. \A d \in wait_condition' : pc'[d] = "waiting"
    <3>1. TAKE d \in wait_condition'
    <3>2. CASE d # c
      BY <3>2, <1>1, <1>3 DEF TypeOK, SleepersAndTasksInPlace
    <3>3. CASE d = c /\ wait_enter(c)
      BY <3>3, <1>1 DEF TypeOK, SleepersAndTasksInPlace, wait_enter, MayCall
    <3>4. CASE d = c /\ wait_test(c)
      BY <3>4, <1>1 DEF TypeOK, wait_test
    <3> QED
      BY <3>2, <3>3, <3>4
  <2>2. stop => pc'[c] # "waiting"
    BY <1>1 DEF wait_enter, wait_test, MayCall, SleepersAndTasksInPlace, TypeOK
  <2>3. pc'[c] \in {"joining", "gone"} => stop
    BY <1>1 DEF wait_enter, wait_test, MayCall, SleepersAndTasksInPlace, TypeOK
  <2> QED
    BY <1>1, <1>2, <1>3, <2>1, <2>2, <2>3
    DEF SleepersAndTasksInPlace, Working, TypeOK
<1>8. NoTaskLeftToSleepers'
  <2>1. AwakeWorkers' = AwakeWorkers
    BY <1>2, <1>3 DEF AwakeWorkers, Awake
  <2> QED
    BY <1>2, <2>1 DEF NoTaskLeftToSleepers
<1>9. NoClientLeftAsleep'
  BY <1>1, <1>2 DEF NoClientLeftAsleep, Busy, wait_enter, wait_test
<1> QED
  BY <1>4, <1>5, <1>6, <1>7, <1>8, <1>9

\* The head of the loop of work(), reached by a worker that is awake or has
\* just returned from its task; working counts the other workers at work.
LEMMA LoopHeadStep ==
    ASSUME IInv, NEW w \in Workers, w \notin work_condition,
           pc[w] \in {"test", "returned"},
           NEW working, working = Cardinality(WorkingWorkers \ {w}),
           LoopHead(w, working),
           wait_condition' = wait_condition
              \/ wait_condition' = {},
           AllDone(working) => wait_condition' = {} \/ pc[w] = "test",
           UNCHANGED <<threads_waiting, stop, promise, added, finished>>
    PROVE  IInv'
<1> USE DEF IInv
<1>1. TypeOK /\ w \in Threads /\ w \notin Clients
  BY ClientsAssumption DEF Threads
<1>2. tasks' \in Seq(Tasks)
  <2>1. tasks \in Seq(Tasks) /\ tasks' \in {tasks, Tail(tasks)}
        /\ (tasks' # tasks => tasks # <<>>)
    BY <1>1 DEF LoopHead, LeaveLoop, Sleep, Take, TypeOK
  <2> QED
    BY <2>1, HeadTailProperties
<1>3. /\ pc' \in [Threads -> WorkerPCs \cup ClientPCs]
      /\ pc'[w] \in {"test", "running", "exited"}
      /\ \A x \in Threads \ {w} : pc'[x] = pc[x]
      /\ \A c \in Clients : pc'[c] = pc[c]
  BY <1>1 DEF LoopHead, LeaveLoop, Sleep, Take, TypeOK, WorkerPCs, Threads
<1>4. WorkingIsExact'
  <2>1. /\ IsFiniteSet(WorkingWorkers \ {w})
        /\ Cardinality(WorkingWorkers \ {w}) \in Nat
        /\ Cardinality((WorkingWorkers \ {w}) \cup {w})
              = Cardinality(WorkingWorkers \ {w}) + 1
    <3>1. IsFiniteSet(WorkingWorkers \ {w})
      BY <1>1, Sizes, FS_RemoveElement
    <3> QED
      BY <3>1, FS_CardinalityType, FS_AddElement
  <2>2. CASE pc'[w] = "running"
    <3>1. WorkingWorkers' = (WorkingWorkers \ {w}) \cup {w}
      BY <2>2, <1>1, <1>3 DEF WorkingWorkers, Working, Threads
    <3>2. threads_working' = working + 1
      BY <2>2, <1>1 DEF LoopHead, LeaveLoop, Sleep, Take, TypeOK
    <3> QED
      BY <2>1, <3>1, <3>2 DEF WorkingIsExact
  <2>3. CASE pc'[w] # "running"
    <3>1. WorkingWorkers' = WorkingWorkers \ {w}
      BY <2>3, <1>1, <1>3 DEF WorkingWorkers, Working, Threads
    <3>2. threads_working' = working
      BY <2>3, <1>1 DEF LoopHead, LeaveLoop, Sleep, Take, TypeOK
    <3> QED
      BY <2>1, <3>1, <3>2 DEF WorkingIsExact
  <2> QED
    BY <2>2, <2>3
<1>5. WaitingIsExact'
  <2>1. WaitingClients' = WaitingClients
    BY <1>3 DEF WaitingClients
  <2> QED
    BY <2>1 DEF WaitingIsExact
<1>6. TypeOK'
  <2>1. threads_working' \in 0..Cardinality(Workers)
    <3>1. WorkingWorkers' \in SUBSET Workers
      BY DEF WorkingWorkers
    <3> QED
      BY <1>4, <3>1, SubsetSize, WorkersAssumption DEF WorkingIsExact
  <2>2. task' \in [Workers -> Tasks \cup {NoTask}]
    BY <1>1, HeadTailProperties DEF LoopHead, LeaveLoop, Sleep, Take, TypeOK
  <2>3. /\ \A x \in Workers : pc'[x] \in WorkerPCs
        /\ \A c \in Clients : pc'[c] \in ClientPCs
    BY <1>1, <1>3 DEF TypeOK, WorkerPCs, Threads
  <2>4. work_condition' \subseteq Workers /\ wait_condition' \subseteq Clients
    BY <1>1 DEF LoopHead, LeaveLoop, Sleep, Take, TypeOK
  <2> QED
    BY <1>1, <1>2, <1>3, <2>1, <2>2, <2>3, <2>4 DEF TypeOK
<1>7. SleepersAndTasksInPlace'
  <2>1. \A x \in work_condition' : pc'[x] = "test"
    BY <1>1, <1>3 DEF LoopHead, LeaveLoop, Sleep, Take, SleepersAndTasksInPlace, TypeOK, Threads
  <2>2. \A c \in wait_condition' : pc'[c] = "waiting"
    BY <1>1, <1>3 DEF SleepersAndTasksInPlace, TypeOK
  <2>3. \A x \in Workers : Working(x)' => task'[x] \in Tasks
    <3>1. TAKE x \in Workers
    <3>2. CASE x = w
      BY <3>2, <1>1, HeadTailProperties DEF LoopHead, LeaveLoop, Sleep, Take, TypeOK, Working
    <3>3. CASE x # w
      BY <3>3, <1>1, <1>3 DEF LoopHead, LeaveLoop, Sleep, Take, TypeOK, Working, SleepersAndTasksInPlace, Threads
    <3> QED
      BY <3>2, <3>3
  <2>4. stop' => work_condition' = {} /\ \A c \in Clients : pc'[c] # "waiting"
    BY <1>3 DEF LoopHead, LeaveLoop, Sleep, Take, SleepersAndTasksInPlace
  <2>5. \A c \in Clients : pc'[c] \in {"joining", "gone"} => stop'
    BY <1>3 DEF SleepersAndTasksInPlace
  <2> QED
    BY <2>1, <2>2, <2>3, <2>4, <2>5 DEF SleepersAndTasksInPlace
<1>8. NoTaskLeftToSleepers'
  <2>1. CASE stop
    BY <2>1 DEF LoopHead, LeaveLoop, Sleep, Take, SleepersAndTasksInPlace, NoTaskLeftToSleepers
  <2>2. CASE ~stop /\ tasks = <<>>
    <3>1. Len(tasks') = 0
      BY <2>2 DEF LoopHead, LeaveLoop, Sleep, Take
    <3>2. Cardinality(AwakeWorkers') \in Nat
      <4>1. AwakeWorkers' \in SUBSET Workers
        BY DEF AwakeWorkers
      <4> QED
        BY <4>1, SubsetSize, WorkersAssumption
    <3> QED
      BY <3>1, <3>2 DEF NoTaskLeftToSleepers
  <2>3. CASE ~stop /\ tasks # <<>>
    <3>1. /\ work_condition' = work_condition
          /\ Len(tasks') = Len(tasks) - 1
          /\ pc'[w] = "running"
      BY <2>3, <1>1, HeadTailProperties DEF LoopHead, LeaveLoop, Sleep, Take, TypeOK
    <3>2. AwakeWorkers' = AwakeWorkers \ {w}
      BY <3>1, <1>1, <1>3 DEF AwakeWorkers, Awake, Threads
    <3>3. /\ IsFiniteSet(AwakeWorkers)
          /\ Cardinality(AwakeWorkers) \in Nat
      BY <1>1, Sizes, FS_CardinalityType
    <3>4. Cardinality(AwakeWorkers') =
             IF w \in AwakeWorkers THEN Cardinality(AwakeWorkers) - 1
                                   ELSE Cardinality(AwakeWorkers)
      BY <3>2, <3>3, FS_RemoveElement
    <3>5. Len(tasks) \in Nat
      BY <1>1 DEF TypeOK
    <3> QED
      BY <3>1, <3>3, <3>4, <3>5 DEF NoTaskLeftToSleepers
  <2> QED
    BY <2>1, <2>2, <2>3
<1>9. NoClientLeftAsleep'
  <2> SUFFICES ASSUME wait_condition' # {}, ~Busy' PROVE FALSE
    BY DEF NoClientLeftAsleep
  <2>1. tasks' = <<>> /\ threads_working' = 0
    <3>1. threads_working' \in Nat
      BY <1>6, FS_CardinalityType, WorkersAssumption DEF TypeOK
    <3> QED
      BY <3>1 DEF Busy
  <2>2. wait_condition' = wait_condition /\ Busy /\ ~stop
    BY <1>1 DEF NoClientLeftAsleep, SleepersAndTasksInPlace, TypeOK
  <2>3. working \in Nat
    <3>1. IsFiniteSet(WorkingWorkers \ {w})
      BY <1>1, Sizes, FS_RemoveElement
    <3> QED
      BY <3>1, FS_CardinalityType
  <2>4. tasks = <<>> /\ working = 0
    BY <2>1, <2>2, <2>3 DEF LoopHead, LeaveLoop, Sleep, Take
  <2>5. threads_waiting > 0
    <3>1. PICK c \in WaitingClients : TRUE
      BY <1>1 DEF TypeOK, SleepersAndTasksInPlace, WaitingClients
    <3>2. WaitingClients # {} /\ IsFiniteSet(WaitingClients)
      BY <3>1, <1>1, Sizes
    <3> QED
      BY <3>2, FS_EmptySet, FS_CardinalityType DEF WaitingIsExact
  <2>6. pc[w] = "test"
    BY <2>4, <2>5 DEF AllDone
  <2>7. WorkingWorkers \ {w} = WorkingWorkers
    BY <2>6 DEF WorkingWorkers, Working
  <2>8. threads_working = 0
    BY <2>4, <2>7 DEF WorkingIsExact
  <2> QED
    BY <2>2, <2>4, <2>8 DEF Busy
<1> QED
  BY <1>4, <1>5, <1>6, <1>7, <1>8, <1>9

\* The task of a worker returns.
LEMMA TaskReturnsStep ==
    ASSUME IInv, NEW w \in Workers, task_returns(w)
    PROVE  IInv'
<1> USE DEF IInv
<1>1. TypeOK /\ w \in Threads /\ w \notin Clients
  BY ClientsAssumption DEF Threads
<1>2. /\ UNCHANGED <<tasks, threads_working, threads_waiting, stop,
                     work_condition, wait_condition, task, added>>
      /\ pc' = [pc EXCEPT ![w] = "returned"]
      /\ pc[w] = "running"
  BY DEF task_returns, SetValue, poolVars, condVars
<1>3. /\ pc' \in [Threads -> WorkerPCs \cup ClientPCs]
      /\ \A x \in Threads \ {w} : pc'[x] = pc[x]
      /\ pc'[w] = "returned"
      /\ \A c \in Clients : pc'[c] = pc[c]
  BY <1>1, <1>2 DEF TypeOK, WorkerPCs, Threads
<1>4. task[w] \in Tasks
  BY <1>2 DEF SleepersAndTasksInPlace, Working
<1>5. TypeOK'
  <2>1. promise' \in [Tasks -> {"none", "pending", "ready", "broken"}]
    BY <1>1, <1>4 DEF task_returns, SetValue, TypeOK
  <2>2. finished' \subseteq Tasks
    BY <1>1, <1>4 DEF task_returns, SetValue, TypeOK
  <2>3. /\ \A x \in Workers : pc'[x] \in WorkerPCs
        /\ \A c \in Clients : pc'[c] \in ClientPCs
    BY <1>1, <1>3 DEF TypeOK, WorkerPCs, Threads
  <2> QED
    BY <1>1, <1>2, <1>3, <2>1, <2>2, <2>3 DEF TypeOK
<1>6. /\ WorkingWorkers' = WorkingWorkers
      /\ WaitingClients' = WaitingClients
      /\ AwakeWorkers' = AwakeWorkers
  BY <1>2, <1>3 DEF WorkingWorkers, Working, WaitingClients, AwakeWorkers,
                    Awake, Threads
<1>7. WorkingIsExact' /\ WaitingIsExact' /\ NoTaskLeftToSleepers'
  BY <1>2, <1>6 DEF WorkingIsExact, WaitingIsExact, NoTaskLeftToSleepers
<1>8. NoClientLeftAsleep'
  BY <1>2 DEF NoClientLeftAsleep, Busy
<1>9. SleepersAndTasksInPlace'
  BY <1>1, <1>2, <1>3, <1>4
  DEF SleepersAndTasksInPlace, Working, TypeOK, Threads
<1> QED
  BY <1>5, <1>7, <1>8, <1>9

\* The destructor, up to the point where it waits for the threads.
LEMMA DestroyStopStep ==
    ASSUME IInv, NEW c \in Clients, destroy_stop(c)
    PROVE  IInv'
<1> USE DEF IInv
<1>1. TypeOK /\ c \in Threads /\ c \notin Workers
  BY ClientsAssumption DEF Threads
<1>2. /\ pc' \in [Threads -> WorkerPCs \cup ClientPCs]
      /\ pc'[c] = "joining"
      /\ \A x \in Threads \ {c} : pc'[x] = pc[x]
      /\ \A w \in Workers : pc'[w] = pc[w]
      /\ \A d \in Clients : pc[d] = "idle"
      /\ stop' = TRUE /\ work_condition' = {}
      /\ UNCHANGED <<tasks, threads_working, threads_waiting, wait_condition,
                     task, promise, added, finished>>
  BY <1>1 DEF destroy_stop, NotifyAllWorkers, TypeOK, ClientPCs, Threads
<1>3. \A d \in Clients : pc'[d] \in {"joining", "idle"}
  BY <1>1, <1>2 DEF Threads
<1>4. TypeOK'
  <2>1. /\ \A w \in Workers : pc'[w] \in WorkerPCs
        /\ \A d \in Clients : pc'[d] \in ClientPCs
    BY <1>1, <1>2, <1>3 DEF TypeOK, ClientPCs
  <2>2. stop' \in BOOLEAN /\ work_condition' \subseteq Workers
    BY <1>2
  <2> QED
    BY <1>1, <1>2, <2>1, <2>2 DEF TypeOK
<1>5. WorkingWorkers' = WorkingWorkers /\ WaitingClients' = WaitingClients
  BY <1>2, <1>3 DEF WorkingWorkers, Working, WaitingClients
<1>6. WorkingIsExact' /\ WaitingIsExact' /\ NoTaskLeftToSleepers'
  BY <1>2, <1>5 DEF WorkingIsExact, WaitingIsExact, NoTaskLeftToSleepers
<1>7. wait_condition = {}
  BY <1>1, <1>2 DEF SleepersAndTasksInPlace, TypeOK
<1>8. NoClientLeftAsleep' /\ SleepersAndTasksInPlace'
  BY <1>1, <1>2, <1>3, <1>7
  DEF NoClientLeftAsleep, SleepersAndTasksInPlace, Working
<1> QED
  BY <1>4, <1>6, <1>8

\* The destructor, from the last join to the end of the members.
LEMMA DestroyJoinStep ==
    ASSUME IInv, NEW c \in Clients, destroy_join(c)
    PROVE  IInv'
<1> USE DEF IInv
<1>1. TypeOK /\ c \in Threads /\ c \notin Workers
  BY ClientsAssumption DEF Threads
<1>2. /\ pc' \in [Threads -> WorkerPCs \cup ClientPCs]
      /\ pc[c] = "joining" /\ pc'[c] = "gone"
      /\ \A x \in Threads \ {c} : pc'[x] = pc[x]
      /\ \A w \in Workers : pc'[w] = pc[w]
      /\ tasks' = <<>>
      /\ UNCHANGED <<threads_working, threads_waiting, stop, work_condition,
                     wait_condition, task, added, finished>>
  BY <1>1 DEF destroy_join, TypeOK, ClientPCs, Threads, condVars
<1>3. stop /\ work_condition = {} /\ wait_condition = {}
  BY <1>1, <1>2 DEF SleepersAndTasksInPlace, TypeOK
<1>4. \A d \in Clients : pc'[d] \in ClientPCs /\ pc'[d] # "waiting"
  BY <1>1, <1>2, <1>3 DEF SleepersAndTasksInPlace, TypeOK, ClientPCs, Threads
<1>5. TypeOK'
  <2>1. promise' \in [Tasks -> {"none", "pending", "ready", "broken"}]
    BY <1>1 DEF destroy_join, TypeOK
  <2>2. \A w \in Workers : pc'[w] \in WorkerPCs
    BY <1>1, <1>2 DEF TypeOK
  <2>3. tasks' \in Seq(Tasks)
    BY <1>2
  <2> QED
    BY <1>1, <1>2, <1>4, <2>1, <2>2, <2>3 DEF TypeOK
<1>6. WorkingWorkers' = WorkingWorkers /\ WaitingClients' = WaitingClients
  BY <1>2, <1>3, <1>4 DEF WorkingWorkers, Working, WaitingClients,
                          SleepersAndTasksInPlace
<1>7. WorkingIsExact' /\ WaitingIsExact' /\ NoTaskLeftToSleepers'
  BY <1>2, <1>3, <1>6 DEF WorkingIsExact, WaitingIsExact, NoTaskLeftToSleepers
<1>8. NoClientLeftAsleep' /\ SleepersAndTasksInPlace'
  BY <1>1, <1>2, <1>3, <1>4
  DEF NoClientLeftAsleep, SleepersAndTasksInPlace, Working
<1> QED
  BY <1>5, <1>7, <1>8

\* A thread wakes up unnotified.
LEMMA SpuriousStep ==
    ASSUME IInv, NEW t \in Threads, spurious_wakeup(t)
    PROVE  IInv'
<1> USE DEF IInv
<1>1. TypeOK
  OBVIOUS
<1>2. /\ work_condition' = work_condition \ {t}
      /\ wait_condition' = wait_condition \ {t}
      /\ UNCHANGED <<tasks, threads_working, threads_waiting, stop, pc, task,
                     promise, added, finished>>
  BY DEF spurious_wakeup, poolVars
<1>3. TypeOK'
  BY <1>1, <1>2 DEF TypeOK
<1>4. WorkingWorkers' = WorkingWorkers /\ WaitingClients' = WaitingClients
  BY <1>2 DEF WorkingWorkers, Working, WaitingClients
<1>5. WorkingIsExact' /\ WaitingIsExact'
  BY <1>2, <1>4 DEF WorkingIsExact, WaitingIsExact
<1>6. NoClientLeftAsleep' /\ SleepersAndTasksInPlace'
  BY <1>2 DEF NoClientLeftAsleep, SleepersAndTasksInPlace, Working, Busy
<1>7. NoTaskLeftToSleepers'
  <2>1. /\ AwakeWorkers \in SUBSET AwakeWorkers'
        /\ AwakeWorkers' \in SUBSET Workers
    BY <1>2 DEF AwakeWorkers, Awake
  <2>2. IsFiniteSet(AwakeWorkers') /\ Cardinality(AwakeWorkers') \in Nat
    BY <2>1, SubsetSize, WorkersAssumption
  <2>3. /\ Cardinality(AwakeWorkers) \in Nat
        /\ Cardinality(AwakeWorkers) <= Cardinality(AwakeWorkers')
    BY <2>1, <2>2, SubsetSize
  <2>4. Len(tasks) \in Nat
    BY <1>1 DEF TypeOK
  <2> QED
    BY <1>2, <2>2, <2>3, <2>4 DEF NoTaskLeftToSleepers
<1> QED
  BY <1>3, <1>5, <1>6, <1>7

\* What add_tasks() is given is a sequence of tasks.
LEMMA BatchesAreSequences == Batches \subseteq Seq(Tasks)
<1> SUFFICES ASSUME NEW s \in Batches PROVE s \in Seq(Tasks)
  OBVIOUS
<1>1. PICK n \in 0..MaxBatch : s \in [1..n -> Tasks \ added]
  BY DEF Batches
<1>2. n \in Nat /\ s \in [1..n -> Tasks]
  BY <1>1, BatchAssumption
<1> QED
  BY <1>2, SeqDef

LEMMA NextIInv == IInv /\ [Next]_vars => IInv'
<1> SUFFICES ASSUME IInv, [Next]_vars PROVE IInv'
  OBVIOUS
<1>1. TypeOK
  BY DEF IInv
<1>2. ASSUME NEW t \in Threads, NEW new \in Tasks, add_task(t, new)
      PROVE  IInv'
  <2>1. <<new>> \in Seq(Tasks) /\ Len(<<new>>) = 1
    OBVIOUS
  <2>2. promise' \in [Tasks -> {"none", "pending", "ready", "broken"}]
    BY <1>1, <1>2 DEF TypeOK, add_task
  <2> QED
    BY <1>2, <2>1, <2>2, EnqueueStep DEF add_task
<1>3. ASSUME NEW t \in Threads, NEW new \in Tasks, async(t, new)
      PROVE  IInv'
  <2>1. <<new>> \in Seq(Tasks) /\ Len(<<new>>) = 1
    OBVIOUS
  <2>2. promise' \in [Tasks -> {"none", "pending", "ready", "broken"}]
    BY <1>1, <1>3 DEF TypeOK, async
  <2> QED
    BY <1>3, <2>1, <2>2, EnqueueStep DEF async
<1>4. ASSUME NEW t \in Threads, NEW new \in Batches, add_tasks(t, new)
      PROVE  IInv'
  <2>1. new \in Seq(Tasks)
    BY BatchesAreSequences
  <2>2. promise' \in [Tasks -> {"none", "pending", "ready", "broken"}]
    BY <1>1, <1>4 DEF TypeOK, add_tasks, NotifyAllWorkers
  <2> QED
    BY <1>4, <2>1, <2>2, EnqueueStep DEF add_tasks, NotifyAllWorkers
<1>5. ASSUME NEW c \in Clients, ClientStep(c)
      PROVE  IInv'
  BY <1>5, WaitStep, DestroyStopStep, DestroyJoinStep DEF ClientStep
<1>6. ASSUME NEW w \in Workers, work_awake(w)
      PROVE  IInv'
  <2>1. /\ w \notin work_condition /\ pc[w] = "test"
        /\ LoopHead(w, threads_working)
        /\ wait_condition' = wait_condition
        /\ UNCHANGED <<threads_waiting, stop, promise, added, finished>>
    BY <1>6 DEF work_awake
  <2>2. threads_working = Cardinality(WorkingWorkers \ {w})
    <3>1. WorkingWorkers \ {w} = WorkingWorkers
      BY <2>1 DEF WorkingWorkers, Working
    <3> QED
      BY <3>1 DEF IInv, WorkingIsExact
  <2> QED
    BY <2>1, <2>2, LoopHeadStep
<1>7. ASSUME NEW w \in Workers, work_returned(w)
      PROVE  IInv'
  <2>1. /\ w \notin work_condition /\ pc[w] = "returned"
        /\ LoopHead(w, threads_working - 1)
        /\ wait_condition' =
              IF AllDone(threads_working - 1) THEN {} ELSE wait_condition
        /\ UNCHANGED <<threads_waiting, stop, promise, added, finished>>
    BY <1>7 DEF work_returned, IInv, SleepersAndTasksInPlace
  <2>2. threads_working - 1 = Cardinality(WorkingWorkers \ {w})
    <3>1. w \in WorkingWorkers
      BY <2>1 DEF WorkingWorkers, Working
    <3>2. Cardinality(WorkingWorkers \ {w}) = Cardinality(WorkingWorkers) - 1
      BY <3>1, <1>1, Sizes, FS_RemoveElement
    <3> QED
      BY <3>2 DEF IInv, WorkingIsExact
  <2>3. /\ wait_condition' = wait_condition \/ wait_condition' = {}
        /\ AllDone(threads_working - 1) =>
              wait_condition' = {} \/ pc[w] = "test"
    BY <2>1
  <2> QED
    BY <2>1, <2>2, <2>3, LoopHeadStep
<1>8. ASSUME NEW w \in Workers, WorkerStep(w)
      PROVE  IInv'
  BY <1>6, <1>7, <1>8, TaskReturnsStep DEF WorkerStep
<1>9. ASSUME NEW t \in Threads, spurious_wakeup(t)
      PROVE  IInv'
  BY <1>9, SpuriousStep
<1>10. CASE UNCHANGED vars
  <2>1. UNCHANGED <<tasks, threads_working, threads_waiting, stop,
                    work_condition, wait_condition, pc, task, promise, added,
                    finished>>
    BY <1>10 DEF vars, poolVars, condVars
  <2>2. /\ WorkingWorkers' = WorkingWorkers
        /\ WaitingClients' = WaitingClients
        /\ AwakeWorkers' = AwakeWorkers
    BY <2>1 DEF WorkingWorkers, Working, WaitingClients, AwakeWorkers, Awake
  <2>3. TypeOK' /\ SleepersAndTasksInPlace' /\ NoClientLeftAsleep'
    BY <2>1 DEF IInv, TypeOK, SleepersAndTasksInPlace, Working,
                NoClientLeftAsleep, Busy
  <2> QED
    BY <2>1, <2>2, <2>3
    DEF IInv, WorkingIsExact, WaitingIsExact, NoTaskLeftToSleepers
<1> QED
  BY <1>2, <1>3, <1>4, <1>5, <1>8, <1>9, <1>10 DEF Next

\* IInv holds in every reachable state.
THEOREM Invariance == Spec => []IInv
<1> QED
  BY InitIInv, NextIInv, PTL DEF Spec

\* The fields of the pool keep their types, threads_working_ and
\* threads_waiting_ stay between 0 and the number of threads there are.
THEOREM TypeCorrect == Spec => []TypeOK
<1>1. IInv => TypeOK
  BY DEF IInv
<1> QED
  BY <1>1, Invariance, PTL

\* threads_working_ always is the number of workers that have a task, so
\* threads_available() never underflows and wait() cannot return early.
THEOREM WorkingCountExact == Spec => []WorkingIsExact
<1>1. IInv => WorkingIsExact
  BY DEF IInv
<1> QED
  BY <1>1, Invariance, PTL

\* No wakeup is lost on work_condition_ or on wait_condition_.
THEOREM NoLostWakeup == Spec => [](NoTaskLeftToSleepers /\ NoClientLeftAsleep)
<1>1. IInv => NoTaskLeftToSleepers /\ NoClientLeftAsleep
  BY DEF IInv
<1> QED
  BY <1>1, Invariance, PTL

-----------------------------------------------------------------------------
(* wait() returns in an idle pool.                                         *)

LEMMA RangeOfQueue ==
    ASSUME NEW s \in Seq(Tasks), NEW new \in Seq(Tasks)
    PROVE  /\ Range(s \o new) = Range(s) \cup Range(new)
           /\ s # <<>> => Range(s) = {Head(s)} \cup Range(Tail(s))
<1>1. Range(s \o new) = Range(s) \cup Range(new)
  <2>1. /\ DOMAIN (s \o new) = 1..(Len(s) + Len(new))
        /\ DOMAIN s = 1..Len(s) /\ DOMAIN new = 1..Len(new)
        /\ Len(s) \in Nat /\ Len(new) \in Nat
    BY ConcatProperties, LenProperties
  <2>2. \A i \in 1..(Len(s) + Len(new)) :
           (s \o new)[i] = IF i <= Len(s) THEN s[i] ELSE new[i - Len(s)]
    BY ConcatProperties
  <2>3. ASSUME NEW x \in Range(s \o new) PROVE x \in Range(s) \cup Range(new)
    BY <2>1, <2>2 DEF Range
  <2>4. ASSUME NEW x \in Range(s) PROVE x \in Range(s \o new)
    BY <2>1, <2>2 DEF Range
  <2>5. ASSUME NEW x \in Range(new) PROVE x \in Range(s \o new)
    <3>1. PICK i \in 1..Len(new) : x = new[i]
      BY <2>1 DEF Range
    <3>2. /\ i + Len(s) \in DOMAIN (s \o new)
          /\ (s \o new)[i + Len(s)] = x
      BY <2>1, <2>2, <3>1
    <3> QED
      BY <3>2 DEF Range
  <2> QED
    BY <2>3, <2>4, <2>5
<1>2. ASSUME s # <<>> PROVE Range(s) = {Head(s)} \cup Range(Tail(s))
  <2>1. /\ DOMAIN s = 1..Len(s) /\ Len(s) \in Nat \ {0}
        /\ DOMAIN Tail(s) = 1..(Len(s) - 1)
        /\ Head(s) = s[1]
        /\ \A i \in 1..(Len(s) - 1) : Tail(s)[i] = s[i + 1]
    BY <1>2, LenProperties, HeadTailProperties, EmptySeq
  <2>2. ASSUME NEW x \in Range(s) PROVE x \in {Head(s)} \cup Range(Tail(s))
    <3>1. PICK i \in 1..Len(s) : x = s[i]
      BY <2>1 DEF Range
    <3>2. CASE i = 1
      BY <2>1, <3>1, <3>2
    <3>3. CASE i # 1
      <4>1. i - 1 \in DOMAIN Tail(s) /\ Tail(s)[i - 1] = x
        BY <2>1, <3>1, <3>3
      <4> QED
        BY <4>1 DEF Range
    <3> QED
      BY <3>2, <3>3
  <2>3. Head(s) \in Range(s)
    BY <2>1 DEF Range
  <2>4. ASSUME NEW x \in Range(Tail(s)) PROVE x \in Range(s)
    BY <2>1 DEF Range
  <2> QED
    BY <2>2, <2>3, <2>4
<1> QED
  BY <1>1, <1>2

LEMMA InitSomewhere == Init => AddedTasksAreSomewhere
<1> SUFFICES ASSUME Init PROVE AddedTasksAreSomewhere
  OBVIOUS
<1>1. added = {} /\ finished = {} /\ Range(tasks) = {}
  BY DEF Init, Range
<1>2. \A w \in Workers : pc[w] = "test"
  BY DEF Init, Threads
<1> QED
  BY <1>1, <1>2 DEF AddedTasksAreSomewhere

\* The head of the loop takes a task from the queue into the hands of w,
\* which held none that still ran.
LEMMA LoopHeadSomewhere ==
    ASSUME TypeOK, AddedTasksAreSomewhere, NEW w \in Workers,
           pc[w] \in {"test", "returned"},
           NEW working, LoopHead(w, working), UNCHANGED <<added, finished>>
    PROVE  AddedTasksAreSomewhere'
<1>1. /\ w \in Threads /\ w \notin Clients
      /\ \A x \in Workers \ {w} : pc'[x] = pc[x] /\ task'[x] = task[x]
      /\ \A c \in Clients : pc'[c] = pc[c]
  BY ClientsAssumption DEF Threads, TypeOK, LoopHead, LeaveLoop, Sleep, Take
<1>2. CASE tasks' = tasks /\ pc'[w] # "running"
  BY <1>1, <1>2 DEF AddedTasksAreSomewhere
<1>3. CASE /\ tasks # <<>> /\ tasks' = Tail(tasks)
           /\ pc'[w] = "running" /\ task'[w] = Head(tasks)
  <2>1. Range(tasks) = {Head(tasks)} \cup Range(tasks')
    BY <1>3, RangeOfQueue DEF TypeOK
  <2> QED
    BY <1>1, <1>3, <2>1 DEF AddedTasksAreSomewhere
<1> QED
  BY <1>1, <1>2, <1>3 DEF LoopHead, LeaveLoop, Sleep, Take, TypeOK

LEMMA EnqueueSomewhere ==
    ASSUME TypeOK, AddedTasksAreSomewhere, NEW new \in Seq(Tasks),
           Enqueue(new), UNCHANGED <<pc, task, finished>>
    PROVE  AddedTasksAreSomewhere'
<1>1. Range(tasks') = Range(tasks) \cup Range(new)
  BY RangeOfQueue DEF Enqueue, TypeOK
<1> QED
  BY <1>1 DEF AddedTasksAreSomewhere, Enqueue

LEMMA NextSomewhere ==
    TypeOK /\ AddedTasksAreSomewhere /\ [Next]_vars => AddedTasksAreSomewhere'
<1> SUFFICES ASSUME TypeOK, AddedTasksAreSomewhere, [Next]_vars
             PROVE  AddedTasksAreSomewhere'
  OBVIOUS
<1>1. ASSUME NEW t \in Threads, NEW new \in Tasks,
             add_task(t, new) \/ async(t, new)
      PROVE  AddedTasksAreSomewhere'
  <2>1. <<new>> \in Seq(Tasks)
    OBVIOUS
  <2> QED
    BY <1>1, <2>1, EnqueueSomewhere DEF add_task, async
<1>2. ASSUME NEW t \in Threads, NEW new \in Batches, add_tasks(t, new)
      PROVE  AddedTasksAreSomewhere'
  BY <1>2, BatchesAreSequences, EnqueueSomewhere DEF add_tasks, NotifyAllWorkers
<1>3. ASSUME NEW c \in Clients, wait_enter(c) \/ wait_test(c) \/ destroy_stop(c)
      PROVE  AddedTasksAreSomewhere'
  <2>1. /\ UNCHANGED <<tasks, task, added, finished>>
        /\ \A w \in Workers : pc'[w] = pc[w]
        /\ \A d \in Clients : pc[d] = "gone" => pc'[d] = "gone"
    BY <1>3, ClientsAssumption
    DEF wait_enter, wait_test, destroy_stop, NotifyAllWorkers, MayCall, TypeOK, Threads
  <2> QED
    BY <2>1 DEF AddedTasksAreSomewhere
<1>4. ASSUME NEW c \in Clients, destroy_join(c)
      PROVE  AddedTasksAreSomewhere'
  <2>1. /\ UNCHANGED <<task, added, finished>>
        /\ \A w \in Workers : pc'[w] = pc[w]
        /\ pc'[c] = "gone" /\ Range(tasks') = {}
    BY <1>4, ClientsAssumption DEF destroy_join, TypeOK, Threads, Range
  <2> QED
    BY <2>1 DEF AddedTasksAreSomewhere
<1>5. ASSUME NEW w \in Workers, task_returns(w)
      PROVE  AddedTasksAreSomewhere'
  <2>1. /\ UNCHANGED <<tasks, task, added>>
        /\ pc[w] = "running" /\ pc'[w] = "returned"
        /\ \A x \in Workers \ {w} : pc'[x] = pc[x]
        /\ \A c \in Clients : pc'[c] = pc[c]
        /\ finished' = finished \cup {task[w]}
    BY <1>5, ClientsAssumption DEF task_returns, SetValue, poolVars, TypeOK, Threads
  <2> QED
    BY <2>1 DEF AddedTasksAreSomewhere
<1>6. ASSUME NEW w \in Workers, work_awake(w) \/ work_returned(w)
      PROVE  AddedTasksAreSomewhere'
  BY <1>6, LoopHeadSomewhere DEF work_awake, work_returned
<1>7. ASSUME NEW t \in Threads, spurious_wakeup(t) \/ UNCHANGED vars
      PROVE  AddedTasksAreSomewhere'
  BY <1>7 DEF spurious_wakeup, poolVars, vars, AddedTasksAreSomewhere
<1>8. CASE UNCHANGED vars
  BY <1>8 DEF poolVars, vars, AddedTasksAreSomewhere
<1> QED
  BY <1>1, <1>2, <1>3, <1>4, <1>5, <1>6, <1>7, <1>8
  DEF Next, ClientStep, WorkerStep

THEOREM NothingGetsLost == Spec => []AddedTasksAreSomewhere
<1>1. IInv => TypeOK
  BY DEF IInv
<1> QED
  BY <1>1, InitSomewhere, NextSomewhere, Invariance, PTL DEF Spec

\* A step in which a client leaves wait() is a step of wait() that found the
\* pool idle.
LEMMA LeavingStep ==
    ASSUME IInv, AddedTasksAreSomewhere, [Next]_vars, NEW c \in Clients,
           pc[c] = "waiting", pc'[c] = "idle"
    PROVE  finished = added
<1>1. TypeOK /\ c \in Threads /\ c \notin Workers
  BY ClientsAssumption DEF IInv, Threads
<1>2. ~Busy
  <2>1. ASSUME NEW w \in Workers, WorkerStep(w) PROVE FALSE
    BY <2>1, <1>1
    DEF WorkerStep, work_awake, task_returns, SetValue, work_returned, LoopHead, LeaveLoop, Sleep, Take, TypeOK
  <2>2. ASSUME NEW d \in Clients, ClientStep(d) PROVE wait_test(c)
    BY <2>2, <1>1
    DEF ClientStep, wait_enter, wait_test, destroy_stop, NotifyAllWorkers, destroy_join, TypeOK
  <2>3. wait_test(c)
    BY <2>1, <2>2, <1>1
    DEF Next, add_task, async, add_tasks, NotifyAllWorkers, spurious_wakeup, vars
  <2> QED
    BY <2>3, <1>1 DEF wait_test
<1>3. tasks = <<>> /\ threads_working = 0
  <2>1. threads_working \in Nat
    BY <1>1, FS_CardinalityType, WorkersAssumption DEF TypeOK
  <2> QED
    BY <1>2, <2>1 DEF Busy
<1>4. \A w \in Workers : pc[w] # "running"
  <2>1. WorkingWorkers = {}
    BY <1>1, <1>3, Sizes, FS_EmptySet DEF IInv, WorkingIsExact
  <2> QED
    BY <2>1 DEF WorkingWorkers, Working
<1>5. \A d \in Clients : pc[d] # "gone"
  BY <1>1 DEF IInv, SleepersAndTasksInPlace
<1>6. Range(tasks) = {}
  BY <1>3 DEF Range
<1> QED
  BY <1>4, <1>5, <1>6 DEF AddedTasksAreSomewhere

\* wait() returns only when every task added so far has finished.
THEOREM WaitIsCorrect == Spec => WaitMeansFinished
<1>1. IInv /\ AddedTasksAreSomewhere /\ [Next]_vars
         => [\A c \in Clients :
                pc[c] = "waiting" /\ pc'[c] = "idle" => finished = added]_vars
  <2> SUFFICES ASSUME IInv, AddedTasksAreSomewhere, [Next]_vars,
                      NEW c \in Clients,
                      pc[c] = "waiting", pc'[c] = "idle"
               PROVE  finished = added
    OBVIOUS
  <2> QED
    BY LeavingStep
<1> QED
  BY <1>1, Invariance, NothingGetsLost, PTL DEF Spec, WaitMeansFinished

-----------------------------------------------------------------------------
(* A task is in one place, and what becomes of its promise.                *)

\* Whether a sequence holds each of its elements once, at its end and after
\* its first element is gone.
LEMMA DistinctTail ==
    ASSUME NEW s \in Seq(Tasks), s # <<>>,
           \A i, j \in DOMAIN s : s[i] = s[j] => i = j
    PROVE  /\ Head(s) \notin Range(Tail(s))
           /\ \A i, j \in DOMAIN Tail(s) : Tail(s)[i] = Tail(s)[j] => i = j
<1>1. /\ DOMAIN s = 1..Len(s) /\ Len(s) \in Nat \ {0}
      /\ DOMAIN Tail(s) = 1..(Len(s) - 1)
      /\ Head(s) = s[1]
      /\ \A i \in 1..(Len(s) - 1) : Tail(s)[i] = s[i + 1]
  BY LenProperties, HeadTailProperties, EmptySeq
<1>2. ASSUME NEW i \in DOMAIN Tail(s), Tail(s)[i] = Head(s) PROVE FALSE
  <2>1. i + 1 \in DOMAIN s /\ 1 \in DOMAIN s /\ s[i + 1] = s[1] /\ i + 1 # 1
    BY <1>1, <1>2
  <2> QED
    BY <2>1
<1>3. ASSUME NEW i \in DOMAIN Tail(s), NEW j \in DOMAIN Tail(s),
             Tail(s)[i] = Tail(s)[j]
      PROVE  i = j
  <2>1. i + 1 \in DOMAIN s /\ j + 1 \in DOMAIN s /\ s[i + 1] = s[j + 1]
    BY <1>1, <1>3
  <2>2. i + 1 = j + 1
    BY <2>1
  <2> QED
    BY <2>2, <1>1
<1> QED
  BY <1>2, <1>3 DEF Range

LEMMA DistinctConcat ==
    ASSUME NEW s \in Seq(Tasks), NEW new \in Seq(Tasks),
           \A i, j \in DOMAIN s : s[i] = s[j] => i = j,
           \A i, j \in DOMAIN new : new[i] = new[j] => i = j,
           Range(s) \cap Range(new) = {}
    PROVE  \A i, j \in DOMAIN (s \o new) :
              (s \o new)[i] = (s \o new)[j] => i = j
<1>1. /\ DOMAIN (s \o new) = 1..(Len(s) + Len(new))
      /\ DOMAIN s = 1..Len(s) /\ DOMAIN new = 1..Len(new)
      /\ Len(s) \in Nat /\ Len(new) \in Nat
  BY ConcatProperties, LenProperties
<1>2. \A i \in 1..(Len(s) + Len(new)) :
         (s \o new)[i] = IF i <= Len(s) THEN s[i] ELSE new[i - Len(s)]
  BY ConcatProperties
<1>3. ASSUME NEW i \in DOMAIN s, NEW j \in DOMAIN new PROVE s[i] # new[j]
  BY DEF Range
<1> SUFFICES ASSUME NEW i \in 1..(Len(s) + Len(new)),
                    NEW j \in 1..(Len(s) + Len(new)),
                    (s \o new)[i] = (s \o new)[j]
             PROVE  i = j
  BY <1>1
<1>4. CASE i <= Len(s) /\ j <= Len(s)
  BY <1>1, <1>2, <1>4
<1>5. CASE i > Len(s) /\ j > Len(s)
  <2>1. i - Len(s) \in DOMAIN new /\ j - Len(s) \in DOMAIN new
    BY <1>1, <1>5
  <2>2. new[i - Len(s)] = new[j - Len(s)]
    BY <1>1, <1>2, <1>5
  <2>3. i - Len(s) = j - Len(s)
    BY <2>1, <2>2
  <2> QED
    BY <2>3, <1>1
<1>6. CASE i <= Len(s) /\ j > Len(s)
  <2>1. i \in DOMAIN s /\ j - Len(s) \in DOMAIN new
    BY <1>1, <1>6
  <2>2. s[i] = new[j - Len(s)]
    BY <1>1, <1>2, <1>6
  <2> QED
    BY <2>1, <2>2, <1>3
<1>7. CASE i > Len(s) /\ j <= Len(s)
  <2>1. j \in DOMAIN s /\ i - Len(s) \in DOMAIN new
    BY <1>1, <1>7
  <2>2. s[j] = new[i - Len(s)]
    BY <1>1, <1>2, <1>7
  <2> QED
    BY <2>1, <2>2, <1>3
<1> QED
  BY <1>1, <1>4, <1>5, <1>6, <1>7

\* Any vector that can be passed to add_tasks() holds new tasks, each once;
\* one task alone is such a vector.
LEMMA BatchesAreNew ==
    ASSUME NEW new \in Batches
    PROVE  /\ Range(new) \cap added = {}
           /\ \A i, j \in DOMAIN new : new[i] = new[j] => i = j
<1>1. PICK n \in 0..MaxBatch : new \in [1..n -> Tasks \ added]
  BY DEF Batches
<1> QED
  BY <1>1 DEF Batches, Range

LEMMA OneTaskIsNew ==
    ASSUME NEW new \in Tasks, new \notin added
    PROVE  /\ <<new>> \in Seq(Tasks)
           /\ Range(<<new>>) = {new}
           /\ Range(<<new>>) \cap added = {}
           /\ \A i, j \in DOMAIN <<new>> : <<new>>[i] = <<new>>[j] => i = j
<1>1. <<new>> \in Seq(Tasks) /\ DOMAIN <<new>> = {1} /\ <<new>>[1] = new
  OBVIOUS
<1>2. Range(<<new>>) = {new}
  BY <1>1 DEF Range
<1> QED
  BY <1>1, <1>2

\* What the steps below keep, and what they need to keep it.
TaskInv == TypeOK /\ SleepersAndTasksInPlace /\ AddedTasksAreSomewhere
              /\ NoTaskTwice /\ PromisesInPlace

LEMMA InitTaskInv == Init => NoTaskTwice /\ PromisesInPlace
<1> SUFFICES ASSUME Init PROVE NoTaskTwice /\ PromisesInPlace
  OBVIOUS
<1>1. tasks = <<>> /\ Range(tasks) = {} /\ DOMAIN tasks = {}
  BY DEF Init, Range
<1>2. /\ \A w \in Workers : pc[w] = "test"
      /\ \A c \in Clients : pc[c] = "idle"
      /\ \A t \in Tasks : promise[t] = "none"
  BY ClientsAssumption DEF Init, Threads
<1> QED
  BY <1>1, <1>2 DEF NoTaskTwice, PromisesInPlace

\* New tasks get into the queue while the pool is there.
LEMMA EnqueueTaskInv ==
    ASSUME TaskInv, NEW t \in Threads, MayCall(t),
           NEW new \in Seq(Tasks), Enqueue(new),
           Range(new) \cap added = {},
           \A i, j \in DOMAIN new : new[i] = new[j] => i = j,
           \A x \in Tasks : \/ promise'[x] = promise[x]
                            \/ x \in Range(new) /\ promise'[x] = "pending",
           UNCHANGED <<pc, task, finished>>
    PROVE  NoTaskTwice' /\ PromisesInPlace'
<1> USE DEF TaskInv
<1>1. Range(tasks') = Range(tasks) \cup Range(new)
  BY RangeOfQueue DEF Enqueue, TypeOK
<1>2. NoTaskTwice'
  <2>1. Range(tasks) \cap Range(new) = {}
    BY DEF AddedTasksAreSomewhere
  <2>2. \A i, j \in DOMAIN tasks' : tasks'[i] = tasks'[j] => i = j
    BY <2>1, DistinctConcat DEF Enqueue, TypeOK, NoTaskTwice
  <2>3. Range(new) \cap finished = {}
    BY DEF AddedTasksAreSomewhere
  <2>4. \A w \in Workers : pc[w] = "running" => task[w] \notin Range(new)
    BY DEF AddedTasksAreSomewhere
  <2> QED
    BY <1>1, <2>2, <2>3, <2>4 DEF NoTaskTwice
<1>3. PromisesInPlace'
  <2>1. \A c \in Clients : pc[c] # "gone"
    BY DEF MayCall, SleepersAndTasksInPlace, PromisesInPlace
  <2> QED
    BY <1>1, <2>1 DEF PromisesInPlace
<1> QED
  BY <1>2, <1>3

\* The head of the loop moves the first task of the queue into the hands of w.
LEMMA LoopHeadTaskInv ==
    ASSUME TaskInv, NEW w \in Workers, pc[w] \in {"test", "returned"},
           NEW working, LoopHead(w, working), UNCHANGED <<promise, finished>>
    PROVE  NoTaskTwice' /\ PromisesInPlace'
<1> USE DEF TaskInv
<1>1. /\ w \in Threads /\ w \notin Clients
      /\ \A x \in Workers \ {w} : pc'[x] = pc[x] /\ task'[x] = task[x]
      /\ \A c \in Clients : pc'[c] = pc[c]
  BY ClientsAssumption DEF Threads, TypeOK, LoopHead, LeaveLoop, Sleep, Take
<1>2. \A c \in Clients : pc[c] # "gone"
  BY DEF PromisesInPlace
<1>3. CASE tasks' = tasks /\ pc'[w] # "running"
  <2>1. NoTaskTwice'
    BY <1>1, <1>3 DEF NoTaskTwice
  <2>2. PromisesInPlace'
    BY <1>1, <1>2, <1>3 DEF PromisesInPlace
  <2> QED
    BY <2>1, <2>2
<1>4. CASE /\ tasks # <<>> /\ tasks' = Tail(tasks)
           /\ pc'[w] = "running" /\ task'[w] = Head(tasks)
  <2>1. Range(tasks) = {Head(tasks)} \cup Range(tasks')
    BY <1>4, RangeOfQueue DEF TypeOK
  <2>2. /\ Head(tasks) \notin Range(tasks')
        /\ \A i, j \in DOMAIN tasks' : tasks'[i] = tasks'[j] => i = j
    BY <1>4, DistinctTail DEF TypeOK, NoTaskTwice
  <2>3. NoTaskTwice'
    BY <1>1, <1>4, <2>1, <2>2 DEF NoTaskTwice
  <2>4. PromisesInPlace'
    BY <1>1, <1>2, <1>4, <2>1 DEF PromisesInPlace
  <2> QED
    BY <2>3, <2>4
<1> QED
  BY <1>1, <1>3, <1>4 DEF LoopHead, LeaveLoop, Sleep, Take, TypeOK

\* A task returns: it has finished, and set the value of its promise.
LEMMA TaskReturnsTaskInv ==
    ASSUME TaskInv, NEW w \in Workers, task_returns(w)
    PROVE  NoTaskTwice' /\ PromisesInPlace'
<1> USE DEF TaskInv
<1>1. /\ UNCHANGED <<tasks, task, added>>
      /\ pc[w] = "running" /\ pc'[w] = "returned"
      /\ \A x \in Workers \ {w} : pc'[x] = pc[x]
      /\ \A c \in Clients : pc'[c] = pc[c]
      /\ finished' = finished \cup {task[w]}
      /\ task[w] \in Tasks
  BY ClientsAssumption
  DEF task_returns, SetValue, poolVars, TypeOK, Threads, SleepersAndTasksInPlace, Working
<1>2. /\ \A t \in Tasks \ {task[w]} : promise'[t] = promise[t]
      /\ promise'[task[w]] =
            IF promise[task[w]] = "pending" THEN "ready" ELSE promise[task[w]]
  BY <1>1 DEF task_returns, SetValue, TypeOK
<1>3. NoTaskTwice'
  BY <1>1 DEF NoTaskTwice
<1>4. \A c \in Clients : pc[c] # "gone"
  BY <1>1 DEF PromisesInPlace
<1>5. PromisesInPlace'
  BY <1>1, <1>2, <1>4 DEF PromisesInPlace
<1> QED
  BY <1>3, <1>5

\* The destructor breaks the promises of the tasks that are still queued.
LEMMA DestroyJoinTaskInv ==
    ASSUME TaskInv, NEW c \in Clients, destroy_join(c)
    PROVE  NoTaskTwice' /\ PromisesInPlace'
<1> USE DEF TaskInv
<1>1. /\ UNCHANGED <<task, added, finished>>
      /\ \A w \in Workers : pc'[w] = pc[w] /\ pc[w] = "exited"
      /\ tasks' = <<>> /\ Range(tasks') = {} /\ DOMAIN tasks' = {}
  BY ClientsAssumption DEF destroy_join, TypeOK, Threads, Range
<1>2. \E d \in Clients : pc'[d] = "gone"
  BY DEF destroy_join, TypeOK, Threads
<1>3. \A t \in Tasks : promise'[t] =
         IF t \in Range(tasks) /\ promise[t] = "pending"
         THEN "broken" ELSE promise[t]
  BY DEF destroy_join
<1>4. NoTaskTwice'
  BY <1>1 DEF NoTaskTwice
<1>5. \A t \in Tasks : promise'[t] # "pending"
  BY <1>1, <1>3 DEF PromisesInPlace
<1>6. \A t \in Tasks : promise'[t] = "broken" => t \notin finished
  BY <1>3 DEF PromisesInPlace, NoTaskTwice
<1>7. \A t \in Tasks : promise'[t] = "ready" => t \in finished
  BY <1>3 DEF PromisesInPlace
<1>8. PromisesInPlace'
  BY <1>1, <1>2, <1>5, <1>6, <1>7 DEF PromisesInPlace
<1> QED
  BY <1>4, <1>8

LEMMA NextTaskInv == TaskInv /\ [Next]_vars => NoTaskTwice' /\ PromisesInPlace'
<1> SUFFICES ASSUME TaskInv, [Next]_vars PROVE NoTaskTwice' /\ PromisesInPlace'
  OBVIOUS
<1> DEFINE Goal == NoTaskTwice' /\ PromisesInPlace'
<1>1. ASSUME NEW t \in Threads, NEW new \in Tasks, add_task(t, new)
      PROVE  Goal
  BY <1>1, OneTaskIsNew, EnqueueTaskInv DEF add_task
<1>2. ASSUME NEW t \in Threads, NEW new \in Tasks, async(t, new)
      PROVE  Goal
  <2>1. \A x \in Tasks : \/ promise'[x] = promise[x]
                         \/ x \in Range(<<new>>) /\ promise'[x] = "pending"
    BY <1>2, OneTaskIsNew DEF async, TaskInv, TypeOK
  <2> QED
    BY <1>2, <2>1, OneTaskIsNew, EnqueueTaskInv DEF async
<1>3. ASSUME NEW t \in Threads, NEW new \in Batches, add_tasks(t, new)
      PROVE  Goal
  BY <1>3, BatchesAreSequences, BatchesAreNew, EnqueueTaskInv
  DEF add_tasks, NotifyAllWorkers
<1>4. ASSUME NEW c \in Clients, wait_enter(c) \/ wait_test(c) \/ destroy_stop(c)
      PROVE  Goal
  <2>1. /\ UNCHANGED <<tasks, task, promise, finished>>
        /\ \A w \in Workers : pc'[w] = pc[w]
        /\ \A d \in Clients : pc[d] = "gone" <=> pc'[d] = "gone"
    BY <1>4, ClientsAssumption
    DEF TaskInv, wait_enter, wait_test, destroy_stop, NotifyAllWorkers, MayCall, TypeOK, Threads
  <2>2. NoTaskTwice'
    BY <2>1 DEF TaskInv, NoTaskTwice
  <2>3. PromisesInPlace'
    BY <2>1 DEF TaskInv, PromisesInPlace
  <2> QED
    BY <2>2, <2>3
<1>5. ASSUME NEW w \in Workers, work_awake(w) \/ work_returned(w)
      PROVE  Goal
  BY <1>5, LoopHeadTaskInv DEF work_awake, work_returned
<1>6. CASE UNCHANGED <<tasks, pc, task, promise, finished>>
  BY <1>6 DEF TaskInv, NoTaskTwice, PromisesInPlace
<1>7. ASSUME NEW t \in Threads, spurious_wakeup(t)
      PROVE  UNCHANGED <<tasks, pc, task, promise, finished>>
  BY <1>7 DEF spurious_wakeup, poolVars
<1>8. CASE UNCHANGED vars
  BY <1>6, <1>8 DEF vars, poolVars
<1> QED
  BY <1>1, <1>2, <1>3, <1>4, <1>5, <1>6, <1>7, <1>8, TaskReturnsTaskInv, DestroyJoinTaskInv
  DEF Next, ClientStep, WorkerStep

LEMMA TasksAndPromises == Spec => [](NoTaskTwice /\ PromisesInPlace)
<1>1. IInv /\ AddedTasksAreSomewhere /\ NoTaskTwice /\ PromisesInPlace => TaskInv
  BY DEF IInv, TaskInv
<1> QED
  BY <1>1, InitTaskInv, NextTaskInv, Invariance, NothingGetsLost, PTL DEF Spec

\* No task is queued twice, is queued again while or after it runs, or is run
\* by two workers.
THEOREM TasksRunOnce == Spec => []NoTaskTwice
BY TasksAndPromises, PTL

\* When the pool has been destroyed, every future that async() returned has
\* its value, or the exception of a promise that was broken.
THEOREM NoFutureWaitsForever == Spec => []NoPromisePendingAfterDestruction
<1>1. NoTaskTwice /\ PromisesInPlace => NoPromisePendingAfterDestruction
  <2> SUFFICES ASSUME PromisesInPlace, \E c \in Clients : pc[c] = "gone",
                      NEW t \in Tasks
               PROVE  /\ promise[t] # "pending"
                      /\ promise[t] = "broken" => t \notin finished
                      /\ promise[t] = "ready" => t \in finished
    BY DEF NoPromisePendingAfterDestruction
  <2>1. Range(tasks) = {} /\ \A w \in Workers : pc[w] = "exited"
    BY DEF PromisesInPlace, Range
  <2> QED
    BY <2>1 DEF PromisesInPlace
<1> QED
  BY <1>1, TasksAndPromises, PTL

-----------------------------------------------------------------------------
(* The refinement of TaskPool: every step is a step of TaskPool, or leaves *)
(* alone all that TaskPool speaks of.                                      *)

RunningTasks == {task[w] : w \in {x \in Workers : pc[x] = "running"}}

AbstractStep == Abstract!Next \/ UNCHANGED Abstract!vars

AbstractInv == IInv /\ AddedTasksAreSomewhere /\ NoTaskTwice

\* The operators TaskPool has from the libraries are the ones of this module.
LEMMA SameOperators ==
    ASSUME NEW S, NEW T, NEW f
    PROVE  /\ Abstract!Cardinality(S) = Cardinality(S)
           /\ Abstract!Range(f) = Range(f)
           /\ Abstract!Injection(S, T) = Injection(S, T)
<1>1. Abstract!Cardinality(S) = Cardinality(S)
  BY DEF Abstract!Cardinality, Cardinality
<1>2. Abstract!Range(f) = Range(f)
  BY DEF Abstract!Range, Range
<1>3. Abstract!Injection(S, T) = Injection(S, T)
  BY DEF Abstract!Injection, Injection, Abstract!IsInjective, IsInjective
<1> QED
  BY <1>1, <1>2, <1>3

\* In an idle pool nothing is queued or runs.
LEMMA IdlePool ==
    ASSUME AbstractInv, ~Busy
    PROVE  tasks = <<>> /\ RunningTasks = {}
<1>1. TypeOK
  BY DEF AbstractInv, IInv
<1>2. threads_working \in Nat
  BY <1>1, FS_CardinalityType, WorkersAssumption DEF TypeOK
<1>3. tasks = <<>> /\ threads_working = 0
  BY <1>2 DEF Busy
<1>4. WorkingWorkers = {}
  BY <1>1, <1>3, Sizes, FS_EmptySet DEF AbstractInv, IInv, WorkingIsExact
<1> QED
  BY <1>3, <1>4 DEF RunningTasks, WorkingWorkers, Working

\* While a worker is not running a task there is room for one more.
LEMMA RoomForOneMore ==
    ASSUME TypeOK, NEW w \in Workers, pc[w] # "running"
    PROVE  Cardinality(RunningTasks) < Cardinality(Workers)
<1> DEFINE R == {x \in Workers : pc[x] = "running"}
           f == [x \in R |-> task[x]]
<1>1. R \in SUBSET (Workers \ {w})
  OBVIOUS
<1>2. /\ IsFiniteSet(Workers \ {w})
      /\ Cardinality(Workers \ {w}) = Cardinality(Workers) - 1
  BY WorkersAssumption, FS_RemoveElement
<1>3. IsFiniteSet(R) /\ Cardinality(R) <= Cardinality(Workers) - 1
  BY <1>1, <1>2, FS_Subset
<1>4. RunningTasks = {f[x] : x \in R}
  BY DEF RunningTasks
<1>5. /\ IsFiniteSet(RunningTasks)
      /\ Cardinality(RunningTasks) <= Cardinality(R)
  <2>1. f \in Surjection(R, RunningTasks)
    BY <1>4 DEF Surjection
  <2> QED
    BY <1>3, <2>1, FS_Surjection
<1>6. /\ Cardinality(RunningTasks) \in Nat /\ Cardinality(R) \in Nat
      /\ Cardinality(Workers) \in Nat
  BY <1>3, <1>5, WorkersAssumption, FS_CardinalityType
<1> QED
  BY <1>3, <1>5, <1>6

\* Adding tasks, one or several, is a Submit; adding none changes nothing.
LEMMA EnqueueRefines ==
    ASSUME AbstractInv, NEW t \in Threads, MayCall(t),
           NEW n \in 0..MaxBatch, NEW new \in [1..n -> Tasks \ added],
           \A i, j \in DOMAIN new : new[i] = new[j] => i = j,
           Enqueue(new), UNCHANGED <<stop, pc, task, finished>>
    PROVE  AbstractStep
<1>1. TypeOK
  BY DEF AbstractInv, IInv
<1>2. n \in Nat /\ new \in [1..n -> Tasks] /\ new \in Seq(Tasks)
  BY BatchAssumption, SeqDef
<1>3. /\ RunningTasks' = RunningTasks
      /\ WaitingClients' = WaitingClients
      /\ tasks' = tasks \o new
  BY DEF RunningTasks, WaitingClients, Enqueue
<1>4. CASE n = 0
  <2>1. new = <<>>
    BY <1>2, <1>4, EmptySeq
  <2>2. tasks' = tasks
    BY <1>1, <1>3, <2>1, ConcatEmptySeq DEF TypeOK
  <2> QED
    BY <1>3, <2>2 DEF AbstractStep, Abstract!vars, RunningTasks
<1>5. CASE n # 0
  <2>1. n \in 1..MaxBatch /\ new \in Injection(1..n, Tasks)
    BY <1>2, <1>5, BatchAssumption DEF Injection, IsInjective
  <2>2. ~stop \/ RunningTasks # {}
    BY DEF MayCall, RunningTasks
  <2>3. Range(new) \cap (Range(tasks) \cup RunningTasks \cup finished) = {}
    <3>1. Range(new) \cap added = {}
      BY DEF Range
    <3>2. RunningTasks \subseteq added /\ Range(tasks) \subseteq added
          /\ finished \subseteq added
      BY DEF RunningTasks, AbstractInv, AddedTasksAreSomewhere
    <3> QED
      BY <3>1, <3>2
  <2>4. Abstract!Submit
    BY <1>3, <2>1, <2>2, <2>3, SameOperators DEF Abstract!Submit, RunningTasks
  <2> QED
    BY <2>4 DEF AbstractStep, Abstract!Next
<1> QED
  BY <1>4, <1>5

\* Adding a single task.
LEMMA EnqueueOneRefines ==
    ASSUME AbstractInv, NEW t \in Threads, MayCall(t),
           NEW new \in Tasks \ added,
           Enqueue(<<new>>), UNCHANGED <<stop, pc, task, finished>>
    PROVE  AbstractStep
<1>1. 1 \in 0..MaxBatch
  BY BatchAssumption
<1>2. <<new>> \in [1..1 -> Tasks \ added]
  OBVIOUS
<1>3. \A i, j \in DOMAIN <<new>> : <<new>>[i] = <<new>>[j] => i = j
  BY OneTaskIsNew
<1> QED
  BY <1>1, <1>2, <1>3, EnqueueRefines

\* At the head of the loop a worker starts a task or does nothing abstract.
LEMMA LoopHeadRefines ==
    ASSUME AbstractInv, NEW w \in Workers, pc[w] \in {"test", "returned"},
           NEW working, LoopHead(w, working), UNCHANGED <<stop, finished>>
    PROVE  AbstractStep
<1>1. TypeOK
  BY DEF AbstractInv, IInv
<1>2. /\ w \in Threads /\ w \notin Clients
      /\ \A x \in Workers \ {w} : pc'[x] = pc[x] /\ task'[x] = task[x]
      /\ \A c \in Clients : pc'[c] = pc[c]
      /\ WaitingClients' = WaitingClients
  BY <1>1, ClientsAssumption
  DEF Threads, TypeOK, LoopHead, LeaveLoop, Sleep, Take, WaitingClients
<1>3. CASE tasks' = tasks /\ pc'[w] # "running"
  <2>1. RunningTasks' = RunningTasks
    BY <1>2, <1>3 DEF RunningTasks
  <2> QED
    BY <1>2, <1>3, <2>1 DEF AbstractStep, Abstract!vars, RunningTasks
<1>4. CASE /\ ~stop /\ tasks # <<>> /\ tasks' = Tail(tasks)
           /\ pc'[w] = "running" /\ task'[w] = Head(tasks)
  <2>1. RunningTasks' = RunningTasks \cup {Head(tasks)}
    BY <1>2, <1>4 DEF RunningTasks
  <2>2. Cardinality(RunningTasks) < Cardinality(Workers)
    BY <1>1, RoomForOneMore
  <2>3. Abstract!Start
    BY <1>2, <1>4, <2>1, <2>2, SameOperators DEF Abstract!Start, RunningTasks
  <2> QED
    BY <2>3 DEF AbstractStep, Abstract!Next
<1> QED
  BY <1>1, <1>2, <1>3, <1>4 DEF LoopHead, LeaveLoop, Sleep, Take, TypeOK

\* A task that returns has finished.
LEMMA TaskReturnsRefines ==
    ASSUME AbstractInv, NEW w \in Workers, task_returns(w)
    PROVE  AbstractStep
<1>1. TypeOK
  BY DEF AbstractInv, IInv
<1>2. /\ UNCHANGED <<tasks, task, stop>>
      /\ pc[w] = "running" /\ pc'[w] = "returned"
      /\ \A x \in Workers \ {w} : pc'[x] = pc[x]
      /\ \A c \in Clients : pc'[c] = pc[c]
      /\ finished' = finished \cup {task[w]}
      /\ task[w] \in Tasks
  BY <1>1, ClientsAssumption
  DEF task_returns, SetValue, poolVars, TypeOK, Threads, AbstractInv, IInv,
      SleepersAndTasksInPlace, Working
<1>3. /\ task[w] \in RunningTasks
      /\ RunningTasks' = RunningTasks \ {task[w]}
  BY <1>2 DEF RunningTasks, AbstractInv, NoTaskTwice
<1>4. WaitingClients' = WaitingClients
  BY <1>2 DEF WaitingClients
<1>5. PICK t \in Tasks : t = task[w]
  BY <1>2
<1>6. Abstract!Finish(t)
  BY <1>2, <1>3, <1>4, <1>5 DEF Abstract!Finish, RunningTasks
<1> QED
  BY <1>6 DEF AbstractStep, Abstract!Next

\* A client gets into wait() of an open pool and out of an idle one.
LEMMA WaitRefines ==
    ASSUME AbstractInv, NEW c \in Clients, wait_enter(c) \/ wait_test(c)
    PROVE  AbstractStep
<1>1. TypeOK /\ c \in Threads /\ c \notin Workers
  BY ClientsAssumption DEF AbstractInv, IInv, Threads
<1>2. /\ UNCHANGED <<tasks, task, stop, finished>>
      /\ \A w \in Workers : pc'[w] = pc[w]
      /\ \A d \in Clients \ {c} : pc'[d] = pc[d]
  BY <1>1, ClientsAssumption DEF TypeOK, wait_enter, wait_test, Threads
<1>3. RunningTasks' = RunningTasks
  BY <1>2 DEF RunningTasks
<1>4. CASE pc' = pc
  BY <1>2, <1>3, <1>4 DEF AbstractStep, Abstract!vars, RunningTasks, WaitingClients
<1>5. CASE wait_enter(c) /\ pc'[c] = "waiting"
  <2>1. ~stop
    BY <1>1, <1>5 DEF wait_enter, MayCall
  <2>2. WaitingClients' = WaitingClients \cup {c}
    BY <1>2, <1>5 DEF WaitingClients
  <2>3. Abstract!Enter(c)
    BY <1>2, <1>3, <2>1, <2>2 DEF Abstract!Enter, RunningTasks
  <2> QED
    BY <2>3 DEF AbstractStep, Abstract!Next
<1>6. CASE wait_test(c) /\ ~Busy /\ pc'[c] = "idle"
  <2>1. c \in WaitingClients /\ WaitingClients' = WaitingClients \ {c}
    BY <1>2, <1>6 DEF wait_test, WaitingClients
  <2>2. tasks = <<>> /\ RunningTasks = {}
    BY <1>6, IdlePool
  <2>3. Abstract!Leave(c)
    BY <1>2, <1>3, <2>1, <2>2 DEF Abstract!Leave, RunningTasks
  <2> QED
    BY <2>3 DEF AbstractStep, Abstract!Next
<1> QED
  BY <1>1, <1>4, <1>5, <1>6 DEF wait_enter, wait_test, TypeOK

\* The destructor closes the pool, then drops what is queued.
LEMMA DestroyRefines ==
    ASSUME AbstractInv, NEW c \in Clients, destroy_stop(c) \/ destroy_join(c)
    PROVE  AbstractStep
<1>1. TypeOK /\ c \in Threads /\ c \notin Workers
  BY ClientsAssumption DEF AbstractInv, IInv, Threads
<1>2. /\ UNCHANGED <<task, finished>>
      /\ \A w \in Workers : pc'[w] = pc[w]
      /\ \A d \in Clients \ {c} : pc'[d] = pc[d]
      /\ pc[c] # "waiting" /\ pc'[c] # "waiting"
  BY <1>1, ClientsAssumption DEF TypeOK, destroy_stop, destroy_join, Threads
<1>3. RunningTasks' = RunningTasks /\ WaitingClients' = WaitingClients
  BY <1>2 DEF RunningTasks, WaitingClients
<1>4. CASE destroy_stop(c)
  <2>1. ~stop /\ stop' /\ tasks' = tasks /\ WaitingClients = {}
    BY <1>4 DEF destroy_stop, WaitingClients
  <2>2. stop' = TRUE /\ (~stop)' = FALSE
    BY <1>4 DEF destroy_stop
  <2>3. Abstract!Close
    BY <1>2, <1>3, <2>1, <2>2 DEF Abstract!Close, RunningTasks
  <2> QED
    BY <2>3 DEF AbstractStep, Abstract!Next
<1>5. CASE destroy_join(c)
  <2>1. RunningTasks = {} /\ tasks' = <<>> /\ stop' = stop
    BY <1>5 DEF destroy_join, RunningTasks
  <2>2. stop
    BY <1>5 DEF destroy_join, AbstractInv, IInv, SleepersAndTasksInPlace
  <2>3. CASE tasks = <<>>
    BY <1>2, <1>3, <2>1, <2>3 DEF AbstractStep, Abstract!vars, RunningTasks
  <2>4. CASE tasks # <<>>
    <3>1. Abstract!Drop
      BY <1>2, <1>3, <2>1, <2>2, <2>4 DEF Abstract!Drop, RunningTasks
    <3> QED
      BY <3>1 DEF AbstractStep, Abstract!Next
  <2> QED
    BY <2>3, <2>4
<1> QED
  BY <1>4, <1>5

LEMMA InitRefines == Init => Abstract!Init
<1> SUFFICES ASSUME Init PROVE Abstract!Init
  OBVIOUS
<1>1. tasks = <<>> /\ finished = {} /\ ~stop
  BY DEF Init
<1>2. RunningTasks = {} /\ WaitingClients = {}
  BY ClientsAssumption DEF Init, RunningTasks, WaitingClients, Threads
<1>3. (~stop) = TRUE
  BY <1>1
<1> QED
  BY <1>1, <1>2, <1>3 DEF Abstract!Init, RunningTasks

LEMMA NextRefines == AbstractInv /\ [Next]_vars => [Abstract!Next]_(Abstract!vars)
<1> SUFFICES ASSUME AbstractInv, [Next]_vars PROVE AbstractStep
  BY DEF AbstractStep
<1>1. ASSUME NEW t \in Threads, NEW new \in Tasks,
             add_task(t, new) \/ async(t, new)
      PROVE  AbstractStep
  BY <1>1, EnqueueOneRefines DEF add_task, async
<1>2. ASSUME NEW t \in Threads, NEW new \in Batches, add_tasks(t, new)
      PROVE  AbstractStep
  <2>1. PICK n \in 0..MaxBatch : new \in [1..n -> Tasks \ added]
    BY DEF Batches
  <2> QED
    BY <1>2, <2>1, BatchesAreNew, EnqueueRefines DEF add_tasks, NotifyAllWorkers
<1>3. ASSUME NEW w \in Workers, work_awake(w) \/ work_returned(w)
      PROVE  AbstractStep
  BY <1>3, LoopHeadRefines DEF work_awake, work_returned
<1>4. ASSUME NEW t \in Threads, spurious_wakeup(t) \/ UNCHANGED vars
      PROVE  AbstractStep
  BY <1>4
  DEF spurious_wakeup, poolVars, vars, AbstractStep, Abstract!vars, WaitingClients
<1>5. CASE UNCHANGED vars
  BY <1>5 DEF poolVars, vars, AbstractStep, Abstract!vars, WaitingClients
<1> QED
  BY <1>1, <1>2, <1>3, <1>4, <1>5, WaitRefines, DestroyRefines, TaskReturnsRefines
  DEF Next, ClientStep, WorkerStep

\* The pool does what TaskPool allows and nothing else, whatever the number
\* of its workers and of the threads that use it: tasks start in the order
\* they were added in, no more of them at a time than there are workers, each
\* once; wait() is left in an idle pool only; closing drops what is queued.
THEOREM PoolRefinesTaskPool == Spec => StepsOfTaskPool
<1>1. IInv /\ AddedTasksAreSomewhere /\ NoTaskTwice => AbstractInv
  BY DEF AbstractInv
<1> QED
  BY <1>1, InitRefines, NextRefines, Invariance, NothingGetsLost, TasksRunOnce, PTL
  DEF Spec, StepsOfTaskPool, Abstract!SafetySpec
=============================================================================

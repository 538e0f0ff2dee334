------------------------------ MODULE Barrier ------------------------------
(***************************************************************************)
(* lib/concurrency/barrier.h: num_threads arrivals make a round; those who *)
(* wait are let go when their round is complete.  A barrier is used again  *)
(* for the next round at once, while threads of the last one have been     *)
(* notified but not yet run, which is what generation_ is for.             *)
(*                                                                         *)
(* All fields are guarded by mutex_, so a critical section is one action.  *)
(***************************************************************************)
EXTENDS Naturals, FiniteSets

CONSTANTS
    Threads,        \* threads that use the barrier
    OnlyArrive,     \* those of them that call arrive(); the others wait too
    NumThreads,     \* num_threads_
    Width,          \* generation_ is an unsigned int: it counts modulo Width
    MaxArrivals     \* bound: arrivals over the life of the barrier

ASSUME ThreadsAssumption == IsFiniteSet(Threads) /\ OnlyArrive \subseteq Threads
ASSUME NumThreadsAssumption == NumThreads \in Nat \ {0}  \* assert() of Barrier()
ASSUME WidthAssumption == Width \in Nat \ {0, 1}
ASSUME BoundAssumption == MaxArrivals \in Nat

VARIABLES
    arrived,             \* arrived_
    generation,          \* generation_
    condition,           \* threads asleep on condition_
    waiting,             \* threads inside arrive_and_wait()
    current_generation,  \* the local variable of arrive_and_wait()
    arrivals,            \* history: number of arrivals so far
    rounds,              \* history: number of complete rounds
    round                \* history: the round a thread last arrived in

vars == <<arrived, generation, condition, waiting, current_generation,
          arrivals, rounds, round>>

TypeOK ==
    /\ arrived \in 0..(NumThreads - 1)
    /\ generation \in 0..(Width - 1)
    /\ condition \subseteq waiting
    /\ waiting \subseteq Threads \ OnlyArrive
    /\ current_generation \in [Threads -> 0..(Width - 1)]
    /\ arrivals \in 0..MaxArrivals
    /\ rounds \in 0..MaxArrivals
    /\ round \in [Threads -> 0..MaxArrivals]

Init ==
    /\ arrived = 0
    /\ generation = 0
    /\ condition = {}
    /\ waiting = {}
    /\ current_generation = [t \in Threads |-> 0]
    /\ arrivals = 0
    /\ rounds = 0
    /\ round = [t \in Threads |-> 0]

-----------------------------------------------------------------------------

Arrive(t) ==
    /\ t \notin waiting
    /\ arrivals < MaxArrivals
    /\ arrivals' = arrivals + 1
    /\ round' = [round EXCEPT ![t] = rounds]

\* The arrival that makes a round complete starts the next one and notifies
\* everybody.
IsLast == arrived + 1 = NumThreads

\* Mutant: notify_one().
NotifyOne ==
    IF condition = {}
    THEN UNCHANGED condition
    ELSE \E t \in condition : condition' = condition \ {t}

NotifyAll == condition' = {}

CompleteRound ==
    /\ arrived' = 0
    /\ generation' = (generation + 1) % Width
    /\ rounds' = rounds + 1
    /\ NotifyAll

\* Up to the point where the thread returns or goes to sleep: no other
\* thread can have changed generation_ when it is tested first.
arrive_and_wait(t) ==
    /\ Arrive(t)
    /\ \/ /\ IsLast
          /\ CompleteRound
          /\ UNCHANGED <<waiting, current_generation>>
       \/ /\ ~IsLast
          /\ arrived' = arrived + 1
          /\ current_generation' = [current_generation EXCEPT ![t] = generation]
          /\ waiting' = waiting \cup {t}
          /\ condition' = condition \cup {t}
          /\ UNCHANGED <<generation, rounds>>

\* Mutant: if instead of while.
TestedOnce(t) == FALSE

\* A thread that woke up tests generation_ again.
SameGeneration(t) == current_generation[t] = generation

wait_test(t) ==
    /\ t \in waiting \ condition
    /\ \/ /\ SameGeneration(t)
          /\ condition' = condition \cup {t}
          /\ UNCHANGED waiting
       \/ /\ ~SameGeneration(t)
          /\ waiting' = waiting \ {t}
          /\ UNCHANGED condition
    /\ UNCHANGED <<arrived, generation, current_generation, arrivals, rounds,
                   round>>

arrive(t) ==
    /\ Arrive(t)
    /\ \/ /\ IsLast
          /\ CompleteRound
       \/ /\ ~IsLast
          /\ arrived' = arrived + 1
          /\ UNCHANGED <<generation, rounds, condition>>
    /\ UNCHANGED <<waiting, current_generation>>

spurious_wakeup(t) ==
    /\ t \in condition
    /\ condition' = condition \ {t}
    /\ UNCHANGED <<arrived, generation, waiting, current_generation, arrivals,
                   rounds, round>>

Next ==
    \/ \E t \in Threads \ OnlyArrive : arrive_and_wait(t)
    \/ \E t \in OnlyArrive : arrive(t)
    \/ \E t \in Threads : wait_test(t)
    \/ \E t \in Threads : spurious_wakeup(t)

Spec == Init /\ [][Next]_vars

\* A thread that has been woken up gets to run; nobody has to arrive.
FairSpec == Spec /\ \A t \in Threads : WF_vars(wait_test(t))

-----------------------------------------------------------------------------
(* Properties.                                                             *)

\* Nobody sleeps through the end of its round: who is asleep arrived in the
\* round that is still open, so the arrival that completes it will notify.
NobodySleepsThrough ==
    \A t \in condition : SameGeneration(t) /\ round[t] = rounds

\* A thread that waits arrived in this round or an earlier one, and as long
\* as the round is the same the generation is.
WaitersKnowTheirRound ==
    \A t \in waiting :
        /\ round[t] <= rounds
        /\ round[t] = rounds => SameGeneration(t)

\* A thread leaves arrive_and_wait() only when its round is complete, however
\* it was woken up.
BarrierHolds ==
    [][\A t \in waiting : t \notin waiting' => round[t] < rounds]_vars

\* When a round is complete, those who wait for it get on.
RoundEnds ==
    \A t \in Threads :
        (t \in waiting /\ round[t] < rounds) ~> t \notin waiting
=============================================================================

--------------------------- MODULE BarrierProofs ---------------------------
(***************************************************************************)
(* A barrier never lets a thread go before its round is complete: for any  *)
(* number of threads and of arrivals, arrive() and arrive_and_wait() in    *)
(* any order, and whatever the width of generation_.  And as long as           *)
(* generation_ has not come round, nobody sleeps through the end of its    *)
(* round either.                                                           *)
(***************************************************************************)
EXTENDS Barrier, TLAPS

\* The types the argument needs.
Shape ==
    /\ rounds \in Nat
    /\ waiting \subseteq Threads
    /\ round \in [Threads -> Nat]
    /\ current_generation \in [Threads -> Nat]
    /\ generation \in Nat

IInv == Shape /\ WaitersKnowTheirRound

LEMMA InitIInv == Init => IInv
  BY DEF Init, IInv, Shape, WaitersKnowTheirRound

LEMMA WidthIsPositive == \A n \in Nat : n % Width \in Nat
  BY WidthAssumption

LEMMA NextIInv == IInv /\ [Next]_vars => IInv'
<1> SUFFICES ASSUME IInv, [Next]_vars PROVE IInv'
  OBVIOUS
<1>1. ASSUME NEW t \in Threads, arrive_and_wait(t) PROVE IInv'
  <2>1. CASE CompleteRound /\ UNCHANGED <<waiting, current_generation>>
    <3>1. Shape'
      BY <1>1, <2>1, WidthIsPositive
      DEF IInv, Shape, arrive_and_wait, Arrive, CompleteRound
    <3>2. WaitersKnowTheirRound'
      BY <1>1, <2>1
      DEF IInv, Shape, WaitersKnowTheirRound, arrive_and_wait, Arrive,
          CompleteRound
    <3> QED
      BY <3>1, <3>2 DEF IInv
  <2>2. CASE /\ current_generation' =
                   [current_generation EXCEPT ![t] = generation]
             /\ waiting' = waiting \cup {t}
             /\ UNCHANGED <<generation, rounds>>
    BY <1>1, <2>2
    DEF IInv, Shape, WaitersKnowTheirRound, arrive_and_wait, Arrive,
        SameGeneration
  <2> QED
    BY <1>1, <2>1, <2>2 DEF arrive_and_wait
<1>2. ASSUME NEW t \in Threads, arrive(t) PROVE IInv'
  <2>1. Shape'
    BY <1>2, WidthIsPositive DEF IInv, Shape, arrive, Arrive, CompleteRound
  <2>2. WaitersKnowTheirRound'
    BY <1>2
    DEF IInv, Shape, WaitersKnowTheirRound, arrive, Arrive, CompleteRound,
        SameGeneration
  <2> QED
    BY <2>1, <2>2 DEF IInv
<1>3. ASSUME NEW t \in Threads, wait_test(t) \/ spurious_wakeup(t) PROVE IInv'
  BY <1>3
  DEF IInv, Shape, WaitersKnowTheirRound, wait_test, spurious_wakeup,
      SameGeneration
<1>4. CASE UNCHANGED vars
  BY <1>4 DEF IInv, Shape, WaitersKnowTheirRound, SameGeneration, vars
<1> QED
  BY <1>1, <1>2, <1>3, <1>4, ThreadsAssumption DEF Next

\* A thread that leaves arrive_and_wait() does so after its round.
LEMMA LeavingStep ==
    IInv /\ [Next]_vars
        => [\A t \in waiting : t \notin waiting' => round[t] < rounds]_vars
<1> SUFFICES ASSUME IInv, [Next]_vars, NEW t \in waiting, t \notin waiting'
             PROVE  round[t] < rounds
  OBVIOUS
<1>1. ~SameGeneration(t)
  BY DEF Next, arrive_and_wait, arrive, Arrive, wait_test, spurious_wakeup, vars
<1>2. round[t] \in Nat /\ rounds \in Nat
  BY DEF IInv, Shape
<1> QED
  BY <1>1, <1>2 DEF IInv, WaitersKnowTheirRound

\* arrive_and_wait() does not return before num_threads_ threads have arrived
\* in the round of the caller.
THEOREM BarrierIsCorrect == Spec => BarrierHolds
  BY InitIInv, NextIInv, LeavingStep, PTL DEF Spec, BarrierHolds

-----------------------------------------------------------------------------
\* Every round takes an arrival at least.
Counted == TypeOK /\ rounds + arrived <= arrivals

LEMMA InitCounted == Init => Counted
  BY NumThreadsAssumption, WidthAssumption, BoundAssumption DEF Init, Counted, TypeOK

LEMMA WidthBounds == \A n \in Nat : n % Width \in 0..(Width - 1)
  BY WidthAssumption

\* What an arrival does to the counters, whoever arrives.
LEMMA ArrivalCounts ==
    ASSUME Counted, NEW t \in Threads, Arrive(t),
           \/ IsLast /\ CompleteRound
           \/ ~IsLast /\ arrived' = arrived + 1 /\ UNCHANGED <<generation, rounds>>
    PROVE  /\ arrived' \in 0..(NumThreads - 1)
           /\ generation' \in 0..(Width - 1)
           /\ arrivals' \in 0..MaxArrivals
           /\ rounds' \in 0..MaxArrivals
           /\ round' \in [Threads -> 0..MaxArrivals]
           /\ rounds' + arrived' <= arrivals'
<1>1. /\ arrivals' \in 0..MaxArrivals
      /\ round' \in [Threads -> 0..MaxArrivals]
  BY BoundAssumption DEF Counted, TypeOK, Arrive
<1>2. CASE IsLast /\ CompleteRound
  <2>1. generation' \in 0..(Width - 1)
    BY <1>2, WidthBounds, WidthAssumption DEF Counted, TypeOK, CompleteRound
  <2> QED
    BY <1>1, <1>2, <2>1, NumThreadsAssumption, BoundAssumption
    DEF Counted, TypeOK, Arrive, IsLast, CompleteRound
<1>3. CASE ~IsLast /\ arrived' = arrived + 1 /\ UNCHANGED <<generation, rounds>>
  BY <1>1, <1>3, NumThreadsAssumption, BoundAssumption
  DEF Counted, TypeOK, Arrive, IsLast
<1> QED
  BY <1>2, <1>3

LEMMA NextCounted == Counted /\ [Next]_vars => Counted'
<1> SUFFICES ASSUME Counted, [Next]_vars PROVE Counted'
  OBVIOUS
<1>1. ASSUME NEW t \in Threads \ OnlyArrive, arrive_and_wait(t) PROVE Counted'
  <2>1. /\ Arrive(t)
        /\ \/ IsLast /\ CompleteRound
           \/ ~IsLast /\ arrived' = arrived + 1 /\ UNCHANGED <<generation, rounds>>
    BY <1>1 DEF arrive_and_wait
  <2>2. /\ condition' \subseteq waiting'
        /\ waiting' \subseteq Threads \ OnlyArrive
        /\ current_generation' \in [Threads -> 0..(Width - 1)]
    BY <1>1 DEF Counted, TypeOK, arrive_and_wait, CompleteRound, NotifyAll
  <2> QED
    BY <2>1, <2>2, ArrivalCounts DEF Counted, TypeOK
<1>2. ASSUME NEW t \in OnlyArrive, arrive(t) PROVE Counted'
  <2>1. /\ Arrive(t)
        /\ \/ IsLast /\ CompleteRound
           \/ ~IsLast /\ arrived' = arrived + 1 /\ UNCHANGED <<generation, rounds>>
    BY <1>2 DEF arrive
  <2>2. /\ condition' \subseteq waiting'
        /\ waiting' \subseteq Threads \ OnlyArrive
        /\ current_generation' \in [Threads -> 0..(Width - 1)]
    BY <1>2 DEF Counted, TypeOK, arrive, CompleteRound, NotifyAll
  <2>3. t \in Threads
    BY ThreadsAssumption
  <2> QED
    BY <2>1, <2>2, <2>3, ArrivalCounts DEF Counted, TypeOK
<1>3. ASSUME NEW t \in Threads, wait_test(t) \/ spurious_wakeup(t) PROVE Counted'
  BY <1>3 DEF Counted, TypeOK, wait_test, spurious_wakeup
<1>4. CASE UNCHANGED vars
  BY <1>4 DEF Counted, TypeOK, vars
<1> QED
  BY <1>1, <1>2, <1>3, <1>4 DEF Next

\* arrived_ stays below num_threads_, and generation_ within its width.
THEOREM TypeCorrect == Spec => []TypeOK
<1>1. Counted => TypeOK
  BY DEF Counted
<1> QED
  BY <1>1, InitCounted, NextCounted, PTL DEF Spec

\* Before generation_ has come round it is the number of the round, so who
\* waits can tell whether its round is over.
GenerationIsRound ==
    /\ generation = rounds
    /\ \A t \in waiting : current_generation[t] = round[t]

SleepInv == Counted /\ GenerationIsRound /\ NobodySleepsThrough

LEMMA SmallModulo == \A n \in 0..(Width - 1) : n % Width = n
  BY WidthAssumption

LEMMA NextSleepInv ==
    MaxArrivals < Width => (SleepInv /\ [Next]_vars => SleepInv')
<1> SUFFICES ASSUME MaxArrivals < Width, SleepInv, [Next]_vars PROVE SleepInv'
  OBVIOUS
<1>0. Counted'
  BY NextCounted DEF SleepInv
<1>1. CompleteRound => generation' = rounds'
  <2> SUFFICES ASSUME CompleteRound PROVE generation' = rounds'
    OBVIOUS
  <2>1. generation + 1 = rounds'
    BY DEF SleepInv, GenerationIsRound, CompleteRound
  <2>2. rounds' \in 0..(Width - 1)
    BY <1>0, BoundAssumption, WidthAssumption DEF Counted, TypeOK
  <2> QED
    BY <2>1, <2>2, SmallModulo DEF CompleteRound
<1>2. GenerationIsRound' /\ NobodySleepsThrough'
  <2>1. ASSUME NEW t \in Threads, arrive_and_wait(t)
        PROVE  GenerationIsRound' /\ NobodySleepsThrough'
    BY <1>1, <2>1
    DEF SleepInv, Counted, TypeOK, GenerationIsRound, NobodySleepsThrough,
        SameGeneration, arrive_and_wait, Arrive, CompleteRound, NotifyAll
  <2>2. ASSUME NEW t \in Threads, arrive(t)
        PROVE  GenerationIsRound' /\ NobodySleepsThrough'
    BY <1>1, <2>2
    DEF SleepInv, Counted, TypeOK, GenerationIsRound, NobodySleepsThrough,
        SameGeneration, arrive, Arrive, CompleteRound, NotifyAll
  <2>3. ASSUME NEW t \in Threads, wait_test(t) \/ spurious_wakeup(t)
        PROVE  GenerationIsRound' /\ NobodySleepsThrough'
    BY <2>3
    DEF SleepInv, Counted, TypeOK, GenerationIsRound, NobodySleepsThrough,
        SameGeneration, wait_test, spurious_wakeup
  <2>4. CASE UNCHANGED vars
    BY <2>4
    DEF SleepInv, GenerationIsRound, NobodySleepsThrough, SameGeneration, vars
  <2> QED
    BY <2>1, <2>2, <2>3, <2>4, ThreadsAssumption DEF Next
<1> QED
  BY <1>0, <1>2 DEF SleepInv

\* As long as generation_ has not come round, the arrival that completes a
\* round wakes up everybody who waits for it.
THEOREM NobodySleepsOn ==
    ASSUME MaxArrivals < Width
    PROVE  Spec => []NobodySleepsThrough
<1>1. Init => SleepInv
  BY InitCounted DEF Init, SleepInv, GenerationIsRound, NobodySleepsThrough
<1>2. SleepInv => NobodySleepsThrough
  BY DEF SleepInv
<1>3. SleepInv /\ [Next]_vars => SleepInv'
  BY NextSleepInv
<1> QED
  BY <1>1, <1>2, <1>3, PTL DEF Spec
=============================================================================

---------------------------- MODULE MainLoopProofs ----------------------------
(***************************************************************************)
(* IInv of MainLoop is inductive, for any number of threads and timers:    *)
(* what is done to the loop from the outside is noticed, functions run in  *)
(* the order they were given to run_in(), and timers neither drift nor     *)
(* fire more or less often than they were started for.                     *)
(***************************************************************************)
EXTENDS MainLoop, FiniteSetTheorems, SequenceTheorems, TLAPS

-----------------------------------------------------------------------------
(* Least elements, and what is read from and written to descriptors.       *)

\* A set of natural numbers has a least element: the intervals up to its
\* elements cannot get smaller forever.
LEMMA LeastElement ==
    ASSUME NEW S, S \subseteq Nat, S # {}
    PROVE  \E m \in S : \A n \in S : m <= n
<1> DEFINE T == {1..n : n \in S}
           R == StrictSubsetOrdering(Nat)
<1>1. T \subseteq FiniteSubsetsOf(Nat) /\ T # {}
  <2>1. \A n \in S : IsFiniteSet(1..n) /\ 1..n \subseteq Nat
    BY FS_Interval
  <2> QED
    BY <2>1 DEF FiniteSubsetsOf
<1>2. PICK x \in T : \A y \in T : ~ (<<y, x>> \in R)
  <2>1. IsWellFoundedOn(R, FiniteSubsetsOf(Nat))
    BY FS_StrictSubsetOrderingWellFounded
  <2> HIDE DEF T, R
  <2> QED
    BY <1>1, <2>1, WFMin
<1>3. PICK m \in S : x = 1..m
  BY <1>2
<1>4. ASSUME NEW n \in S, n < m PROVE FALSE
  <2>1. 1..n \subseteq 1..m /\ m \in 1..m /\ m \notin 1..n
    BY <1>4
  <2>2. <<1..n, x>> \in R
    BY <1>3, <2>1, <1>4 DEF StrictSubsetOrdering
  <2> QED
    BY <1>2, <2>2
<1> QED
  BY <1>4

LEMMA MinIsElement ==
    ASSUME NEW S, S \subseteq Nat, S # {}
    PROVE  Min(S) \in S
BY LeastElement DEF Min

\* What timer_fd_ is armed for comes back from seconds and nanoseconds.
LEMMA TimerSetIsExact ==
    /\ \A e \in Nat : timer_set(e) = e
    /\ timer_disarm = 0
BY DEF timer_set, timer_disarm, timer_settime, time_spec_from_ns, Second

\* After a write an event can be read, whether it could before or not.
LEMMA WriteIsNoticed ==
    ASSUME NEW counter
    PROVE  event_write(counter, 1)
<1>1. 1 > 0
  OBVIOUS
<1> QED
  BY <1>1, Zenon DEF event_write

\* epoll_wait() fills in events that are ready.
LEMMA EventsAreReady ==
    ASSUME NEW e \in epoll_wait(ReadyEvents, 5)
    PROVE  e \in Seq(Events)
<1>1. ReadyEvents \subseteq Events /\ IsFiniteSet(Events)
  <2>1. Events = {"exit"} \cup {"run_in"} \cup {"timer"} \cup {"changed"} \cup {"fd"}
    BY DEF Events
  <2>2. IsFiniteSet(Events)
    BY <2>1, FS_Singleton, FS_Union
  <2> QED
    BY <2>2 DEF ReadyEvents
<1>2. IsFiniteSet(ReadyEvents) /\ Cardinality(ReadyEvents) \in Nat
  BY <1>1, FS_Subset, FS_CardinalityType
<1>3. PICK n \in Nat : e \in [1..n -> ReadyEvents]
  BY <1>2 DEF epoll_wait
<1> QED
  BY <1>1, <1>3, SeqDef

\* The expirations of active timers are moments, and so is the earliest one.
LEMMA EarliestType == TypeOK => EarliestExpiration \in 0..MaxTime + 1
<1> SUFFICES ASSUME TypeOK PROVE EarliestExpiration \in 0..MaxTime + 1
  OBVIOUS
<1>1. ActiveExpirations \subseteq 0..MaxTime + 1
  BY DEF ActiveExpirations, TypeOK, Data
<1>2. ActiveExpirations \subseteq Nat /\ MaxTime \in Nat
  BY <1>1, BoundsAssumption
<1>3. CASE ActiveExpirations = {}
  <2>1. EarliestExpiration = 0
    BY <1>3 DEF EarliestExpiration
  <2> QED
    BY <1>2, <2>1
<1>4. CASE ActiveExpirations # {}
  <2>1. EarliestExpiration \in ActiveExpirations
    BY <1>2, <1>4, MinIsElement DEF EarliestExpiration
  <2> QED
    BY <1>1, <2>1
<1> QED
  BY <1>3, <1>4

-----------------------------------------------------------------------------
(* Types.                                                                  *)

LEMMA InitTypeOK == Init => TypeOK
<1> SUFFICES ASSUME Init PROVE TypeOK
  OBVIOUS
<1>1. MaxTime \in Nat \ {0} /\ MaxFunctions \in Nat /\ MaxSets \in Nat
      /\ MaxFDChanges \in Nat
  BY BoundsAssumption
<1>2. DOMAIN map = {}
  BY DEF Init
<1>3. /\ functions \in Seq(1..MaxFunctions) /\ to_dispatch \in Seq(1..MaxFunctions)
      /\ events \in Seq(Events)
  BY DEF Init
<1>4. /\ now \in Times \ {0} /\ timer_fd \in 0..MaxTime + 1
      /\ earliest \in 0..MaxTime + 1 /\ dispatch_now \in Times
      /\ added \in 0..MaxFunctions /\ ran \in 0..MaxFunctions /\ sets \in 0..MaxSets
      /\ fd_changes \in 0..MaxFDChanges
  BY <1>1, TimerSetIsExact DEF Init, Times
<1>5. /\ call \in [Users -> {"none", "run_in", "exit"}]
      /\ first \in [Timers -> Times] /\ fired \in [Timers -> Nat]
  BY <1>1 DEF Init, Times
<1> QED
  BY <1>2, <1>3, <1>4, <1>5 DEF Init, TypeOK, PCs, EventCreated

\* Calls from the outside and from callbacks.
LEMMA CallTypes ==
    ASSUME TypeOK, NEW u \in Users,
           run_in(u) \/ exit(u) \/ run_in_write(u) \/ exit_write(u)
    PROVE  TypeOK'
<1>1. CASE run_in(u)
  <2>1. added' \in 1..MaxFunctions /\ functions' = Append(functions, added')
    BY <1>1, BoundsAssumption DEF run_in, TypeOK
  <2>2. functions' \in Seq(1..MaxFunctions)
    BY <2>1 DEF TypeOK
  <2> QED
    BY <1>1, <2>1, <2>2 DEF run_in, TypeOK, fdVars, localVars, monVars, timerHist
<1>2. CASE exit(u)
  BY <1>2 DEF exit, TypeOK, fdVars, localVars, monVars, timerHist
<1>3. CASE run_in_write(u)
  BY <1>3 DEF run_in_write, TypeOK, localVars, monVars, timerHist, event_write
<1>4. CASE exit_write(u)
  BY <1>4 DEF exit_write, TypeOK, localVars, monVars, timerHist, event_write
<1> QED
  BY <1>1, <1>2, <1>3, <1>4

\* What setting a timer does to the timers.
LEMMA SetStep ==
    ASSUME TypeOK, NEW u \in Users, NEW k \in Timers,
           NEW expiration \in Times, NEW interval \in 0..1,
           set(u, k, expiration, interval)
    PROVE  TypeOK'
<1>1. [expiration |-> expiration, interval |-> interval] \in Data
  BY BoundsAssumption DEF Data, Times
<1>2. /\ DOMAIN map' = DOMAIN map \cup {k}
      /\ \A i \in DOMAIN map' : map'[i] \in Data
  BY <1>1 DEF set, Put, TypeOK
<1>3. changed_event' \in BOOLEAN
  BY DEF set, TimerCall, event_write, TypeOK
<1>4. sets' \in 0..MaxSets
  BY BoundsAssumption DEF set, TypeOK
<1>5. first' \in [Timers -> Times] /\ fired' \in [Timers -> Nat]
  BY DEF set, TypeOK
<1>6. UNCHANGED <<now, exited, exit_event, run_in_event, timer_fd, monVars,
                  functions, pc, events, localVars, call, added, ran>>
  BY DEF set, TimerCall
<1> QED
  BY <1>2, <1>3, <1>4, <1>5, <1>6 DEF TypeOK, monVars, localVars

LEMMA TimerCallTypes ==
    ASSUME TypeOK, NEW u \in Users, NEW k \in Timers,
           start(u, k) \/ stop(u, k) \/ remove(u, k)
    PROVE  TypeOK'
<1>1. CASE start(u, k)
  <2>1. PICK expiration \in now..MaxTime, interval \in 0..1 :
           set(u, k, expiration, interval)
    BY <1>1 DEF start
  <2>2. expiration \in Times
    BY BoundsAssumption DEF TypeOK, Times
  <2> QED
    BY <2>1, <2>2, SetStep
<1>2. CASE stop(u, k)
  <2>1. 0 \in Times /\ 0 \in 0..1
    BY BoundsAssumption DEF Times
  <2> QED
    BY <1>2, <2>1, SetStep DEF stop
<1>3. CASE remove(u, k)
  <2>1. /\ DOMAIN map' \subseteq DOMAIN map
        /\ \A i \in DOMAIN map' : map'[i] = map[i]
    BY <1>3 DEF remove
  <2> QED
    BY <1>3, <2>1 DEF remove, TimerCall, TypeOK, localVars, monVars, timerHist, event_write
<1> QED
  BY <1>1, <1>2, <1>3

\* The loop and what it does with descriptors and functions.
LEMMA DispatchTypes ==
    ASSUME TypeOK,
           \/ loop_test \/ wait \/ dispatch_end \/ dispatch_exit
           \/ dispatch_run_in \/ dispatch_timer \/ dispatch_changed
    PROVE  TypeOK'
<1>1. CASE wait
  BY <1>1, EventsAreReady DEF wait, TypeOK, PCs, fdVars, localVars, monVars, timerHist
<1>2. CASE loop_test \/ dispatch_end
  BY <1>2 DEF loop_test, dispatch_end, TypeOK, PCs, fdVars, localVars, monVars, timerHist
<1>3. At("exit") \/ At("run_in") \/ At("timer") \/ At("changed")
         => Tail(events) \in Seq(Events)
  BY HeadTailProperties DEF At, TypeOK
<1>4. CASE dispatch_exit
  <2>1. events' = <<>> /\ exit_event' = FALSE
    BY <1>4 DEF dispatch_exit, EventRead
  <2>2. events' \in Seq(Events)
    BY <2>1
  <2>3. UNCHANGED <<now, exited, run_in_event, changed_event, timer_fd,
                    monVars, functions, map, pc, localVars, call, added, ran, timerHist>>
    BY <1>4 DEF dispatch_exit
  <2> QED
    BY <2>1, <2>2, <2>3 DEF TypeOK, localVars, monVars, timerHist
<1>5. CASE dispatch_run_in
  BY <1>3, <1>5 DEF dispatch_run_in, EventRead, TypeOK, PCs, localVars, monVars, timerHist
<1>6. CASE dispatch_timer
  <2>1. timer_fd' \in 0..MaxTime + 1
    BY <1>6, BoundsAssumption DEF dispatch_timer, TimerRead
  <2>2. dispatch_now' \in Times
    BY <1>6 DEF dispatch_timer, TypeOK
  <2>3. current' = 0 /\ needed' = FALSE /\ pc' \in PCs
    BY <1>6 DEF dispatch_timer, PCs
  <2>4. events' \in Seq(Events)
    BY <1>3, <1>6 DEF dispatch_timer
  <2>5. UNCHANGED <<now, exited, exit_event, run_in_event, changed_event,
                    monVars, functions, map, to_dispatch, earliest, call, added, ran,
                    timerHist>>
    BY <1>6 DEF dispatch_timer
  <2> QED
    BY <2>1, <2>2, <2>3, <2>4, <2>5 DEF TypeOK, monVars, timerHist
<1>7. CASE dispatch_changed
  BY <1>3, <1>7 DEF dispatch_changed, EventRead, TypeOK, PCs, localVars, monVars, timerHist
<1> QED
  BY <1>1, <1>2, <1>4, <1>5, <1>6, <1>7

\* What is monitored, and its dispatch, have little to do with the rest.
MonitorStep ==
    \/ dispatch_fd \/ fd_wait \/ fd_find \/ fd_callback_returns
    \/ change_monitored

LEMMA MonitorStepsStayAside ==
    ASSUME TypeOK, MonitorStep
    PROVE  /\ UNCHANGED <<now, exited, exit_event, run_in_event, changed_event,
                          timer_fd, functions, map, localVars, call, added, ran,
                          timerHist>>
           /\ \/ pc' = pc
              \/ /\ pc \in {"dispatch", "fd_wait", "fd_find", "fd_callback"}
                 /\ pc' \in {"dispatch", "fd_wait", "fd_find", "fd_callback"}
           /\ TypeOK'
<1>1. CASE dispatch_fd
  <2>1. At("fd") => Tail(events) \in Seq(Events)
    BY HeadTailProperties DEF At, TypeOK
  <2>2. events' \in Seq(Events) /\ pc = "dispatch" /\ pc' = "fd_wait"
    BY <1>1, <2>1 DEF dispatch_fd, At
  <2>3. UNCHANGED <<now, exited, fdVars, functions, map, localVars, call, added,
                    ran, timerHist>>
    BY <1>1 DEF dispatch_fd
  <2> QED
    BY <2>2, <2>3 DEF TypeOK, PCs, fdVars, monVars, localVars, timerHist
<1>2. CASE fd_wait \/ fd_find \/ fd_callback_returns
  <2>1. /\ pc \in {"fd_wait", "fd_find", "fd_callback"}
        /\ pc' \in {"dispatch", "fd_find", "fd_callback"}
        /\ UNCHANGED <<now, exited, fdVars, functions, map, events, localVars,
                       call, added, ran, timerHist>>
    BY <1>2 DEF fd_wait, fd_find, fd_callback_returns
  <2> QED
    BY <2>1 DEF TypeOK, PCs, fdVars, monVars, localVars, timerHist
<1>3. CASE change_monitored
  <2>1. fd_changes' \in 0..MaxFDChanges /\ monitored' \in {"no", "idle", "ready"}
    BY <1>3, BoundsAssumption DEF change_monitored, TypeOK
  <2> QED
    BY <1>3, <2>1 DEF change_monitored, TypeOK, localVars, timerHist
<1> QED
  BY <1>1, <1>2, <1>3 DEF MonitorStep

LEMMA FunctionTypes ==
    ASSUME TypeOK, swap \/ call_function \/ function_returns
    PROVE  TypeOK'
<1>1. CASE swap
  BY <1>1 DEF swap, TypeOK, PCs, fdVars, monVars, timerHist
<1>2. CASE call_function
  <2>1. to_dispatch # <<>> => /\ Head(to_dispatch) \in 1..MaxFunctions
                              /\ Tail(to_dispatch) \in Seq(1..MaxFunctions)
    BY HeadTailProperties DEF TypeOK
  <2>2. ran' \in 0..MaxFunctions /\ to_dispatch' \in Seq(1..MaxFunctions)
    <3>1. CASE to_dispatch = <<>>
      BY <1>2, <3>1 DEF call_function, TypeOK
    <3>2. CASE to_dispatch # <<>>
      <4>1. ran' = Head(to_dispatch) /\ to_dispatch' = Tail(to_dispatch)
        BY <1>2, <3>2 DEF call_function
      <4> QED
        BY <2>1, <3>2, <4>1, BoundsAssumption
    <3> QED
      BY <3>1, <3>2
  <2> QED
    BY <1>2, <2>2 DEF call_function, TypeOK, PCs, fdVars, monVars, timerHist
<1>3. CASE function_returns
  BY <1>3 DEF function_returns, TypeOK, PCs, fdVars, localVars, monVars, timerHist
<1> QED
  BY <1>1, <1>2, <1>3

LEMMA TimerTypes ==
    ASSUME TypeOK,
           \/ timer_callback \/ callback_returns \/ timers_end
           \/ earliest_expiration \/ settime
    PROVE  TypeOK'
<1>1. CASE timer_callback
  <2>1. PICK k \in ExpiredAhead :
           /\ current' = k
           /\ Rearm(k)
           /\ fired' = [fired EXCEPT ![k] = @ + 1]
    BY <1>1 DEF timer_callback
  <2>2. k \in DOMAIN map /\ k \in Timers /\ Expired(k)
    BY <2>1 DEF ExpiredAhead, TypeOK
  <2>3. /\ DOMAIN map' = DOMAIN map
        /\ \A i \in DOMAIN map \ {k} : map'[i] = map[i]
        /\ map'[k] = [map[k] EXCEPT !.expiration =
                         IF map[k].interval > 0
                         THEN map[k].expiration + map[k].interval ELSE 0]
    BY <2>1, <2>2 DEF Rearm
  <2>4. map[k] \in Data /\ map[k].expiration <= MaxTime
    BY <2>2, BoundsAssumption DEF TypeOK, Expired, Times, Data
  <2>5. map'[k] \in Data
    BY <2>3, <2>4, BoundsAssumption DEF Data
  <2>6. fired' \in [Timers -> Nat]
    BY <2>1, <2>2 DEF TypeOK
  <2> QED
    BY <1>1, <2>1, <2>2, <2>3, <2>5, <2>6 DEF timer_callback, TypeOK, PCs, fdVars, monVars
<1>2. CASE callback_returns
  BY <1>2 DEF callback_returns, Expired, Active, TypeOK, PCs, fdVars, monVars, timerHist
<1>3. CASE timers_end
  <2>1. dispatch_now' \in Times
    BY <1>3, BoundsAssumption DEF timers_end, TypeOK, Times
  <2>2. pc' \in PCs
    <3>1. pc' = pc \/ pc' = "earliest"
      BY <1>3 DEF timers_end
    <3> QED
      BY <3>1 DEF TypeOK, PCs
  <2>3. current' = 0 /\ needed' = FALSE
    BY <1>3 DEF timers_end
  <2>4. UNCHANGED <<now, exited, fdVars, functions, map, events, to_dispatch,
                    earliest, call, added, ran, timerHist>>
    BY <1>3 DEF timers_end
  <2> QED
    BY <2>1, <2>2, <2>3, <2>4 DEF TypeOK, fdVars, monVars, timerHist
<1>4. CASE earliest_expiration
  BY <1>4, EarliestType DEF earliest_expiration, TypeOK, PCs, fdVars, monVars, timerHist
<1>5. CASE settime
  <2>1. timer_fd' = earliest
    BY <1>5, TimerSetIsExact, BoundsAssumption DEF settime, TypeOK
  <2> QED
    BY <1>5, <2>1, BoundsAssumption DEF settime, TypeOK, PCs, monVars, timerHist
<1> QED
  BY <1>1, <1>2, <1>3, <1>4, <1>5

LEMMA NextTypeOK == TypeOK /\ [Next]_vars => TypeOK'
<1> SUFFICES ASSUME TypeOK, [Next]_vars PROVE TypeOK'
  OBVIOUS
<1>1. ASSUME LoopStep PROVE TypeOK'
  BY <1>1, DispatchTypes, FunctionTypes, TimerTypes, MonitorStepsStayAside
     DEF LoopStep, MonitorStep
<1>2. CASE tick
  BY <1>2, BoundsAssumption DEF tick, TypeOK, Times, fdVars, localVars, monVars, timerHist
<1>3. CASE UNCHANGED vars
  BY <1>3 DEF vars, TypeOK, fdVars, localVars, monVars, timerHist
<1> QED
  BY <1>1, <1>2, <1>3, CallTypes, TimerCallTypes, MonitorStepsStayAside
     DEF Next, WriteStep, MonitorStep

-----------------------------------------------------------------------------
(* Functions to run in the loop.                                           *)

\* The elements of s count on from n.
CountsOnFrom(s, n) == \A i \in 1..Len(s) : s[i] = n + i

\* What FunctionsAreInOrder says of the two lists.
LEMMA InOrder ==
    ASSUME NEW s \in Seq(Nat), NEW t \in Seq(Nat),
           NEW n \in Nat, NEW m \in Nat, n <= m
    PROVE  s \o t = [i \in 1..(m - n) |-> n + i] <=>
              /\ Len(s) + Len(t) = m - n
              /\ CountsOnFrom(s, n)
              /\ CountsOnFrom(t, n + Len(s))
<1> DEFINE c == [i \in 1..(m - n) |-> n + i]
<1>1. c \in Seq(Nat) /\ Len(c) = m - n
  BY SeqDef
<1>2. /\ s \o t \in Seq(Nat)
      /\ Len(s \o t) = Len(s) + Len(t)
      /\ Len(s) \in Nat /\ Len(t) \in Nat
      /\ \A i \in 1..Len(s) + Len(t) :
            (s \o t)[i] = IF i <= Len(s) THEN s[i] ELSE t[i - Len(s)]
  BY ConcatProperties, LenProperties
<1>3. s \o t = c <=> /\ Len(s) + Len(t) = m - n
                     /\ \A i \in 1..Len(s) + Len(t) : (s \o t)[i] = n + i
  <2>1. ASSUME s \o t = c
        PROVE  /\ Len(s) + Len(t) = m - n
               /\ \A i \in 1..Len(s) + Len(t) : (s \o t)[i] = n + i
    BY <1>1, <1>2, <2>1
  <2>2. ASSUME Len(s) + Len(t) = m - n,
               \A i \in 1..Len(s) + Len(t) : (s \o t)[i] = n + i
        PROVE  s \o t = c
    BY <1>1, <1>2, <2>2, SeqEqual
  <2> QED
    BY <2>1, <2>2
<1>4. ASSUME \A i \in 1..Len(s) + Len(t) : (s \o t)[i] = n + i
      PROVE  CountsOnFrom(s, n) /\ CountsOnFrom(t, n + Len(s))
  <2>1. ASSUME NEW i \in 1..Len(s) PROVE s[i] = n + i
    <3>1. i \in 1..Len(s) + Len(t) /\ i <= Len(s)
      BY <1>2
    <3>2. (s \o t)[i] = s[i]
      BY <1>2, <3>1
    <3> QED
      BY <1>4, <3>1, <3>2
  <2>2. ASSUME NEW i \in 1..Len(t) PROVE t[i] = n + Len(s) + i
    <3>1. i + Len(s) \in 1..Len(s) + Len(t) /\ ~ (i + Len(s) <= Len(s))
      BY <1>2
    <3>2. (s \o t)[i + Len(s)] = t[(i + Len(s)) - Len(s)]
      BY <1>2, <3>1
    <3>3. (i + Len(s)) - Len(s) = i /\ n + (i + Len(s)) = n + Len(s) + i
      BY <1>2
    <3>4. (s \o t)[i + Len(s)] = n + (i + Len(s))
      BY <1>4, <3>1
    <3> QED
      BY <3>2, <3>3, <3>4
  <2> QED
    BY <2>1, <2>2 DEF CountsOnFrom
<1>5. ASSUME CountsOnFrom(s, n), CountsOnFrom(t, n + Len(s)),
             NEW i \in 1..Len(s) + Len(t)
      PROVE  (s \o t)[i] = n + i
  <2>1. CASE i <= Len(s)
    BY <1>2, <1>5, <2>1 DEF CountsOnFrom
  <2>2. CASE i > Len(s)
    <3>1. i - Len(s) \in 1..Len(t)
      BY <1>2, <2>2
    <3> QED
      BY <1>2, <1>5, <2>2, <3>1 DEF CountsOnFrom
  <2> QED
    BY <1>2, <2>1, <2>2
<1> QED
  BY <1>3, <1>4, <1>5

\* Both lists of functions, in the terms above.
FunctionsCountOn ==
    /\ Len(to_dispatch) + Len(functions) = added - ran
    /\ CountsOnFrom(to_dispatch, ran)
    /\ CountsOnFrom(functions, ran + Len(to_dispatch))

LEMMA FunctionsAreInOrderMeans ==
    TypeOK /\ NothingLeftToDispatch => (FunctionsAreInOrder <=> FunctionsCountOn)
<1> SUFFICES ASSUME TypeOK, NothingLeftToDispatch
             PROVE  FunctionsAreInOrder <=> FunctionsCountOn
  OBVIOUS
<1>1. /\ to_dispatch \in Seq(Nat) /\ functions \in Seq(Nat)
      /\ ran \in Nat /\ added \in Nat /\ ran <= added
  <2>1. ASSUME NEW s \in Seq(1..MaxFunctions) PROVE s \in Seq(Nat)
    <3>1. Len(s) \in Nat /\ s \in [1..Len(s) -> 1..MaxFunctions]
      BY LenProperties
    <3>2. s \in [1..Len(s) -> Nat]
      BY <3>1
    <3> QED
      BY <3>1, <3>2, SeqDef
  <2> QED
    BY <2>1, BoundsAssumption DEF TypeOK, NothingLeftToDispatch
<1> QED
  BY <1>1, InOrder DEF FunctionsAreInOrder, FunctionsCountOn

\* A step that leaves the functions alone and does not leave the loop over
\* those taken.
LEMMA FunctionsLeftAlone ==
    ASSUME FunctionsCountOn, NothingLeftToDispatch,
           UNCHANGED <<functions, to_dispatch, added, ran>>,
           \/ pc' \in {"functions", "function"}
           \/ pc \notin {"functions", "function"}
    PROVE  FunctionsCountOn' /\ NothingLeftToDispatch'
BY DEF FunctionsCountOn, CountsOnFrom, NothingLeftToDispatch

LEMMA NextFunctionsCountOn ==
    ASSUME TypeOK, FunctionsCountOn, NothingLeftToDispatch, [Next]_vars
    PROVE  FunctionsCountOn' /\ NothingLeftToDispatch'
<1>1. /\ Len(functions) \in Nat /\ Len(to_dispatch) \in Nat
      /\ added \in Nat /\ ran \in Nat
  BY LenProperties, BoundsAssumption DEF TypeOK
<1>2. CASE \E u \in Users : run_in(u)
  <2>1. /\ added' = added + 1 /\ functions' = Append(functions, added + 1)
        /\ UNCHANGED <<pc, to_dispatch, ran>>
        /\ added + 1 \in 1..MaxFunctions
    BY <1>2, BoundsAssumption DEF run_in, localVars, TypeOK
  <2>2. /\ Len(functions') = Len(functions) + 1
        /\ \A i \in 1..Len(functions) : functions'[i] = functions[i]
        /\ functions'[Len(functions) + 1] = added + 1
    BY <2>1, AppendProperties DEF TypeOK
  <2>3. added + 1 = ran + Len(to_dispatch) + (Len(functions) + 1)
    BY <1>1 DEF FunctionsCountOn
  <2>4. CountsOnFrom(functions', ran + Len(to_dispatch))
    <3> SUFFICES ASSUME NEW i \in 1..Len(functions) + 1
                 PROVE  functions'[i] = ran + Len(to_dispatch) + i
      BY <2>2 DEF CountsOnFrom
    <3>1. CASE i = Len(functions) + 1
      BY <2>2, <2>3, <3>1
    <3>2. CASE i # Len(functions) + 1
      <4>1. i \in 1..Len(functions)
        BY <1>1, <3>2
      <4> QED
        BY <2>2, <4>1 DEF FunctionsCountOn, CountsOnFrom
    <3> QED
      BY <3>1, <3>2
  <2>5. FunctionsCountOn'
    BY <1>1, <2>1, <2>2, <2>4 DEF FunctionsCountOn
  <2>6. NothingLeftToDispatch'
    BY <1>1, <2>1 DEF NothingLeftToDispatch
  <2> QED
    BY <2>5, <2>6
<1>3. CASE swap
  <2>1. /\ to_dispatch = <<>> /\ to_dispatch' = functions /\ functions' = <<>>
        /\ pc' = "functions" /\ UNCHANGED <<added, ran>>
    BY <1>3 DEF swap, NothingLeftToDispatch
  <2>2. Len(to_dispatch) = 0 /\ Len(functions') = 0
    BY <2>1
  <2>3. CountsOnFrom(to_dispatch', ran) /\ CountsOnFrom(functions', ran + Len(functions))
    BY <1>1, <2>1, <2>2 DEF FunctionsCountOn, CountsOnFrom
  <2> QED
    BY <1>1, <2>1, <2>2, <2>3 DEF FunctionsCountOn, NothingLeftToDispatch
<1>4. CASE call_function
  <2>1. CASE to_dispatch = <<>>
    <3>1. pc' = "dispatch" /\ UNCHANGED <<functions, to_dispatch, added, ran>>
      BY <1>4, <2>1 DEF call_function
    <3>2. FunctionsCountOn'
      BY <3>1 DEF FunctionsCountOn, CountsOnFrom
    <3> QED
      BY <2>1, <3>1, <3>2 DEF NothingLeftToDispatch
  <2>2. CASE to_dispatch # <<>>
    <3>1. /\ pc' = "function" /\ UNCHANGED <<functions, added>>
          /\ to_dispatch' = Tail(to_dispatch) /\ ran' = Head(to_dispatch)
      BY <1>4, <2>2 DEF call_function
    <3>2. /\ Len(to_dispatch) >= 1
          /\ Len(to_dispatch') = Len(to_dispatch) - 1
          /\ \A i \in 1..Len(to_dispatch') : to_dispatch'[i] = to_dispatch[i + 1]
      BY <1>1, <2>2, <3>1, HeadTailProperties DEF TypeOK
    <3>3. ran' = ran + 1
      BY <1>1, <2>2, <3>1, <3>2 DEF FunctionsCountOn, CountsOnFrom
    <3>4. CountsOnFrom(to_dispatch', ran + 1)
      <4> SUFFICES ASSUME NEW i \in 1..Len(to_dispatch')
                   PROVE  to_dispatch'[i] = ran + 1 + i
        BY DEF CountsOnFrom
      <4>1. i + 1 \in 1..Len(to_dispatch)
        BY <1>1, <3>2
      <4> QED
        BY <1>1, <3>2, <4>1 DEF FunctionsCountOn, CountsOnFrom
    <3>5. ran + 1 + Len(to_dispatch') = ran + Len(to_dispatch)
      BY <1>1, <3>2
    <3>6. FunctionsCountOn'
      BY <1>1, <3>1, <3>2, <3>3, <3>4, <3>5 DEF FunctionsCountOn
    <3>7. NothingLeftToDispatch'
      BY <1>1, <3>1, <3>2, <3>3 DEF FunctionsCountOn, NothingLeftToDispatch
    <3> QED
      BY <3>6, <3>7
  <2> QED
    BY <2>1, <2>2
<1>5. CASE function_returns
  BY <1>5, FunctionsLeftAlone DEF function_returns, localVars
<1>6. CASE \E u \in Users : exit(u) \/ WriteStep(u)
  BY <1>6, FunctionsLeftAlone DEF exit, WriteStep, run_in_write, exit_write, localVars
<1>7. CASE \E u \in Users, k \in Timers : start(u, k) \/ stop(u, k) \/ remove(u, k)
  <2>1. \E u \in Users : TimerCall(u)
    BY <1>7 DEF start, stop, remove, set
  <2> QED
    BY <2>1, FunctionsLeftAlone DEF TimerCall, localVars
<1>8. CASE \/ loop_test \/ wait \/ dispatch_end \/ dispatch_exit
           \/ dispatch_run_in \/ dispatch_timer \/ dispatch_changed
  BY <1>8, FunctionsLeftAlone
     DEF loop_test, wait, dispatch_end, dispatch_exit, dispatch_run_in,
         dispatch_timer, dispatch_changed, At, localVars
<1>9. CASE \/ timer_callback \/ callback_returns \/ timers_end
           \/ earliest_expiration \/ settime
  BY <1>9, FunctionsLeftAlone
     DEF timer_callback, callback_returns, timers_end, earliest_expiration, settime
<1>10. CASE tick \/ UNCHANGED vars
  BY <1>10, FunctionsLeftAlone DEF tick, vars, localVars
<1>11. CASE MonitorStep
  BY <1>11, MonitorStepsStayAside, FunctionsLeftAlone DEF localVars
<1> QED
  BY <1>2, <1>3, <1>4, <1>5, <1>6, <1>7, <1>8, <1>9, <1>10, <1>11
     DEF Next, LoopStep, MonitorStep

\* Whoever adds a function writes after that, and the loop reads before it
\* takes the functions.
LEMMA NextNoFunctionForgotten ==
    ASSUME TypeOK, NoFunctionForgotten, [Next]_vars
    PROVE  NoFunctionForgotten'
<1>1. CASE \E u \in Users : run_in(u)
  <2>1. PICK u \in Users : run_in(u)
    BY <1>1
  <2>2. call'[u] = "run_in"
    BY <2>1 DEF run_in, TypeOK
  <2> QED
    BY <2>2 DEF NoFunctionForgotten
<1>2. CASE \E u \in Users : run_in_write(u)
  <2>1. run_in_event' = event_write(run_in_event, 1)
    BY <1>2 DEF run_in_write
  <2>2. run_in_event'
    BY <2>1, WriteIsNoticed
  <2> QED
    BY <2>2 DEF NoFunctionForgotten
<1>3. ASSUME NEW u \in Users, exit(u) \/ exit_write(u)
      PROVE  NoFunctionForgotten'
  <2>1. \A v \in Users : call[v] = "run_in" => call'[v] = "run_in"
    BY <1>3 DEF exit, exit_write, MayCall, TypeOK
  <2>2. UNCHANGED <<functions, run_in_event, pc>>
    BY <1>3 DEF exit, exit_write, fdVars
  <2> QED
    BY <2>1, <2>2 DEF NoFunctionForgotten
<1>4. CASE dispatch_run_in
  BY <1>4 DEF dispatch_run_in, NoFunctionForgotten
<1>5. CASE swap
  BY <1>5 DEF swap, NoFunctionForgotten
<1>6. ASSUME UNCHANGED <<functions, run_in_event, call>>,
             pc = "swap" => pc' = "swap"
      PROVE  NoFunctionForgotten'
  BY <1>6 DEF NoFunctionForgotten
<1>7. CASE \E u \in Users, k \in Timers : start(u, k) \/ stop(u, k) \/ remove(u, k)
  <2>1. \E u \in Users : TimerCall(u)
    BY <1>7 DEF start, stop, remove, set
  <2> QED
    BY <1>6, <2>1 DEF TimerCall
<1>8. CASE \/ loop_test \/ wait \/ dispatch_end \/ dispatch_exit
           \/ dispatch_timer \/ dispatch_changed
  BY <1>6, <1>8
     DEF loop_test, wait, dispatch_end, dispatch_exit, dispatch_timer,
         dispatch_changed, At, fdVars
<1>9. CASE \/ call_function \/ function_returns
           \/ timer_callback \/ callback_returns \/ timers_end
           \/ earliest_expiration \/ settime
  BY <1>6, <1>9
     DEF call_function, function_returns, timer_callback, callback_returns,
         timers_end, earliest_expiration, settime, fdVars
<1>10. CASE tick \/ UNCHANGED vars
  BY <1>6, <1>10 DEF tick, vars, fdVars
<1>11. CASE MonitorStep
  BY <1>6, <1>11, MonitorStepsStayAside
<1> QED
  BY <1>1, <1>2, <1>3, <1>4, <1>5, <1>7, <1>8, <1>9, <1>10, <1>11
     DEF Next, LoopStep, WriteStep, MonitorStep

-----------------------------------------------------------------------------
(* What the timer descriptor is armed for.                                 *)

\* A timer that is set or removed is noticed, whatever the loop is about to
\* do.
LEMMA ChangeIsNoticed ==
    ASSUME NEW u \in Users, TimerCall(u)
    PROVE  TimerFdIsEarliest' /\ EarliestIsKnown'
<1>1. changed_event' = event_write(changed_event, 1)
  BY DEF TimerCall
<1>2. changed_event'
  BY <1>1, WriteIsNoticed
<1> QED
  BY <1>2 DEF TimerFdIsEarliest, EarliestIsKnown

\* Nothing else than that and a callback changes what is earliest.
LEMMA EarliestUnchanged ==
    ASSUME UNCHANGED map
    PROVE  EarliestExpiration' = EarliestExpiration
BY DEF EarliestExpiration, ActiveExpirations, Active

LEMMA DescriptorLeftAlone ==
    ASSUME TimerFdIsEarliest, EarliestIsKnown,
           UNCHANGED <<map, timer_fd, earliest, changed_event>>,
           pc' = pc \/ (pc' # "settime" /\ pc \notin {"callback", "timers", "earliest", "settime"})
    PROVE  TimerFdIsEarliest' /\ EarliestIsKnown'
BY EarliestUnchanged DEF TimerFdIsEarliest, EarliestIsKnown

LEMMA NextTimerFdIsEarliest ==
    ASSUME TypeOK, TimerFdIsEarliest, EarliestIsKnown, [Next]_vars
    PROVE  TimerFdIsEarliest' /\ EarliestIsKnown'
<1>1. CASE \E u \in Users, k \in Timers : start(u, k) \/ stop(u, k) \/ remove(u, k)
  <2>1. \E u \in Users : TimerCall(u)
    BY <1>1 DEF start, stop, remove, set
  <2> QED
    BY <2>1, ChangeIsNoticed
<1>2. CASE settime
  <2>1. /\ pc = "settime" /\ pc' = "dispatch" /\ UNCHANGED <<map, changed_event>>
        /\ timer_fd' = IF earliest = 0 THEN timer_disarm ELSE timer_set(earliest)
    BY <1>2 DEF settime
  <2>2. timer_fd' = earliest
    BY <2>1, TimerSetIsExact, BoundsAssumption DEF TypeOK
  <2> QED
    BY <2>1, <2>2, EarliestUnchanged DEF TimerFdIsEarliest, EarliestIsKnown
<1>3. CASE earliest_expiration
  <2>1. /\ pc' = "settime" /\ UNCHANGED map /\ earliest' = EarliestExpiration
    BY <1>3 DEF earliest_expiration
  <2> QED
    BY <2>1, EarliestUnchanged DEF TimerFdIsEarliest, EarliestIsKnown
<1>4. CASE dispatch_timer \/ dispatch_changed
  <2>1. pc' \in {"timers", "earliest"}
    BY <1>4 DEF dispatch_timer, dispatch_changed
  <2> QED
    BY <2>1 DEF TimerFdIsEarliest, EarliestIsKnown
<1>5. CASE timer_callback \/ callback_returns \/ timers_end
  <2>1. pc' \in {"timers", "callback", "earliest"}
    BY <1>5 DEF timer_callback, callback_returns, timers_end
  <2> QED
    BY <2>1 DEF TimerFdIsEarliest, EarliestIsKnown
<1>6. CASE \E u \in Users : run_in(u) \/ exit(u) \/ WriteStep(u)
  BY <1>6, DescriptorLeftAlone
     DEF run_in, exit, WriteStep, run_in_write, exit_write, fdVars, localVars
<1>7. CASE \/ loop_test \/ wait \/ dispatch_end \/ dispatch_exit \/ dispatch_run_in
  BY <1>7, DescriptorLeftAlone
     DEF loop_test, wait, dispatch_end, dispatch_exit, dispatch_run_in, At,
         fdVars, localVars
<1>8. CASE swap \/ call_function \/ function_returns
  BY <1>8, DescriptorLeftAlone
     DEF swap, call_function, function_returns, fdVars, localVars
<1>9. CASE tick \/ UNCHANGED vars
  BY <1>9, DescriptorLeftAlone DEF tick, vars, fdVars, localVars
<1>10. CASE MonitorStep
  BY <1>10, MonitorStepsStayAside, DescriptorLeftAlone DEF localVars
<1> QED
  BY <1>1, <1>2, <1>3, <1>4, <1>5, <1>6, <1>7, <1>8, <1>9, <1>10
     DEF Next, LoopStep, MonitorStep

-----------------------------------------------------------------------------
(* The count of the timers.                                                *)

\* TimersKeepCount and OneShotsAreStillToFire of one timer.
KeepsCount(k) ==
    /\ \/ /\ Active(k)
          /\ map[k].expiration = first[k] + fired[k] * map[k].interval
       \/ /\ ~Active(k)
          /\ map[k].interval = 0
          /\ fired[k] = IF first[k] > 0 THEN 1 ELSE 0
    /\ Active(k) /\ map[k].interval = 0 => fired[k] = 0

\* From a start on: stop() sets the expiration and the interval to 0.
LEMMA SetKeepsCount ==
    ASSUME TypeOK, \A i \in DOMAIN map : KeepsCount(i),
           NEW u \in Users, NEW k \in Timers,
           NEW expiration \in Times, NEW interval \in 0..1,
           expiration = 0 => interval = 0,
           set(u, k, expiration, interval)
    PROVE  \A i \in DOMAIN map' : KeepsCount(i)'
<1>1. /\ map' = [i \in DOMAIN map \cup {k} |->
                   IF i = k THEN [expiration |-> expiration, interval |-> interval]
                   ELSE map[i]]
      /\ first' = [first EXCEPT ![k] = expiration]
      /\ fired' = [fired EXCEPT ![k] = 0]
  BY DEF set, Put
<1>2. ASSUME NEW i \in DOMAIN map', i # k PROVE KeepsCount(i)'
  <2>1. /\ i \in DOMAIN map /\ map'[i] = map[i]
        /\ first'[i] = first[i] /\ fired'[i] = fired[i]
    BY <1>1, <1>2 DEF TypeOK
  <2> QED
    BY <2>1 DEF KeepsCount, Active
<1>3. KeepsCount(k)'
  <2>1. /\ map'[k].expiration = expiration /\ map'[k].interval = interval
        /\ first'[k] = expiration /\ fired'[k] = 0
    BY <1>1 DEF TypeOK
  <2>2. expiration \in Nat /\ 0 * interval = 0
    BY BoundsAssumption DEF Times
  <2>3. CASE expiration = 0
    BY <2>1, <2>2, <2>3 DEF KeepsCount, Active
  <2>4. CASE expiration > 0
    BY <2>1, <2>2, <2>4 DEF KeepsCount, Active
  <2> QED
    BY <2>2, <2>3, <2>4
<1> QED
  BY <1>2, <1>3

\* The callback counts before it runs; an interval is 0 or 1.
LEMMA CallbackKeepsCount ==
    ASSUME TypeOK, \A i \in DOMAIN map : KeepsCount(i), timer_callback
    PROVE  \A i \in DOMAIN map' : KeepsCount(i)'
<1>1. PICK k \in ExpiredAhead :
         Rearm(k) /\ fired' = [fired EXCEPT ![k] = @ + 1]
  BY DEF timer_callback
<1>2. k \in DOMAIN map /\ k \in Timers /\ Active(k) /\ KeepsCount(k)
  BY <1>1 DEF ExpiredAhead, Expired, TypeOK
<1>3. /\ DOMAIN map' = DOMAIN map
      /\ \A i \in DOMAIN map \ {k} : map'[i] = map[i]
      /\ map'[k].interval = map[k].interval
      /\ map'[k].expiration = IF map[k].interval > 0
                              THEN map[k].expiration + map[k].interval ELSE 0
  BY <1>1, <1>2 DEF Rearm, TypeOK, Data
<1>4. /\ \A i \in Timers \ {k} : fired'[i] = fired[i]
      /\ fired'[k] = fired[k] + 1
      /\ first' = first
  BY <1>1, <1>2 DEF timer_callback, TypeOK
<1>5. ASSUME NEW i \in DOMAIN map', i # k PROVE KeepsCount(i)'
  <2>1. /\ i \in DOMAIN map /\ map'[i] = map[i]
        /\ first'[i] = first[i] /\ fired'[i] = fired[i]
    BY <1>3, <1>4, <1>5 DEF TypeOK
  <2> QED
    BY <2>1 DEF KeepsCount, Active
<1>6. KeepsCount(k)'
  <2>1. /\ first[k] \in Nat /\ fired[k] \in Nat
        /\ map[k].expiration \in Nat /\ map[k].interval \in 0..1
    BY <1>2, BoundsAssumption DEF TypeOK, Times, Data
  <2>2. map[k].expiration > 0 /\ map[k].expiration = first[k] + fired[k] * map[k].interval
    BY <1>2 DEF KeepsCount, Active
  <2>3. CASE map[k].interval = 0
    <3>1. fired[k] = 0 /\ map[k].expiration = first[k]
      BY <1>2, <2>1, <2>2, <2>3 DEF KeepsCount
    <3>2. /\ map'[k].expiration = 0 /\ map'[k].interval = 0
          /\ fired'[k] = 1 /\ first'[k] > 0
      BY <1>3, <1>4, <2>2, <2>3, <3>1
    <3> QED
      BY <3>2 DEF KeepsCount, Active
  <2>4. CASE map[k].interval = 1
    <3>1. map[k].expiration = first[k] + fired[k]
      BY <2>1, <2>2, <2>4
    <3>2. /\ map'[k].expiration = first'[k] + fired'[k] /\ map'[k].interval = 1
          /\ map'[k].expiration > 0
      BY <1>3, <1>4, <2>1, <2>2, <2>4, <3>1
    <3>3. fired'[k] * 1 = fired'[k]
      BY <1>4, <2>1
    <3> QED
      BY <3>2, <3>3 DEF KeepsCount, Active
  <2> QED
    BY <2>1, <2>3, <2>4
<1> QED
  BY <1>5, <1>6

LEMMA NextKeepsCount ==
    ASSUME TypeOK, \A i \in DOMAIN map : KeepsCount(i), [Next]_vars
    PROVE  \A i \in DOMAIN map' : KeepsCount(i)'
<1>1. ASSUME NEW u \in Users, NEW k \in Timers, start(u, k)
      PROVE  \A i \in DOMAIN map' : KeepsCount(i)'
  <2>1. PICK expiration \in now..MaxTime, interval \in 0..1 :
           set(u, k, expiration, interval)
    BY <1>1 DEF start
  <2>2. expiration \in Times /\ expiration # 0
    BY BoundsAssumption DEF TypeOK, Times
  <2> QED
    BY <2>1, <2>2, SetKeepsCount
<1>2. ASSUME NEW u \in Users, NEW k \in Timers, stop(u, k)
      PROVE  \A i \in DOMAIN map' : KeepsCount(i)'
  <2>1. 0 \in Times /\ 0 \in 0..1
    BY BoundsAssumption DEF Times
  <2>2. set(u, k, 0, 0)
    BY <1>2 DEF stop
  <2> QED
    BY <2>1, <2>2, SetKeepsCount
<1>3. ASSUME NEW u \in Users, NEW k \in Timers, remove(u, k)
      PROVE  \A i \in DOMAIN map' : KeepsCount(i)'
  <2>1. /\ \A i \in DOMAIN map' : i \in DOMAIN map /\ map'[i] = map[i]
        /\ UNCHANGED <<first, fired>>
    BY <1>3 DEF remove, timerHist
  <2> QED
    BY <2>1 DEF KeepsCount, Active
<1>4. ASSUME UNCHANGED <<map, first, fired>>
      PROVE  \A i \in DOMAIN map' : KeepsCount(i)'
  BY <1>4 DEF KeepsCount, Active
<1>5. CASE \E u \in Users : run_in(u) \/ exit(u) \/ WriteStep(u)
  BY <1>4, <1>5 DEF run_in, exit, WriteStep, run_in_write, exit_write, timerHist
<1>6. CASE \/ loop_test \/ wait \/ dispatch_end \/ dispatch_exit
           \/ dispatch_run_in \/ dispatch_timer \/ dispatch_changed
  BY <1>4, <1>6
     DEF loop_test, wait, dispatch_end, dispatch_exit, dispatch_run_in,
         dispatch_timer, dispatch_changed, timerHist
<1>7. CASE \/ swap \/ call_function \/ function_returns \/ callback_returns
           \/ timers_end \/ earliest_expiration \/ settime
  BY <1>4, <1>7
     DEF swap, call_function, function_returns, callback_returns, timers_end,
         earliest_expiration, settime, timerHist
<1>8. CASE tick \/ UNCHANGED vars
  BY <1>4, <1>8 DEF tick, vars, timerHist
<1>9. CASE MonitorStep
  BY <1>4, <1>9, MonitorStepsStayAside DEF timerHist
<1> QED
  BY <1>1, <1>2, <1>3, <1>5, <1>6, <1>7, <1>8, <1>9, CallbackKeepsCount
     DEF Next, LoopStep, MonitorStep

-----------------------------------------------------------------------------
(* The theorems.                                                           *)

\* The proofs above speak of the lists and of each timer by itself.
LEMMA IInvMeans ==
    IInv <=> /\ TypeOK /\ NoFunctionForgotten /\ TimerFdIsEarliest /\ EarliestIsKnown
             /\ NothingLeftToDispatch /\ FunctionsCountOn
             /\ \A k \in DOMAIN map : KeepsCount(k)
<1>1. TimersKeepCount /\ OneShotsAreStillToFire <=> \A k \in DOMAIN map : KeepsCount(k)
  BY DEF TimersKeepCount, OneShotsAreStillToFire, KeepsCount
<1> QED
  BY <1>1, FunctionsAreInOrderMeans DEF IInv, NothingIsForgotten

LEMMA InitIInv == Init => IInv
<1> SUFFICES ASSUME Init PROVE IInv
  OBVIOUS
<1>1. /\ functions = <<>> /\ to_dispatch = <<>> /\ added = 0 /\ ran = 0
      /\ DOMAIN map = {} /\ pc = "test" /\ timer_fd = 0
  BY TimerSetIsExact DEF Init
<1>2. NoFunctionForgotten /\ NothingLeftToDispatch /\ EarliestIsKnown
  BY <1>1 DEF NoFunctionForgotten, NothingLeftToDispatch, EarliestIsKnown
<1>3. FunctionsCountOn
  <2>1. Len(functions) = 0 /\ Len(to_dispatch) = 0
    BY <1>1
  <2> QED
    BY <1>1, <2>1 DEF FunctionsCountOn, CountsOnFrom
<1>4. TimerFdIsEarliest
  BY <1>1 DEF TimerFdIsEarliest, EarliestExpiration, ActiveExpirations
<1> QED
  BY <1>1, <1>2, <1>3, <1>4, InitTypeOK, IInvMeans

LEMMA NextIInv == IInv /\ [Next]_vars => IInv'
<1> SUFFICES ASSUME IInv, [Next]_vars PROVE IInv'
  OBVIOUS
<1>1. /\ TypeOK /\ NoFunctionForgotten /\ TimerFdIsEarliest /\ EarliestIsKnown
      /\ NothingLeftToDispatch /\ FunctionsCountOn
      /\ \A k \in DOMAIN map : KeepsCount(k)
  BY IInvMeans
<1>2. TypeOK' /\ NoFunctionForgotten'
  BY <1>1, NextTypeOK, NextNoFunctionForgotten
<1>3. TimerFdIsEarliest' /\ EarliestIsKnown'
  BY <1>1, NextTimerFdIsEarliest
<1>4. FunctionsCountOn' /\ NothingLeftToDispatch'
  BY <1>1, NextFunctionsCountOn
<1>5. \A k \in DOMAIN map' : KeepsCount(k)'
  BY <1>1, NextKeepsCount
<1>6. FunctionsAreInOrder'
  BY <1>2, <1>4, FunctionsAreInOrderMeans, PTL
<1> QED
  BY <1>2, <1>3, <1>4, <1>5, <1>6
     DEF IInv, NothingIsForgotten, TimersKeepCount, OneShotsAreStillToFire, KeepsCount

THEOREM LoopInvariant == Spec => []IInv
<1>1. IInv /\ [Next]_vars => IInv'
  BY NextIInv
<1> QED
  BY <1>1, InitIInv, PTL DEF Spec

\* Whatever threads and callbacks do to the loop (run_in(), exit(), timers
\* started, stopped and removed), it looks at it: no function is left without
\* an event, functions run in the order they were added, each once, and the
\* timer descriptor is armed for the earliest timer or is about to be.
THEOREM LoopForgetsNothing == Spec => []NothingIsForgotten
<1>1. IInv => NothingIsForgotten
  BY DEF IInv
<1> QED
  BY <1>1, LoopInvariant, PTL

\* A repeating timer has fired once for each interval since it was started, a
\* one-shot timer at most once, however late the loop comes to look at them.
THEOREM TimersDoNotDrift == Spec => []TimersKeepCount
<1>1. IInv => TimersKeepCount
  BY DEF IInv
<1> QED
  BY <1>1, LoopInvariant, PTL
=============================================================================

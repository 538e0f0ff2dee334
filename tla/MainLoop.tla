------------------------------ MODULE MainLoop ------------------------------
(***************************************************************************)
(* lib/system/main_loop.{h,cpp}: the loop, functions to run in it, timers  *)
(* and exit.                                                               *)
(*                                                                         *)
(* The thread of the loop blocks in epoll_wait() on event descriptors, a   *)
(* timer descriptor and the epoll instance of FDData, then handles one     *)
(* after the other all that were ready.  Other threads and the callbacks   *)
(* themselves add functions, set timers and call exit() meanwhile.         *)
(*                                                                         *)
(* Of what is monitored there is one descriptor here, and of monitors what *)
(* makes FDData::dispatch() block or call; the rest is in FDMonitors.tla.  *)
(*                                                                         *)
(* The state of a descriptor is that in LinuxFDs.tla.  All of them block   *)
(* in read().  System calls do not fail.  A local variable that is not in  *)
(* use is 0.                                                               *)
(***************************************************************************)
EXTENDS Naturals, Sequences, FiniteSets, FiniteSetsExt, LinuxFDs

CONSTANTS
    Threads,       \* threads that use the loop from the outside
    Main,          \* the thread that is in loop()
    Timers,        \* numbers of started timers, in the order of map_
    Uses,          \* what is done with timers: a set of elements of TimerUses
    MaxTime,       \* bound: the last moment
    MaxFunctions,  \* bound: calls of run_in()
    MaxSets,       \* bound: calls of Timer::start() and stop()
    MaxFDChanges,  \* bound: changes of the monitored descriptor
    MaxCalls       \* bound: all of these and exit() together

TimerUses == {"start", "start_repeat", "stop", "remove", "remove_own"}

ASSUME MainAssumption == Main \notin Threads
ASSUME TimersAssumption == Timers \subseteq Nat \ {0} /\ IsFiniteSet(Timers)
ASSUME UsesAssumption == Uses \subseteq TimerUses
ASSUME BoundsAssumption == /\ MaxTime \in Nat \ {0}
                           /\ MaxFunctions \in Nat
                           /\ MaxSets \in Nat
                           /\ MaxFDChanges \in Nat
                           /\ MaxCalls \in Nat

VARIABLES
    now,            \* the steady clock
    exited,         \* exited_
    exit_event,     \* exit_event_fd_ can be read
    run_in_event,   \* run_in_event_fd_ can be read
    changed_event,  \* timer_data_->changed_event_fd_ can be read
    timer_fd,       \* timer_fd_
    monitored,      \* a descriptor: "no", or monitored and "idle" or "ready"
    functions,      \* run_in_functions_.functions_
    map,            \* timer_data_->map_: [expiration, interval] of its timers
    pc,             \* where Main is
    events,         \* events_ that dispatch() has still to look at
    to_dispatch,    \* functions_to_dispatch
    earliest,       \* expiration in set_timer_fd_from_timer_data()
    dispatch_now,   \* now in TimerData::dispatch()
    current,        \* key in the for loop there, 0 before the first
    needed,         \* dispatch_needed there
    call,           \* what each thread has half done
    fd_changes,     \* history: changes of the monitored descriptor
    added,          \* history: functions given to run_in()
    ran,            \* history: functions called
    sets,           \* history: calls that set a timer
    first,          \* history: expiration a timer was last started for
    fired           \* history: callbacks of a timer since then

monVars   == <<monitored, fd_changes>>
fdVars    == <<exit_event, run_in_event, changed_event, timer_fd, monVars>>
localVars == <<to_dispatch, earliest, dispatch_now, current, needed>>
timerHist == <<sets, first, fired>>
vars == <<now, exited, fdVars, functions, map, pc, events, localVars, call,
          added, ran, timerHist>>

Times == 0..MaxTime
Users == Threads \cup {Main}
Events == {"exit", "run_in", "timer", "changed", "fd"}
Data == [expiration : 0..MaxTime + 1, interval : 0..1]

\* "dispatch" is the head of the for loop in dispatch(), "swap", "functions"
\* and "function" are in RunInFunctions::dispatch(), "timers" and "callback"
\* in TimerData::dispatch(), "earliest" and "settime" in
\* set_timer_fd_from_timer_data(), "fd_wait", "fd_find" and "fd_callback" in
\* FDData::dispatch().  In "function" and the callbacks the thread is in a
\* function of the user.
PCs == {"test", "wait", "dispatch", "swap", "functions", "function", "timers",
        "callback", "earliest", "settime", "fd_wait", "fd_find", "fd_callback",
        "returned"}

InUserCode == pc \in {"function", "callback", "fd_callback"}

TypeOK ==
    /\ now \in Times \ {0}
    /\ exited \in BOOLEAN
    /\ {exit_event, run_in_event, changed_event} \subseteq BOOLEAN
    /\ timer_fd \in 0..MaxTime + 1
    /\ monitored \in {"no", "idle", "ready"}
    /\ fd_changes \in 0..MaxFDChanges
    /\ functions \in Seq(1..MaxFunctions)
    /\ DOMAIN map \subseteq Timers
    /\ \A k \in DOMAIN map : map[k] \in Data
    /\ pc \in PCs
    /\ events \in Seq(Events)
    /\ to_dispatch \in Seq(1..MaxFunctions)
    /\ earliest \in 0..MaxTime + 1
    /\ dispatch_now \in Times
    /\ current \in Timers \cup {0}
    /\ needed \in BOOLEAN
    /\ call \in [Users -> {"none", "run_in", "exit"}]
    /\ added \in 0..MaxFunctions
    /\ ran \in 0..MaxFunctions
    /\ sets \in 0..MaxSets
    /\ first \in [Timers -> Times]
    /\ fired \in [Timers -> Nat]

Init ==
    /\ now = 1
    /\ exited = FALSE
    /\ exit_event = EventCreated
    /\ run_in_event = EventCreated
    /\ changed_event = EventCreated
    /\ timer_fd = timer_disarm
    /\ monitored = "no"
    /\ fd_changes = 0
    /\ functions = <<>>
    /\ map = <<>>
    /\ pc = "test"
    /\ events = <<>>
    /\ to_dispatch = <<>>
    /\ earliest = 0
    /\ dispatch_now = 0
    /\ current = 0
    /\ needed = FALSE
    /\ call = [u \in Users |-> "none"]
    /\ added = 0
    /\ ran = 0
    /\ sets = 0
    /\ first = [k \in Timers |-> 0]
    /\ fired = [k \in Timers |-> 0]

-----------------------------------------------------------------------------
(* What threads do with the loop, Main from within its callbacks.          *)

MayCall(u) ==
    /\ call[u] = "none"
    /\ u = Main => InUserCode

Calls == added + sets + fd_changes + (IF exited THEN 1 ELSE 0)

\* run_in() adds the function under a mutex of its own and then writes.
run_in(u) ==
    /\ MayCall(u)
    /\ added < MaxFunctions /\ Calls < MaxCalls
    /\ added' = added + 1
    /\ functions' = Append(functions, added + 1)
    /\ call' = [call EXCEPT ![u] = "run_in"]
    /\ UNCHANGED <<now, exited, fdVars, map, pc, events, localVars, ran,
                   timerHist>>

run_in_write(u) ==
    /\ call[u] = "run_in"
    /\ run_in_event' = event_write(run_in_event, 1)
    /\ call' = [call EXCEPT ![u] = "none"]
    /\ UNCHANGED <<now, exited, exit_event, changed_event, timer_fd, monVars,
                   functions, map, pc, events, localVars, added, ran,
                   timerHist>>

\* exit() stores exited_ and then writes.  It is called once: a second call
\* finds both as the first leaves them.
exit(u) ==
    /\ MayCall(u)
    /\ ~exited /\ Calls < MaxCalls
    /\ exited' = TRUE
    /\ call' = [call EXCEPT ![u] = "exit"]
    /\ UNCHANGED <<now, fdVars, functions, map, pc, events, localVars, added,
                   ran, timerHist>>

\* Mutant: write(0), which leaves the counter as it is.
exit_write_zero(u) ==
    /\ call[u] = "exit"
    /\ exit_event' = event_write(exit_event, 0)
    /\ call' = [call EXCEPT ![u] = "none"]
    /\ UNCHANGED <<now, exited, run_in_event, changed_event, timer_fd,
                   monVars, functions, map, pc, events, localVars, added, ran,
                   timerHist>>

exit_write(u) ==
    /\ call[u] = "exit"
    /\ exit_event' = event_write(exit_event, 1)
    /\ call' = [call EXCEPT ![u] = "none"]
    /\ UNCHANGED <<now, exited, run_in_event, changed_event, timer_fd,
                   monVars, functions, map, pc, events, localVars, added, ran,
                   timerHist>>

\* TimerData has a recursive mutex, which Main holds while it dispatches.
TimersLockedFor(u) == pc \in {"timers", "callback"} /\ u # Main

\* Mutant: the loop is not told of the change.
TimerCallUnnoticed(u) ==
    /\ MayCall(u)
    /\ ~TimersLockedFor(u)
    /\ UNCHANGED <<now, exited, fdVars, functions, pc, events, localVars, call,
                   added, ran>>

\* TimerData::set() and remove(): the change and the write are one critical
\* section.
TimerCall(u) ==
    /\ MayCall(u)
    /\ ~TimersLockedFor(u)
    /\ changed_event' = event_write(changed_event, 1)
    /\ UNCHANGED <<now, exited, exit_event, run_in_event, timer_fd, monVars,
                   functions, pc, events, localVars, call, added, ran>>

Put(k, data) ==
    map' = [i \in DOMAIN map \cup {k} |-> IF i = k THEN data ELSE map[i]]

set(u, k, expiration, interval) ==
    /\ TimerCall(u)
    /\ sets < MaxSets /\ Calls < MaxCalls
    /\ sets' = sets + 1
    /\ Put(k, [expiration |-> expiration, interval |-> interval])
    /\ first' = [first EXCEPT ![k] = expiration]
    /\ fired' = [fired EXCEPT ![k] = 0]

\* Timer::start() and start_repeat() with any expiration from now on.
start(u, k) ==
    /\ \E expiration \in now..MaxTime, interval \in 0..1 :
          /\ interval = 0 => "start" \in Uses
          /\ interval > 0 => "start_repeat" \in Uses
          /\ set(u, k, expiration, interval)

\* Timer::stop(): a timer that was never started is not in a TimerData.
stop(u, k) ==
    /\ "stop" \in Uses
    /\ k \in DOMAIN map
    /\ set(u, k, 0, 0)

\* ~Timer() and the moves.
remove(u, k) ==
    /\ "remove" \in Uses
    /\ k \in DOMAIN map
    /\ u = Main /\ pc = "callback" /\ k = current => "remove_own" \in Uses
    /\ TimerCall(u)
    /\ map' = [i \in DOMAIN map \ {k} |-> map[i]]
    /\ UNCHANGED timerHist

\* FDMonitor::start() and stop(), the end that is written to or read from, by
\* any thread: what is monitored is another thing now.
change_monitored ==
    /\ fd_changes < MaxFDChanges /\ Calls < MaxCalls
    /\ fd_changes' = fd_changes + 1
    /\ monitored' \in {"no", "idle", "ready"} \ {monitored}
    /\ UNCHANGED <<now, exited, exit_event, run_in_event, changed_event,
                   timer_fd, functions, map, pc, events, localVars, call,
                   added, ran, timerHist>>

-----------------------------------------------------------------------------
(* loop(), wait() and dispatch().                                          *)

\* exited() is tested by loop() and by wait(), with nothing in between.
loop_test ==
    /\ pc = "test"
    /\ pc' = IF exited THEN "returned" ELSE "wait"
    /\ UNCHANGED <<now, exited, fdVars, functions, map, events, localVars,
                   call, added, ran, timerHist>>

TimerReady == TimerIsReadable(timer_fd, now)

ReadyEvents ==
    {e \in Events : \/ e = "exit" /\ EventIsReadable(exit_event)
                    \/ e = "run_in" /\ EventIsReadable(run_in_event)
                    \/ e = "timer" /\ TimerReady
                    \/ e = "changed" /\ EventIsReadable(changed_event)
                    \/ e = "fd" /\ monitored = "ready"}

\* There is room for an event of each descriptor in events_.
wait ==
    /\ pc = "wait"
    /\ ReadyEvents # {}
    /\ events' \in epoll_wait(ReadyEvents, 5)
    /\ pc' = "dispatch"
    /\ UNCHANGED <<now, exited, fdVars, functions, map, localVars, call, added,
                   ran, timerHist>>

dispatch_end ==
    /\ pc = "dispatch"
    /\ events = <<>>
    /\ pc' = "test"
    /\ UNCHANGED <<now, exited, fdVars, functions, map, events, localVars,
                   call, added, ran, timerHist>>

At(event) == pc = "dispatch" /\ events # <<>> /\ Head(events) = event

dispatch_exit ==
    /\ At("exit")
    /\ exit_event' = EventRead
    /\ events' = <<>>
    /\ UNCHANGED <<now, exited, run_in_event, changed_event, timer_fd,
                   monVars, functions, map, pc, localVars, call, added, ran,
                   timerHist>>

dispatch_run_in ==
    /\ At("run_in")
    /\ run_in_event' = EventRead
    /\ events' = Tail(events)
    /\ pc' = "swap"
    /\ UNCHANGED <<now, exited, exit_event, changed_event, timer_fd, monVars,
                   functions, map, localVars, call, added, ran, timerHist>>

\* The read waits for an expiration if there is none (any more).
dispatch_timer ==
    /\ At("timer")
    /\ TimerReady
    /\ timer_fd' = TimerRead
    /\ events' = Tail(events)
    /\ pc' = "timers"
    /\ dispatch_now' = now
    /\ needed' = FALSE
    /\ current' = 0
    /\ UNCHANGED <<now, exited, exit_event, run_in_event, changed_event,
                   monVars, functions, map, to_dispatch, earliest, call,
                   added, ran, timerHist>>

dispatch_changed ==
    /\ At("changed")
    /\ changed_event' = EventRead
    /\ events' = Tail(events)
    /\ pc' = "earliest"
    /\ UNCHANGED <<now, exited, exit_event, run_in_event, timer_fd, monVars,
                   functions, map, localVars, call, added, ran, timerHist>>

\* fd_data_->dispatch() comes next.
dispatch_fd ==
    /\ At("fd")
    /\ events' = Tail(events)
    /\ pc' = "fd_wait"
    /\ UNCHANGED <<now, exited, fdVars, functions, map, localVars, call, added,
                   ran, timerHist>>

-----------------------------------------------------------------------------
(* FDData::dispatch().                                                     *)

\* The wait for what is ready has no timeout: it is entered because something
\* was, and waits on when that is no longer so.
fd_wait ==
    /\ pc = "fd_wait"
    /\ monitored = "ready"
    /\ pc' = "fd_find"
    /\ UNCHANGED <<now, exited, fdVars, functions, map, events, localVars,
                   call, added, ran, timerHist>>

\* The mutex is taken after it, and what is monitored no more left out.
fd_find ==
    /\ pc = "fd_find"
    /\ pc' = IF monitored = "no" THEN "dispatch" ELSE "fd_callback"
    /\ UNCHANGED <<now, exited, fdVars, functions, map, events, localVars,
                   call, added, ran, timerHist>>

fd_callback_returns ==
    /\ pc = "fd_callback"
    /\ call[Main] = "none"
    /\ pc' = "dispatch"
    /\ UNCHANGED <<now, exited, fdVars, functions, map, events, localVars,
                   call, added, ran, timerHist>>

-----------------------------------------------------------------------------
(* RunInFunctions::dispatch().                                             *)

\* Mutant: one function is taken for each event read.
swap_one ==
    /\ pc = "swap"
    /\ to_dispatch' = SubSeq(functions, 1, 1)
    /\ functions' = SubSeq(functions, 2, Len(functions))
    /\ pc' = "functions"
    /\ UNCHANGED <<now, exited, fdVars, map, events, earliest, dispatch_now,
                   current, needed, call, added, ran, timerHist>>

swap ==
    /\ pc = "swap"
    /\ to_dispatch' = functions
    /\ functions' = <<>>
    /\ pc' = "functions"
    /\ UNCHANGED <<now, exited, fdVars, map, events, earliest, dispatch_now,
                   current, needed, call, added, ran, timerHist>>

call_function ==
    /\ pc = "functions"
    /\ IF to_dispatch = <<>>
       THEN pc' = "dispatch" /\ UNCHANGED <<to_dispatch, ran>>
       ELSE /\ pc' = "function"
            /\ to_dispatch' = Tail(to_dispatch)
            /\ ran' = Head(to_dispatch)
    /\ UNCHANGED <<now, exited, fdVars, functions, map, events, earliest,
                   dispatch_now, current, needed, call, added, timerHist>>

function_returns ==
    /\ pc = "function"
    /\ call[Main] = "none"
    /\ pc' = "functions"
    /\ UNCHANGED <<now, exited, fdVars, functions, map, events, localVars,
                   call, added, ran, timerHist>>

-----------------------------------------------------------------------------
(* TimerData::dispatch() and set_timer_fd_from_timer_data().               *)

Active(k) == map[k].expiration > 0
Expired(k) == Active(k) /\ map[k].expiration <= dispatch_now

\* The timers the for loop still comes to that have expired.
ExpiredAhead == {k \in DOMAIN map : k > current /\ Expired(k)}

\* Mutant: the next expiration counts from now.
RearmFromNow(k) ==
    map' = [map EXCEPT ![k].expiration =
               IF map[k].interval > 0 THEN dispatch_now + map[k].interval ELSE 0]

\* A repeating timer is set to its next expiration, any other deactivated,
\* before the callback gets to change it.
Rearm(k) ==
    map' = [map EXCEPT ![k].expiration =
               IF map[k].interval > 0 THEN @ + map[k].interval ELSE 0]

timer_callback ==
    /\ pc = "timers"
    /\ \E k \in ExpiredAhead :
          /\ \A i \in ExpiredAhead : k <= i
          /\ current' = k
          /\ Rearm(k)
          /\ fired' = [fired EXCEPT ![k] = @ + 1]
    /\ pc' = "callback"
    /\ UNCHANGED <<now, exited, fdVars, functions, events, to_dispatch,
                   earliest, dispatch_now, needed, call, added, ran, sets,
                   first>>

callback_returns ==
    /\ pc = "callback"
    /\ call[Main] = "none"
    /\ needed' = (needed \/ (current \in DOMAIN map /\ Expired(current)))
    /\ pc' = "timers"
    /\ UNCHANGED <<now, exited, fdVars, functions, map, events, to_dispatch,
                   earliest, dispatch_now, current, call, added, ran,
                   timerHist>>

\* The end of the for loop, and of the while loop around it.
timers_end ==
    /\ pc = "timers"
    /\ ExpiredAhead = {}
    /\ current' = 0
    /\ needed' = FALSE
    /\ IF needed
       THEN UNCHANGED <<pc, dispatch_now>>
       ELSE pc' = "earliest" /\ dispatch_now' = 0
    /\ UNCHANGED <<now, exited, fdVars, functions, map, events, to_dispatch,
                   earliest, call, added, ran, timerHist>>

ActiveExpirations == {map[k].expiration : k \in {i \in DOMAIN map : Active(i)}}

\* 0 when no timer is active.
EarliestExpiration ==
    IF ActiveExpirations = {} THEN 0 ELSE Min(ActiveExpirations)

earliest_expiration ==
    /\ pc = "earliest"
    /\ earliest' = EarliestExpiration
    /\ pc' = "settime"
    /\ UNCHANGED <<now, exited, fdVars, functions, map, events, to_dispatch,
                   dispatch_now, current, needed, call, added, ran, timerHist>>

\* Mutant: the event of a change is read only now.
settime_and_read ==
    /\ pc = "settime"
    /\ timer_fd' = IF earliest = 0 THEN timer_disarm ELSE timer_set(earliest)
    /\ earliest' = 0
    /\ changed_event' = FALSE
    /\ pc' = "dispatch"
    /\ UNCHANGED <<now, exited, exit_event, run_in_event, monVars, functions,
                   map, events, to_dispatch, dispatch_now, current, needed,
                   call, added, ran, timerHist>>

\* TimerFD::set() or disarm(): an expiration not read yet is forgotten.
settime ==
    /\ pc = "settime"
    /\ timer_fd' = IF earliest = 0 THEN timer_disarm ELSE timer_set(earliest)
    /\ earliest' = 0
    /\ pc' = "dispatch"
    /\ UNCHANGED <<now, exited, exit_event, run_in_event, changed_event,
                   monVars, functions, map, events, to_dispatch, dispatch_now,
                   current, needed, call, added, ran, timerHist>>

-----------------------------------------------------------------------------

tick ==
    /\ now < MaxTime
    /\ now' = now + 1
    /\ UNCHANGED <<exited, fdVars, functions, map, pc, events, localVars, call,
                   added, ran, timerHist>>

LoopStep ==
    \/ loop_test
    \/ wait
    \/ dispatch_end
    \/ dispatch_exit
    \/ dispatch_run_in
    \/ dispatch_timer
    \/ dispatch_changed
    \/ dispatch_fd
    \/ fd_wait
    \/ fd_find
    \/ fd_callback_returns
    \/ swap
    \/ call_function
    \/ function_returns
    \/ timer_callback
    \/ callback_returns
    \/ timers_end
    \/ earliest_expiration
    \/ settime

WriteStep(u) == run_in_write(u) \/ exit_write(u)

Next ==
    \/ \E u \in Users : run_in(u) \/ exit(u) \/ WriteStep(u)
    \/ \E u \in Users, k \in Timers : start(u, k) \/ stop(u, k) \/ remove(u, k)
    \/ change_monitored
    \/ LoopStep
    \/ tick

Spec == Init /\ [][Next]_vars

\* Time passes, callbacks return and no thread stops within a call.
FairSpec ==
    /\ Spec
    /\ WF_vars(tick)
    /\ WF_vars(LoopStep)
    /\ \A u \in Users : WF_vars(WriteStep(u))

-----------------------------------------------------------------------------
(* Properties.                                                             *)

\* No function is forgotten: while there is one, the event that makes the
\* loop look is set, is about to be set, or has just been read.
NoFunctionForgotten ==
    functions # <<>> =>
        run_in_event \/ pc = "swap" \/ \E u \in Users : call[u] = "run_in"

\* "Functions are invoked in FIFO order" (of the calls of run_in()), none
\* twice and none left out, those added by a running function included.
FunctionsAreInOrder ==
    to_dispatch \o functions = [i \in 1..(added - ran) |-> ran + i]

\* The timer descriptor is armed for the earliest active timer, unless a
\* change is still to be looked at or is being looked at.
TimerFdIsEarliest ==
    \/ changed_event
    \/ pc \in {"timers", "callback", "earliest", "settime"}
    \/ timer_fd = EarliestExpiration

\* What threads do to the loop's data from the outside is noticed.
NothingIsForgotten ==
    TypeOK /\ NoFunctionForgotten /\ FunctionsAreInOrder /\ TimerFdIsEarliest

\* A repeating timer does not drift and makes up for late dispatches: it has
\* fired once for each interval since it was started.  A one-shot timer fires
\* once.  Both count from the last start, also when that was in the callback.
TimersKeepCount ==
    \A k \in DOMAIN map :
        \/ /\ Active(k)
           /\ map[k].expiration = first[k] + fired[k] * map[k].interval
        \/ /\ ~Active(k)
           /\ map[k].interval = 0
           /\ fired[k] = IF first[k] > 0 THEN 1 ELSE 0

\* What the two above rest on.  Outside of RunInFunctions::dispatch() nothing
\* is left of what it took.
NothingLeftToDispatch ==
    /\ pc \notin {"functions", "function"} => to_dispatch = <<>>
    /\ ran <= added

\* What the descriptor is about to be set to has not become wrong unnoticed.
EarliestIsKnown ==
    pc = "settime" => changed_event \/ earliest = EarliestExpiration

\* A one-shot timer that is still to fire has not fired.
OneShotsAreStillToFire ==
    \A k \in DOMAIN map : Active(k) /\ map[k].interval = 0 => fired[k] = 0

IInv ==
    /\ NothingIsForgotten
    /\ TimersKeepCount
    /\ NothingLeftToDispatch
    /\ EarliestIsKnown
    /\ OneShotsAreStillToFire

\* "A main loop is exited with exit()": loop() returns.
ExitEndsLoop == exited ~> pc = "returned"

\* dispatch() reads a timer descriptor that nothing arms any more.
ReadBlocks == At("timer") /\ timer_fd \notin 1..MaxTime

\* FDData::dispatch() waits for descriptors, none of which is ready now.
InnerWaitBlocks == pc = "fd_wait" /\ monitored # "ready"

LoopBlocks == ReadBlocks \/ InnerWaitBlocks

\* loop() returns after exit().  There are two calls, and no others, that may
\* keep it from that, if they block for good: dispatch() reads the timer
\* descriptor, and FDData::dispatch() waits for descriptors, because either
\* was ready before; meanwhile the timer was changed, or the descriptor read
\* or no longer monitored.
OnlyBlockedCallsOutlastExit == exited ~> (pc = "returned" \/ []LoopBlocks)

\* A function given to run_in() is called, unless the loop is exited or
\* blocked for good in one of these two calls.
EveryFunctionRuns ==
    \A f \in 1..MaxFunctions :
        added >= f ~> (ran >= f \/ exited \/ []LoopBlocks)

\* A timer that is due has its callback called, unless it is changed, or the
\* loop is exited or blocked for good in one of these two calls.
DueTimersFire ==
    \A k \in Timers :
        (k \in DOMAIN map /\ Active(k) /\ map[k].expiration <= now)
            ~> (\/ k \notin DOMAIN map \/ ~Active(k)
                \/ map[k].expiration > now \/ exited \/ []LoopBlocks)
=============================================================================

----------------------------- MODULE FDMonitors -----------------------------
(***************************************************************************)
(* lib/system/main_loop.{h,cpp}: FDMonitor objects and the FDData of the   *)
(* main loops they are started in, over the lives of these loops.          *)
(*                                                                         *)
(* FDData has an epoll instance of its own and a map_ from the descriptors *)
(* in it to callbacks.  Its mutex is held by the thread of the loop while  *)
(* it goes through a batch of events and calls callbacks, and by whoever   *)
(* starts or stops a monitor.  An FDMonitor has a weak pointer to FDData   *)
(* and remembers its descriptor in fd_.                                    *)
(*                                                                         *)
(* Each call of FDMonitor is one step, taken when the mutexes it locks are *)
(* free.  Descriptors stay open.                                           *)
(***************************************************************************)
EXTENDS Naturals, Sequences, FiniteSets, LinuxFDs

CONSTANTS
    Loops,       \* main loops, each with a thread that is in loop()
    Monitors,    \* FDMonitor objects
    Fds,         \* descriptors
    None,        \* no FDData (a weak pointer that is empty), -1 for fd_, no call
    BatchSize,   \* size of the array of events in FDData::dispatch()
    Uses,        \* what is done with monitors: a set of elements of MonitorUses
    MaxCalls     \* bound: calls of FDMonitor

\* "again": start() of a started monitor; "callback": calls from callbacks, on
\* monitors of the loop they run in; "callback_other": on any; "restart":
\* start() of a monitor that was started when its main loop was destroyed.
MonitorUses == {"again", "stop", "move", "callback", "callback_other", "restart"}

ASSUME NoneAssumption == None \notin Loops \cup Monitors \cup Fds
ASSUME FdsAssumption == IsFiniteSet(Fds)
ASSUME BatchAssumption == BatchSize \in Nat \ {0}
ASSUME UsesAssumption == Uses \subseteq MonitorUses
ASSUME CallsAssumption == MaxCalls \in Nat

VARIABLES
    watched,    \* descriptors in epoll_ of the FDData of each loop
    map,        \* keys of its map_
    pc,         \* where the thread of each loop is
    events,     \* events it has still to look at
    pending,    \* a call of a callback that may have to wait for a mutex
    exited,     \* loops whose exited_ is set
    failed,     \* history: loops with an error of a system call
    data,       \* fd_data_ of each monitor
    fd,         \* fd_ of each monitor
    ready,      \* descriptors that are ready
    calls       \* history: number of calls of FDMonitor

loopVars == <<pc, events, pending>>
dataVars == <<watched, map, exited, failed>>
monitorVars == <<data, fd>>
vars == <<loopVars, dataVars, monitorVars, ready, calls>>

\* "wait" is in wait() of the loop, "dispatch" before or in epoll_.wait() of
\* FDData, "lock" after it, "batch" in the loop over the events, "callback"
\* in a callback and "calling" in a call of FDMonitor there.
PCs == {"wait", "dispatch", "lock", "batch", "callback", "calling", "returned",
        "destroyed"}

Call == [op : {"start"}, m : Monitors, l : Loops, f : Fds]
    \cup [op : {"stop"}, m : Monitors]
    \cup [op : {"move"}, m : Monitors, n : Monitors]

ASSUME CallAssumption == None \notin Call

TypeOK ==
    /\ watched \in [Loops -> SUBSET Fds]
    /\ map \in [Loops -> SUBSET Fds]
    /\ pc \in [Loops -> PCs]
    /\ events \in [Loops -> Seq(Fds)]
    /\ pending \in [Loops -> Call \cup {None}]
    /\ exited \subseteq Loops
    /\ failed \subseteq exited
    /\ data \in [Monitors -> Loops \cup {None}]
    /\ fd \in [Monitors -> Fds \cup {None}]
    /\ \A m \in Monitors : fd[m] = None <=> data[m] = None
    /\ ready \subseteq Fds
    /\ calls \in 0..MaxCalls

Init ==
    /\ watched = [l \in Loops |-> NothingWatched]
    /\ map = [l \in Loops |-> {}]
    /\ pc = [l \in Loops |-> "wait"]
    /\ events = [l \in Loops |-> <<>>]
    /\ pending = [l \in Loops |-> None]
    /\ exited = {}
    /\ failed = {}
    /\ data = [m \in Monitors |-> None]
    /\ fd = [m \in Monitors |-> None]
    /\ ready = {}
    /\ calls = 0

-----------------------------------------------------------------------------
(* FDData: what add(), modify() and remove() make of the state s of all of *)
(* them.  An epoll_ctl() that fails exits the loop.                        *)

State == [watched |-> watched, map |-> map, failed |-> {}]

\* What epoll_ctl() made of epoll_ of a loop.
log_error_and_exit(s, l, ctl_result) ==
    IF ctl_result.error THEN s.failed \cup {l} ELSE s.failed

Watch(s, l, ctl_result) == [s.watched EXCEPT ![l] = ctl_result.watched]

\* Mutant: no epoll_.add().
add_to_map(s, l, f) ==
    [watched |-> s.watched,
     map     |-> [s.map EXCEPT ![l] = @ \cup {f}],
     failed  |-> s.failed]

add(s, l, f) ==
    LET r == epoll_add(s.watched[l], f)
    IN  [watched |-> Watch(s, l, r),
         map     |-> [s.map EXCEPT ![l] = @ \cup {f}],
         failed  |-> log_error_and_exit(s, l, r)]

modify(s, l, f) ==
    LET r == epoll_modify(s.watched[l], f)
    IN  [watched |-> Watch(s, l, r),
         map     |-> [s.map EXCEPT ![l] = @ \cup {f}],
         failed  |-> log_error_and_exit(s, l, r)]

remove(s, l, f) ==
    LET r == epoll_remove(s.watched[l], f)
    IN  IF f \notin s.map[l] THEN s
        ELSE [watched |-> Watch(s, l, r),
              map     |-> [s.map EXCEPT ![l] = @ \ {f}],
              failed  |-> log_error_and_exit(s, l, r)]

Become(state) ==
    \E s \in {state} :
        /\ watched' = s.watched
        /\ map' = s.map
        /\ failed' = failed \cup s.failed
        /\ exited' = exited \cup s.failed

-----------------------------------------------------------------------------
(* FDMonitor.                                                              *)

Alive(l) == pc[l] # "destroyed"

\* fd_data_.lock().
Lock(m) == IF data[m] # None /\ Alive(data[m]) THEN data[m] ELSE None

\* start(): away from another main loop that still exists, then modify the
\* registration there is, or replace it.
start(m, l, f) ==
    LET old  == Lock(m)
        away == old \notin {l, None}
        s    == IF away THEN remove(State, old, fd[m]) ELSE State
        had  == IF away THEN None ELSE fd[m]
    IN  /\ Become(IF had = f THEN modify(s, l, f)
                  ELSE IF had # None THEN add(remove(s, l, had), l, f)
                  ELSE add(s, l, f))
        /\ data' = [data EXCEPT ![m] = l]
        /\ fd' = [fd EXCEPT ![m] = f]

\* Mutant: fd_ is not reset.
stop_keep_fd(m) ==
    IF Lock(m) = None
    THEN UNCHANGED <<dataVars, monitorVars>>
    ELSE /\ Become(remove(State, Lock(m), fd[m]))
         /\ data' = [data EXCEPT ![m] = None]
         /\ UNCHANGED fd

\* stop() and ~FDMonitor(): nothing is reset when the main loop is gone.
stop(m) ==
    IF Lock(m) = None
    THEN UNCHANGED <<dataVars, monitorVars>>
    ELSE /\ Become(remove(State, Lock(m), fd[m]))
         /\ data' = [data EXCEPT ![m] = None]
         /\ fd' = [fd EXCEPT ![m] = None]

\* n = std::move(m): n is stopped first.
move(m, n) ==
    /\ IF Lock(n) = None
       THEN UNCHANGED dataVars
       ELSE Become(remove(State, Lock(n), fd[n]))
    /\ data' = [data EXCEPT ![n] = data[m], ![m] = None]
    /\ fd' = [fd EXCEPT ![n] = fd[m], ![m] = None]

Do(c) ==
    \/ c.op = "start" /\ start(c.m, c.l, c.f)
    \/ c.op = "stop"  /\ stop(c.m)
    \/ c.op = "move"  /\ move(c.m, c.n)

-----------------------------------------------------------------------------
(* Calls of FDMonitor.                                                     *)

\* A monitor is used by one thread at a time, and a descriptor is monitored
\* once in a main loop.
Used(m) == \E l \in Loops : pending[l] # None
              /\ \/ pending[l].m = m
                 \/ pending[l].op = "move" /\ pending[l].n = m

Claimed(m, l, f) ==
    \/ \E n \in Monitors \ {m} : data[n] = l /\ fd[n] = f
    \/ \E k \in Loops : /\ pending[k] # None
                        /\ pending[k].op = "start"
                        /\ pending[k].l = l /\ pending[k].f = f

Restarted(m) == data[m] # None /\ ~Alive(data[m])

MayCall(c) ==
    /\ calls < MaxCalls
    /\ ~Used(c.m)
    /\ \/ /\ c.op = "start"
          /\ Alive(c.l)
          /\ ~Claimed(c.m, c.l, c.f)
          /\ Lock(c.m) # None => "again" \in Uses
          /\ Restarted(c.m) => "restart" \in Uses
       \/ c.op = "stop" /\ "stop" \in Uses
       \/ c.op = "move" /\ "move" \in Uses /\ c.m # c.n /\ ~Used(c.n)

\* The FDData whose mutex a call locks, and whether the thread of another
\* loop holds one of them (its own a thread can lock again).
Locks(c) ==
    (CASE c.op = "start" -> {c.l, Lock(c.m)}
       [] c.op = "stop"  -> {Lock(c.m)}
       [] c.op = "move"  -> {Lock(c.n)}) \ {None}

Holds(l) == pc[l] \in {"batch", "callback", "calling"}
\* Mutant: the mutex is not recursive.
FreeForAll(c, own) == \A l \in Locks(c) : ~Holds(l)

Free(c, own) == \A l \in Locks(c) \ own : ~Holds(l)

\* A thread that is in none of the loops.
outside_call ==
    \E c \in Call :
        /\ MayCall(c)
        /\ Free(c, {})
        /\ Do(c)
        /\ calls' = calls + 1
        /\ UNCHANGED <<loopVars, ready>>

\* A callback, in two steps.
callback_call(l) ==
    /\ "callback" \in Uses
    /\ pc[l] = "callback"
    /\ \E c \in Call :
          /\ MayCall(c)
          /\ Locks(c) \subseteq {l} \/ "callback_other" \in Uses
          /\ pending' = [pending EXCEPT ![l] = c]
    /\ pc' = [pc EXCEPT ![l] = "calling"]
    /\ calls' = calls + 1
    /\ UNCHANGED <<events, dataVars, monitorVars, ready>>

callback_do(l) ==
    /\ pc[l] = "calling"
    /\ Free(pending[l], {l})
    /\ Do(pending[l])
    /\ pending' = [pending EXCEPT ![l] = None]
    /\ pc' = [pc EXCEPT ![l] = "callback"]
    /\ UNCHANGED <<events, ready, calls>>

-----------------------------------------------------------------------------
(* The thread of a loop.                                                   *)

GoTo(l, where) == pc' = [pc EXCEPT ![l] = where]

ReadyIn(l) == watched[l] \cap ready

\* The epoll instance of FDData is a descriptor of the one of the loop.
wait(l) ==
    /\ pc[l] = "wait"
    /\ ReadyIn(l) # {}
    /\ GoTo(l, "dispatch")
    /\ UNCHANGED <<events, pending, dataVars, monitorVars, ready, calls>>

\* FDData::dispatch() waits again, without a timeout.
dispatch(l) ==
    /\ pc[l] = "dispatch"
    /\ ReadyIn(l) # {}
    /\ \E batch \in epoll_wait(ReadyIn(l), BatchSize) : events' = [events EXCEPT ![l] = batch]
    /\ GoTo(l, "lock")
    /\ UNCHANGED <<pending, dataVars, monitorVars, ready, calls>>

lock(l) ==
    /\ pc[l] = "lock"
    /\ GoTo(l, "batch")
    /\ UNCHANGED <<events, pending, dataVars, monitorVars, ready, calls>>

\* Mutant: map_ is not looked into.
InMapOnceWas(l, f) == TRUE

InMap(l, f) == f \in map[l]

\* The next event: a callback is only called for what is still in map_.
next_event(l) ==
    /\ pc[l] = "batch"
    /\ events[l] # <<>>
    /\ IF InMap(l, Head(events[l]))
       THEN GoTo(l, "callback") /\ UNCHANGED events
       ELSE UNCHANGED pc /\ events' = [events EXCEPT ![l] = Tail(@)]
    /\ UNCHANGED <<pending, dataVars, monitorVars, ready, calls>>

\* The callback has read what made its descriptor ready.
callback_returns(l) ==
    /\ pc[l] = "callback"
    /\ ready' = ready \ {Head(events[l])}
    /\ events' = [events EXCEPT ![l] = Tail(@)]
    /\ GoTo(l, "batch")
    /\ UNCHANGED <<pending, dataVars, monitorVars, calls>>

batch_end(l) ==
    /\ pc[l] = "batch"
    /\ events[l] = <<>>
    /\ GoTo(l, "wait")
    /\ UNCHANGED <<events, pending, dataVars, monitorVars, ready, calls>>

leave(l) ==
    /\ pc[l] = "wait"
    /\ l \in exited
    /\ GoTo(l, "returned")
    /\ UNCHANGED <<events, pending, dataVars, monitorVars, ready, calls>>

-----------------------------------------------------------------------------
(* exit(), ~MainLoop() and descriptors.                                    *)

exit(l) ==
    /\ Alive(l)
    /\ l \notin exited
    /\ exited' = exited \cup {l}
    /\ UNCHANGED <<loopVars, watched, map, failed, monitorVars, ready, calls>>

\* FDData goes with its MainLoop: monitors only have weak pointers to it.  Not
\* while a call is under way that uses it.
destroy(l) ==
    /\ pc[l] = "returned"
    /\ \A k \in Loops : pending[k] # None => l \notin Locks(pending[k])
    /\ GoTo(l, "destroyed")
    /\ watched' = [watched EXCEPT ![l] = {}]
    /\ map' = [map EXCEPT ![l] = {}]
    /\ UNCHANGED <<events, pending, exited, failed, monitorVars, ready, calls>>

becomes_ready(f) ==
    /\ f \notin ready
    /\ ready' = ready \cup {f}
    /\ UNCHANGED <<loopVars, dataVars, monitorVars, calls>>

LoopStep(l) ==
    \/ wait(l)
    \/ dispatch(l)
    \/ lock(l)
    \/ next_event(l)
    \/ callback_do(l)
    \/ callback_returns(l)
    \/ batch_end(l)
    \/ leave(l)

Next ==
    \/ outside_call
    \/ \E l \in Loops : LoopStep(l) \/ callback_call(l) \/ exit(l) \/ destroy(l)
    \/ \E f \in Fds : becomes_ready(f)

Spec == Init /\ [][Next]_vars

\* The threads of the loops run, callbacks return, and a mutex that is free
\* again and again is got in the end.
FairSpec ==
    /\ Spec
    /\ \A l \in Loops : WF_vars(LoopStep(l)) /\ SF_vars(callback_do(l))

-----------------------------------------------------------------------------
(* Properties.                                                             *)

\* What a main loop watches, what it has callbacks for, and what the started
\* monitors believe they monitor there, are the same; so no call of FDMonitor
\* makes a system call fail, which would exit the loop with EXIT_FAILURE.
RegistrationsMatch ==
    /\ TypeOK
    /\ failed = {}
    /\ \A l \in Loops : Alive(l) =>
          /\ watched[l] = map[l]
          /\ map[l] = {fd[m] : m \in {n \in Monitors : data[n] = l}}

\* What that rests on: in a main loop that still exists, no two monitors have
\* the same descriptor.
MonitoredOnce ==
    \A l \in Loops, m, n \in Monitors :
        Alive(l) /\ m # n /\ data[m] = l /\ data[n] = l => fd[m] # fd[n]

\* A call that a callback is about to make is still what the caller is allowed
\* to do, whatever other threads did since it was begun.
CanBeDone(c) ==
    /\ c.op = "start" => /\ Alive(c.l)
                         /\ ~Restarted(c.m)
                         /\ \A n \in Monitors \ {c.m} : data[n] = c.l => fd[n] # c.f
    /\ c.op = "move" => c.m # c.n

MonitorsOf(c) == IF c.op = "move" THEN {c.m, c.n} ELSE {c.m}

\* Calls that are under way do not get in each other's way.
Apart(c, d) ==
    /\ MonitorsOf(c) \cap MonitorsOf(d) = {}
    /\ c.op = "start" /\ d.op = "start" => c.l # d.l \/ c.f # d.f

PendingCallsCanBeDone ==
    \A l \in Loops :
        /\ pending[l] # None <=> pc[l] = "calling"
        /\ pending[l] # None => CanBeDone(pending[l])
        /\ \A k \in Loops \ {l} :
              pending[l] # None /\ pending[k] # None => Apart(pending[k], pending[l])

\* The event a callback is for is still the first of the batch.
CallbacksHaveAnEvent ==
    \A l \in Loops : pc[l] \in {"callback", "calling"} => events[l] # <<>>

IInv ==
    /\ RegistrationsMatch
    /\ MonitoredOnce
    /\ PendingCallsCanBeDone
    /\ CallbacksHaveAnEvent

\* A callback is called only while its descriptor is monitored in the loop,
\* whatever the callbacks of the same batch, or other threads since epoll
\* filled in the batch, did.
CalledOnlyWhileMonitored ==
    [][\A l \in Loops :
          pc[l] = "batch" /\ pc'[l] = "callback"
              => \E m \in Monitors : data[m] = l /\ fd[m] = Head(events[l])]_vars

\* Callbacks of two loops that each call FDMonitor on the other.
EachWaitsForTheOther(l) ==
    \E k \in Loops \ {l} :
        /\ pc[l] = "calling" /\ k \in Locks(pending[l])
        /\ pc[k] = "calling" /\ l \in Locks(pending[k])

\* A call of FDMonitor in a callback comes to its end, unless its mutexes are
\* taken in the opposite order by a callback of another loop.
CallsReturn ==
    \A l \in Loops : pc[l] = "calling" ~> (pc[l] # "calling" \/ EachWaitsForTheOther(l))

\* A descriptor that is ready while it is monitored is handled, unless the
\* loop is exited or blocked in a call of FDMonitor as above: whatever is
\* stopped or moved between the two waits for it.
ReadyFdsAreHandled ==
    \A l \in Loops, f \in Fds :
        (f \in map[l] /\ f \in ready)
            ~> (\/ f \notin map[l] \/ f \notin ready \/ l \in exited
                \/ \E k \in Loops : EachWaitsForTheOther(k))
=============================================================================

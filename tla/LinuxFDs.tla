------------------------------ MODULE LinuxFDs ------------------------------
(***************************************************************************)
(* lib/system/linux/{epoll,event_fd,timer_fd}.h: what the calls of the     *)
(* wrappers make of the state that the kernel has for a descriptor.        *)
(*   - An epoll instance is the set of descriptors that are watched.       *)
(*   - An eventfd is whether its counter is above zero: it never gets near *)
(*     its maximum.                                                        *)
(*   - A timerfd is the time it is armed for, 0 when it is not armed or    *)
(*     its expiration has been read.                                       *)
(* The wrappers try again when a signal interrupts a call (EINTR), so that *)
(* does not show.                                                          *)
(***************************************************************************)
EXTENDS Naturals, FiniteSets, Functions

-----------------------------------------------------------------------------
(* Epoll.                                                                  *)

\* epoll_create1()
NothingWatched == {}

\* epoll_ctl(): EEXIST for a descriptor that is added twice, ENOENT for one
\* that is not watched; nothing changes then.
ctl(op, watched, fd) ==
    [watched |-> IF op = "EPOLL_CTL_ADD" THEN watched \cup {fd}
                 ELSE IF op = "EPOLL_CTL_DEL" THEN watched \ {fd} ELSE watched,
     error   |-> (op = "EPOLL_CTL_ADD") = (fd \in watched)]

epoll_add(watched, fd)    == ctl("EPOLL_CTL_ADD", watched, fd)
epoll_modify(watched, fd) == ctl("EPOLL_CTL_MOD", watched, fd)
epoll_remove(watched, fd) == ctl("EPOLL_CTL_DEL", watched, fd)

\* What epoll_wait() may fill an array with: as many as there is room for.
\* The order is that of the ready list of the kernel, where a descriptor that
\* has been reported keeps its place until the next wait even if it is read
\* meanwhile: any order can come up.
epoll_wait(ready, max_events) ==
    LET n == IF Cardinality(ready) < max_events THEN Cardinality(ready) ELSE max_events
    IN  {events \in [1..n -> ready] : IsInjective(events)}

-----------------------------------------------------------------------------
(* EventFD.  Its read() blocks while the counter is zero, and resets it.   *)

EventCreated == FALSE

event_write(counter, value) == counter \/ value > 0

EventIsReadable(counter) == counter

EventRead == FALSE

-----------------------------------------------------------------------------
(* TimerFD.  Its read() blocks until there is an expiration.               *)

Second == 2  \* in moments of the clock

time_spec_from_ns(ns) == [tv_sec |-> ns \div Second, tv_nsec |-> ns % Second]

\* it_value of zero disarms; in any case an expiration that was not read yet
\* is forgotten.
timer_settime(spec) == spec.tv_sec * Second + spec.tv_nsec

timer_set(expiration) == timer_settime(time_spec_from_ns(expiration))
timer_disarm          == timer_settime([tv_sec |-> 0, tv_nsec |-> 0])

TimerIsReadable(timer, now) == timer # timer_disarm /\ timer <= now

TimerRead == 0
=============================================================================

------------------------------- MODULE Timers -------------------------------
(***************************************************************************)
(* lib/system/main_loop.{h,cpp}: Timer objects that are started, stopped,  *)
(* moved and destroyed, and the TimerData of the main loops they are       *)
(* started in, which they may outlive.  (How timers fire is in             *)
(* MainLoop.tla.)                                                          *)
(*                                                                         *)
(* A Timer has a weak pointer to a TimerData and an id, the key of its     *)
(* entry in map_ there.  The callback of an entry is that of the Timer     *)
(* which set it, and moves with it.                                        *)
(***************************************************************************)
EXTENDS Naturals, FiniteSets

CONSTANTS
    Loops,         \* main loops
    TimerObjects,  \* objects of class Timer
    TimerIds,      \* ids that generate_id() may find
    NoTimerData,   \* an empty weak pointer
    NoTimer,       \* there is no such object
    Uses           \* {"restart"}, if Timers that outlived a main loop are
                   \* started again, or {}

TIMER_ID_EMPTY == 0

VARIABLES
    alive,        \* loops that are not destroyed
    map_,         \* of the TimerData of each loop: whether each entry is active
    timer_data_,  \* of each Timer, or NoTimer
    id_,
    wanted        \* history: a Timer was last started, and not stopped

timerVars == <<timer_data_, id_, wanted>>
vars == <<alive, map_, timerVars>>

Init ==
    /\ alive = Loops
    /\ map_ = [l \in Loops |-> <<>>]
    /\ timer_data_ = [t \in TimerObjects |-> NoTimer]
    /\ id_ = [t \in TimerObjects |-> TIMER_ID_EMPTY]
    /\ wanted = [t \in TimerObjects |-> FALSE]

-----------------------------------------------------------------------------
(* TimerData.                                                              *)

\* The hash of the Timer's address may be any number; it is hashed on until
\* there is no entry for it.
generate_id(l) == TimerIds \ DOMAIN map_[l]

\* Where the entry for id goes.
IdsToSet(l, id) == IF id = TIMER_ID_EMPTY THEN generate_id(l) ELSE {id}

Set(entries, id, active) ==
    [i \in DOMAIN entries \cup {id} |-> IF i = id THEN active ELSE entries[i]]

Erase(entries, id) == [i \in DOMAIN entries \ {id} |-> entries[i]]

-----------------------------------------------------------------------------
(* Timer.                                                                  *)

Exists(t) == timer_data_[t] # NoTimer

\* timer_data_.lock()
Lock(t) == IF timer_data_[t] \in alive THEN timer_data_[t] ELSE NoTimerData

\* What remove() makes of all map_, and of the Timer: nothing is reset when
\* the main loop is gone.
remove(t) ==
    IF Lock(t) = NoTimerData THEN [map |-> map_, data |-> timer_data_[t], id |-> id_[t]]
    ELSE [map  |-> [map_ EXCEPT ![Lock(t)] = Erase(@, id_[t])],
          data |-> NoTimerData,
          id   |-> TIMER_ID_EMPTY]

construct(t) ==
    /\ ~Exists(t)
    /\ timer_data_' = [timer_data_ EXCEPT ![t] = NoTimerData]
    /\ UNCHANGED <<alive, map_, id_, wanted>>

Outlived(t) == timer_data_[t] \in Loops \ alive

\* start() and start_repeat(): away from another main loop, if that exists.
\* A Timer that outlived its main loop sets the entry for its old id, whose
\* ever that is in the new one.
start(t, l) ==
    /\ Exists(t) /\ l \in alive
    /\ Outlived(t) => "restart" \in Uses
    /\ LET left == IF Lock(t) = l THEN [map |-> map_, id |-> id_[t]] ELSE remove(t)
       IN  \E id \in IdsToSet(l, left.id) :
               /\ map_' = [left.map EXCEPT ![l] = Set(@, id, TRUE)]
               /\ id_' = [id_ EXCEPT ![t] = id]
    /\ timer_data_' = [timer_data_ EXCEPT ![t] = l]
    /\ wanted' = [wanted EXCEPT ![t] = TRUE]
    /\ UNCHANGED alive

\* The entry stays.
stop(t) ==
    /\ Exists(t)
    /\ IF Lock(t) = NoTimerData THEN UNCHANGED <<map_, id_>>
       ELSE \E id \in IdsToSet(Lock(t), id_[t]) :
                /\ map_' = [map_ EXCEPT ![Lock(t)] = Set(@, id, FALSE)]
                /\ id_' = [id_ EXCEPT ![t] = id]
    /\ wanted' = [wanted EXCEPT ![t] = FALSE]
    /\ UNCHANGED <<alive, timer_data_>>

\* What t becomes when other is moved to it, and other.
Moved(t, other) ==
    /\ timer_data_' = [timer_data_ EXCEPT ![t] = timer_data_[other], ![other] = NoTimerData]
    /\ id_' = [id_ EXCEPT ![t] = id_[other], ![other] = TIMER_ID_EMPTY]
    /\ wanted' = [wanted EXCEPT ![t] = wanted[other], ![other] = FALSE]
    /\ UNCHANGED alive

move_construct(t, other) ==
    /\ ~Exists(t) /\ Exists(other)
    /\ Moved(t, other)
    /\ UNCHANGED map_

move_assign(t, other) ==
    /\ t # other /\ Exists(t) /\ Exists(other)
    /\ map_' = remove(t).map
    /\ Moved(t, other)

\* ~Timer()
destroy(t) ==
    /\ Exists(t)
    /\ map_' = remove(t).map
    /\ timer_data_' = [timer_data_ EXCEPT ![t] = NoTimer]
    /\ id_' = [id_ EXCEPT ![t] = TIMER_ID_EMPTY]
    /\ wanted' = [wanted EXCEPT ![t] = FALSE]
    /\ UNCHANGED alive

\* ~MainLoop(): its TimerData goes with it, Timers have weak pointers only.
destroy_loop(l) ==
    /\ l \in alive
    /\ alive' = alive \ {l}
    /\ map_' = [map_ EXCEPT ![l] = <<>>]
    /\ UNCHANGED timerVars

Next ==
    \/ \E t \in TimerObjects : construct(t) \/ stop(t) \/ destroy(t)
    \/ \E t \in TimerObjects, l \in Loops : start(t, l)
    \/ \E t, other \in TimerObjects : move_construct(t, other) \/ move_assign(t, other)
    \/ \E l \in Loops : destroy_loop(l)

Spec == Init /\ [][Next]_vars

-----------------------------------------------------------------------------
(***************************************************************************)
(* However Timers are moved between objects and main loops, each entry of  *)
(* a main loop belongs to one Timer that exists, and fires if that was     *)
(* started and not stopped; a Timer that was started in a main loop that   *)
(* exists has its entry there.  That is, without "restart".                *)
(***************************************************************************)
TimersOf(l, id) == {t \in TimerObjects : timer_data_[t] = l /\ id_[t] = id}

EntriesBelongToTimers ==
    \A l \in alive :
        /\ \A id \in DOMAIN map_[l] :
              \E t \in TimerObjects : TimersOf(l, id) = {t} /\ map_[l][id] = wanted[t]
        /\ \A t \in TimerObjects : timer_data_[t] = l => id_[t] \in DOMAIN map_[l]
=============================================================================

----------------------------- MODULE Ownership -----------------------------
(***************************************************************************)
(* Objects that own or point to each other, while they are created, moved  *)
(* and destroyed in any order: lists and listeners, Variants, handles and  *)
(* mappings, Timers, and callbacks of the log.  They have nothing in       *)
(* common, and each behaviour is about one of them.                        *)
(***************************************************************************)
EXTENDS ListenerList, Sequences, FiniteSets

CONSTANTS
    Variables, Elements, MaxElements,
    Results, UniqueFDs, Descriptors, Errors,
    VoidResults, Files, Addresses, Dirs, Paths,
    Loops, TimerObjects, TimerIds, NoTimerData, NoTimer, Uses,
    Loggers, Callbacks, default_callback, NotSet

VARIABLES
    of,                                       \* what the behaviour is about
    parent_, elements,                        \* of Variants; exists is of their places, too
    result, fd_, open, allocated, misused,    \* of handles
    error_, data_, mapped, path_, on_disk,    \* of mappings; also the two before
    alive, map_, timer_data_, id_, wanted,    \* of Timers
    callback, colorize, at, config            \* of the log

ASSUME DescriptorsAssumption == Descriptors \subseteq Nat
ASSUME ErrorsAssumption == Errors \subseteq Nat \ {0}
ASSUME TimerIdsAssumption == TimerIds \subseteq Nat \ {0} /\ IsFiniteSet(TimerIds)
ASSUME AddressesAssumption == Addresses \cup Paths \subseteq Nat \ {0}
\* An object has one class, and what marks none is no main loop.
ASSUME HandlesAssumption == Results \cap UniqueFDs = {}
ASSUME NoTimerAssumption == NoTimer # NoTimerData /\ {NoTimer, NoTimerData} \cap Loops = {}

Trees     == INSTANCE VariantTree
Handling  == INSTANCE Handles
TimerUse  == INSTANCE Timers
Logging   == INSTANCE Log

listVars   == <<listeners_, list_>>
treeVars   == <<parent_, elements>>
handleVars == <<result, fd_, open>>
ownedVars  == <<allocated, misused>>
mappingVars == <<error_, data_, mapped, path_, on_disk>>
timerVars  == <<alive, map_, timer_data_, id_, wanted>>
logVars    == <<callback, colorize, at, config>>
vars == <<of, exists, listVars, treeVars, handleVars, ownedVars, mappingVars, timerVars, logVars>>

NoList    == listeners_ = [a \in Lists |-> Nobody] /\ list_ = [l \in Listeners |-> None]
NoTree    == parent_ = <<>> /\ elements = <<>>
NoHandle  == result = <<>> /\ fd_ = <<>> /\ open = {}
NoOwned   == allocated = {} /\ misused = FALSE
NoMapping == error_ = <<>> /\ data_ = <<>> /\ mapped = {} /\ path_ = <<>> /\ on_disk = {}
NoTimers  == alive = {} /\ map_ = <<>> /\ timer_data_ = <<>> /\ id_ = <<>> /\ wanted = <<>>
NoLog     == callback = <<>> /\ colorize = <<>> /\ at = <<>> /\ config = <<>>

Init ==
    \/ /\ of = "lists" /\ InitLists
       /\ NoTree /\ NoHandle /\ NoOwned /\ NoMapping /\ NoTimers /\ NoLog
    \/ /\ of = "variants" /\ Trees!Init
       /\ NoList /\ NoHandle /\ NoOwned /\ NoMapping /\ NoTimers /\ NoLog
    \/ /\ of = "handles" /\ Handling!Init
       /\ exists = {} /\ NoList /\ NoTree /\ NoMapping /\ NoTimers /\ NoLog
    \/ /\ of = "mappings" /\ Handling!InitMappings
       /\ exists = {} /\ NoList /\ NoTree /\ NoHandle /\ NoTimers /\ NoLog
    \/ /\ of = "timers" /\ TimerUse!Init
       /\ exists = {} /\ NoList /\ NoTree /\ NoHandle /\ NoOwned /\ NoMapping /\ NoLog
    \/ /\ of = "log" /\ Logging!Init
       /\ exists = {} /\ NoList /\ NoTree /\ NoHandle /\ NoOwned /\ NoMapping /\ NoTimers

Next ==
    \/ /\ of = "lists" /\ NextLists
       /\ UNCHANGED <<of, treeVars, handleVars, ownedVars, mappingVars, timerVars, logVars>>
    \/ /\ of = "variants" /\ Trees!Next
       /\ UNCHANGED <<of, listVars, handleVars, ownedVars, mappingVars, timerVars, logVars>>
    \/ /\ of = "handles" /\ Handling!Next
       /\ UNCHANGED <<of, exists, listVars, treeVars, mappingVars, timerVars, logVars>>
    \/ /\ of = "mappings" /\ Handling!NextMappings
       /\ UNCHANGED <<of, exists, listVars, treeVars, handleVars, timerVars, logVars>>
    \/ /\ of = "timers" /\ TimerUse!Next
       /\ UNCHANGED <<of, exists, listVars, treeVars, handleVars, ownedVars, mappingVars, logVars>>
    \/ /\ of = "log" /\ Logging!Next
       /\ UNCHANGED <<of, exists, listVars, treeVars, handleVars, ownedVars, mappingVars, timerVars>>

Spec == Init /\ [][Next]_vars

-----------------------------------------------------------------------------
\* Every part of a Variant points to what it is in, and its path leads to it
\* (variant.cpp).
PathsLeadToVariants == of = "variants" => Trees!PathsLead

(***************************************************************************)
(* Descriptors, errors, mapped files and directories are held by one       *)
(* object, until they are closed, deleted, unmapped or removed             *)
(* (unique_fd.h, result.h, memory_mapped_file.h, scoped_temp_dir.h); the   *)
(* entry of a main loop for a timer belongs to one Timer, which may be     *)
(* moved, or outlive the loop (main_loop.h); a callback of the log is set, *)
(* or given back and no more in use (log.cpp).                             *)
(***************************************************************************)
EverythingIsHeldOnce ==
    /\ of = "handles"  => Handling!HeldOnce
    /\ of = "mappings" => Handling!MappingsHeldOnce
    /\ of = "timers"   => TimerUse!EntriesBelongToTimers
    /\ of = "log"      => Logging!CallbacksHeldOnce
=============================================================================

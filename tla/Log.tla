-------------------------------- MODULE Log --------------------------------
(***************************************************************************)
(* lib/log.cpp: threads log messages, with the callback that is set when   *)
(* the message is ready, while others set a LogConfig and get the old one  *)
(* back, to be set again or to be destroyed.  What is set, and what was,   *)
(* is in that one LogConfig of the thread.                                 *)
(***************************************************************************)
CONSTANTS
    Loggers,          \* threads
    Callbacks,        \* what may be in a std::function of type LogCallback
    default_callback,
    NotSet            \* an empty std::function or std::optional

VARIABLES
    callback,  \* of State
    colorize,  \* of State
    at,        \* of each thread, [in, callback]: the function of this module
               \* that it is in, and the callback that it is called by
    config     \* of each thread, a LogConfig

Outside    == [in |-> "nothing", calls |-> NotSet]
AtCallback == [in |-> "log", calls |-> NotSet]
AtColorize == [in |-> "log_set_config", calls |-> NotSet]

NoConfig == [callback |-> NotSet, colorize |-> NotSet]

\* Whether stdout is a terminal.
default_output_supports_color == BOOLEAN

State ==
    /\ callback = default_callback
    /\ colorize \in default_output_supports_color

Init ==
    /\ State
    /\ at = [t \in Loggers |-> Outside]
    /\ config = [t \in Loggers |-> NoConfig]

Held == {callback} \cup {config[t].callback : t \in Loggers}

\* A LogConfig, with a std::function of its own or without one.
Configs == [callback : {NotSet} \cup (Callbacks \ Held), colorize : {NotSet} \cup BOOLEAN]

\* Another takes the place of what a thread has.
new_config(t, c) ==
    /\ at[t] = Outside
    /\ config' = [config EXCEPT ![t] = c]
    /\ UNCHANGED <<callback, colorize, at>>

-----------------------------------------------------------------------------
\* The message is made, from its level and what colorize is now (Strings).
prepend_prefix(t) ==
    /\ at[t] = Outside
    /\ at' = [at EXCEPT ![t] = AtCallback]
    /\ UNCHANGED <<callback, colorize, config>>

log_info(t)    == prepend_prefix(t)
log_warning(t) == prepend_prefix(t)
log_error(t)   == prepend_prefix(t)

HasSharedLock(t) == at[t].calls # NotSet

invoke_callback(t) ==
    /\ at[t] = AtCallback
    /\ at' = [at EXCEPT ![t].calls = callback]
    /\ UNCHANGED <<callback, colorize, config>>

callback_returns(t) ==
    /\ HasSharedLock(t)
    /\ at' = [at EXCEPT ![t] = Outside]
    /\ UNCHANGED <<callback, colorize, config>>

MayLock(t) == \A u \in Loggers : ~HasSharedLock(u)

set_callback(t) ==
    /\ at[t] = Outside
    /\ config[t].callback # NotSet => MayLock(t)
    /\ at' = [at EXCEPT ![t] = AtColorize]
    /\ IF config[t].callback = NotSet THEN UNCHANGED <<callback, config>>
       ELSE /\ config' = [config EXCEPT ![t].callback = callback]
            /\ callback' = config[t].callback
    /\ UNCHANGED colorize

set_colorize(t) ==
    /\ at[t] = AtColorize
    /\ at' = [at EXCEPT ![t] = Outside]
    /\ IF config[t].colorize = NotSet THEN UNCHANGED <<colorize, config>>
       ELSE /\ config' = [config EXCEPT ![t].colorize = colorize]
            /\ colorize' = config[t].colorize
    /\ UNCHANGED callback

log_set_config(t) == set_callback(t) \/ set_colorize(t)

Next ==
    \E t \in Loggers :
        \/ \E c \in Configs : new_config(t, c)
        \/ log_info(t) \/ log_warning(t) \/ log_error(t)
        \/ invoke_callback(t) \/ callback_returns(t)
        \/ log_set_config(t)

-----------------------------------------------------------------------------
\* A callback is set or in one LogConfig, and it is set as long as a thread is
\* in it.
CallbacksHeldOnce ==
    /\ \A t, u \in Loggers :
        config[t].callback # NotSet =>
            /\ config[t].callback # callback
            /\ t # u => config[t].callback # config[u].callback
    /\ \A t \in Loggers : HasSharedLock(t) => at[t].calls = callback
=============================================================================

------------------------------ MODULE TaskPool ------------------------------
(***************************************************************************)
(* What a thread pool promises to those who use it, without threads,       *)
(* mutexes or condition variables: tasks start in the order in which they  *)
(* were added, at most Size of them run at a time, none is lost or run     *)
(* twice while the pool is open, wait() is left only when nothing is       *)
(* queued or running, and closing the pool lets the running tasks finish   *)
(* and drops the queued ones.                                              *)
(***************************************************************************)
EXTENDS Naturals, Sequences, FiniteSets, Functions

CONSTANTS
    Size,       \* most tasks that run at a time
    Tasks, Clients,
    MaxBatch    \* bound: most tasks that are added at once

VARIABLES
    queue,      \* tasks that have not started, in the order they were added
    running,    \* tasks that have started and not finished
    finished,   \* tasks that have finished
    waiting,    \* clients inside wait()
    open        \* the pool has not been closed

vars == <<queue, running, finished, waiting, open>>

Init ==
    /\ queue = <<>>
    /\ running = {}
    /\ finished = {}
    /\ waiting = {}
    /\ open = TRUE

\* New tasks get in at the end of the queue, from the outside while the pool
\* is open and from running tasks as long as there are any.
Submit ==
    \E new \in UNION {Injection(1..n, Tasks) : n \in 1..MaxBatch} :
        /\ open \/ running # {}
        /\ queue' = queue \o new
        /\ Range(new) \cap (Range(queue) \cup running \cup finished) = {}
        /\ UNCHANGED <<running, finished, waiting, open>>

Start ==
    /\ open
    /\ queue # <<>>
    /\ Cardinality(running) < Size
    /\ running' = running \cup {Head(queue)}
    /\ queue' = Tail(queue)
    /\ UNCHANGED <<finished, waiting, open>>

Finish(t) ==
    /\ t \in running
    /\ running' = running \ {t}
    /\ finished' = finished \cup {t}
    /\ UNCHANGED <<queue, waiting, open>>

Enter(c) ==
    /\ open
    /\ waiting' = waiting \cup {c}
    /\ UNCHANGED <<queue, running, finished, open>>

Leave(c) ==
    /\ c \in waiting
    /\ queue = <<>>
    /\ running = {}
    /\ waiting' = waiting \ {c}
    /\ UNCHANGED <<queue, running, finished, open>>

Close ==
    /\ open
    /\ waiting = {}
    /\ open' = FALSE
    /\ UNCHANGED <<queue, running, finished, waiting>>

Drop ==
    /\ ~open
    /\ running = {}
    /\ queue # <<>>
    /\ queue' = <<>>
    /\ UNCHANGED <<running, finished, waiting, open>>

Next ==
    \/ Submit
    \/ Start
    \/ \E t \in Tasks : Finish(t)
    \/ \E c \in Clients : Enter(c) \/ Leave(c)
    \/ Close
    \/ Drop

\* A queued task starts when there is room, a running one finishes, a client
\* leaves wait() when the pool stays idle, a closed pool is emptied.
Fairness ==
    /\ WF_vars(Start)
    /\ \A t \in Tasks : WF_vars(Finish(t))
    /\ \A c \in Clients : WF_vars(Leave(c))
    /\ WF_vars(Drop)

SafetySpec == Init /\ [][Next]_vars

Spec == SafetySpec /\ Fairness
=============================================================================

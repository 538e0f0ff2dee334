---------------------------- MODULE ListenerList ----------------------------
(***************************************************************************)
(* lib/containers/listener_list.h: lists and listeners that point to each  *)
(* other, and are created, moved and destroyed in any order.               *)
(*                                                                         *)
(* Of listeners_ it is known how often each listener is in it; the order   *)
(* in which they are notified is left out, and so are callbacks that       *)
(* change the list that notifies.                                          *)
(***************************************************************************)
EXTENDS Integers

CONSTANTS
    Lists,      \* objects of class ListenerList
    Listeners,  \* objects of classes derived from ListenerBase
    None        \* nullptr

ASSUME NoneAssumption == None \notin Lists
ASSUME ObjectsAssumption == Lists \cap Listeners = {}

VARIABLES
    exists,      \* the objects that there are now
    listeners_,  \* of each list, how often each listener is in it
    list_        \* of each listener

listenerVars == <<exists, listeners_, list_>>

Nobody == [l \in Listeners |-> 0]

TypeOK ==
    /\ exists \in SUBSET (Lists \cup Listeners)
    /\ listeners_ \in [Lists -> [Listeners -> Nat]]
    /\ list_ \in [Listeners -> Lists \cup {None}]

InitLists ==
    /\ exists = {}
    /\ listeners_ = [a \in Lists |-> Nobody]
    /\ list_ = [l \in Listeners |-> None]

-----------------------------------------------------------------------------
(* Methods, as what they do to <<listeners_, list_>>.                      *)

State == [listeners |-> listeners_, list |-> list_]

Become(s) == listeners_' = s.listeners /\ list_' = s.list

\* ListenerList::remove(): the first of the pointers to listener, if there is one.
Remove(s, a, l) ==
    IF s.listeners[a][l] = 0 THEN s
    ELSE [listeners |-> [s.listeners EXCEPT ![a][l] = @ - 1], list |-> [s.list EXCEPT ![l] = None]]

RemoveFromItsList(s, l) == IF s.list[l] = None THEN s ELSE Remove(s, s.list[l], l)

Insert(s, a, l) ==
    [listeners |-> [s.listeners EXCEPT ![a][l] = @ + 1], list |-> [s.list EXCEPT ![l] = a]]

\* Mutant: the list that the listener is in is not told.
AddWithoutRemove(s, a, l) == IF s.list[l] = a THEN s ELSE Insert(s, a, l)

\* ListenerList::add()
Add(s, a, l) == IF s.list[l] = a THEN s ELSE Insert(RemoveFromItsList(s, l), a, l)

\* The vector of b is moved to a, and listeners point to a.
TakeListeners(a, b) ==
    [listeners |-> [listeners_ EXCEPT ![a] = listeners_[b], ![b] = Nobody],
     list |-> [l \in Listeners |-> IF listeners_[b][l] > 0 THEN a ELSE list_[l]]]

-----------------------------------------------------------------------------
create_list(a) ==
    /\ a \in Lists \ exists
    /\ exists' = exists \cup {a}
    /\ UNCHANGED <<listeners_, list_>>

move_construct_list(a, b) ==
    /\ a \in Lists \ exists
    /\ b \in Lists \cap exists
    /\ Become(TakeListeners(a, b))
    /\ exists' = exists \cup {a}

(***************************************************************************)
(* Assigned to are lists without listeners only: others are forgotten with *)
(* their list_ as it was, and then they call a list that is destroyed.     *)
(***************************************************************************)
move_assign_list(a, b) ==
    /\ {a, b} \subseteq Lists \cap exists
    /\ a # b
    /\ listeners_[a] = Nobody
    /\ Become(TakeListeners(a, b))
    /\ UNCHANGED exists

destroy_list(a) ==
    /\ a \in Lists \cap exists
    /\ exists' = exists \ {a}
    /\ listeners_' = [listeners_ EXCEPT ![a] = Nobody]
    /\ list_' = [l \in Listeners |-> IF listeners_[a][l] > 0 THEN None ELSE list_[l]]

create_listener(l) ==
    /\ l \in Listeners \ exists
    /\ exists' = exists \cup {l}
    /\ list_' = [list_ EXCEPT ![l] = None]
    /\ UNCHANGED listeners_

destroy_listener(l) ==
    /\ l \in Listeners \cap exists
    /\ Become(RemoveFromItsList(State, l))
    /\ exists' = exists \ {l}

move_assign_listener(l, other) ==
    /\ {l, other} \subseteq Listeners \cap exists
    /\ LET a == list_[other]
       IN  Become(IF a # None THEN Add(Remove(State, a, other), a, l)
                  ELSE RemoveFromItsList(State, l))
    /\ UNCHANGED exists

add(a, l) ==
    /\ a \in Lists \cap exists
    /\ l \in Listeners \cap exists
    /\ Become(Add(State, a, l))
    /\ UNCHANGED exists

remove(a, l) ==
    /\ a \in Lists \cap exists
    /\ l \in Listeners \cap exists
    /\ Become(Remove(State, a, l))
    /\ UNCHANGED exists

NextLists ==
    \/ \E a \in Lists : create_list(a) \/ destroy_list(a)
    \/ \E a, b \in Lists : move_construct_list(a, b) \/ move_assign_list(a, b)
    \/ \E l \in Listeners : create_listener(l) \/ destroy_listener(l)
    \/ \E l, other \in Listeners : move_assign_listener(l, other)
    \/ \E a \in Lists, l \in Listeners : add(a, l) \/ remove(a, l)

SpecLists == InitLists /\ [][NextLists]_listenerVars

-----------------------------------------------------------------------------
(***************************************************************************)
(* A listener is in the list it points to, once, and in no other; and what *)
(* points to each other exists.  So notify() calls every listener of the   *)
(* list once and never one that is destroyed, and no destructor calls a    *)
(* list that is destroyed.                                                 *)
(***************************************************************************)
InItsListOnce ==
    \A a \in Lists, l \in Listeners : listeners_[a][l] = IF list_[l] = a THEN 1 ELSE 0

LinkedObjectsExist ==
    \A l \in Listeners : list_[l] # None => l \in exists /\ list_[l] \in exists

PointersAgree == InItsListOnce /\ LinkedObjectsExist
=============================================================================

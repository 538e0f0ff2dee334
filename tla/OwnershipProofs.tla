--------------------------- MODULE OwnershipProofs ---------------------------
(***************************************************************************)
(* Whatever the objects are and in whatever order they are created, moved, *)
(* changed and destroyed: lists and listeners agree about each other, and  *)
(* what is owned has one owner.                                            *)
(***************************************************************************)
EXTENDS Ownership, TLAPS

(***************************************************************************)
(* The methods work on the pointers alone: what they do to them is stated  *)
(* of such a state, and then of the steps, which also create and destroy.  *)
(***************************************************************************)
States == [listeners : [Lists -> [Listeners -> Nat]], list : [Listeners -> Lists \cup {None}]]

Agree(s) ==
    /\ s \in States
    /\ \A a \in Lists, l \in Listeners : s.listeners[a][l] = IF s.list[l] = a THEN 1 ELSE 0

Inv == TypeOK /\ PointersAgree

LEMMA InvAgrees == Inv => Agree(State)
  BY DEF Inv, TypeOK, PointersAgree, InItsListOnce, Agree, State, States

\* remove() unlinks a listener of the list, and does nothing to another.
LEMMA RemoveUnlinks ==
  ASSUME NEW s, Agree(s), NEW a \in Lists, NEW l \in Listeners
  PROVE  /\ Agree(Remove(s, a, l))
         /\ Remove(s, a, l).list = [s.list EXCEPT ![l] = IF s.list[l] = a THEN None ELSE @]
<1>1. CASE s.list[l] = a
  <2> DEFINE t == [listeners |-> [s.listeners EXCEPT ![a][l] = @ - 1],
                   list |-> [s.list EXCEPT ![l] = None]]
  <2>1. s.listeners[a][l] = 1
    BY <1>1 DEF Agree
  <2>2. Remove(s, a, l) = t
    BY <2>1 DEF Remove
  <2>3. t \in States
    BY <2>1 DEF Agree, States
  <2>4. ASSUME NEW b \in Lists, NEW m \in Listeners
        PROVE  t.listeners[b][m] = IF t.list[m] = b THEN 1 ELSE 0
    <3>1. CASE m = l
      BY <3>1, <2>1, <1>1, NoneAssumption DEF Agree, States
    <3>2. CASE m # l
      BY <3>2 DEF Agree, States
    <3> QED BY <3>1, <3>2
  <2>5. Agree(t)
    BY <2>3, <2>4 DEF Agree
  <2> QED BY <2>2, <2>5, <1>1
<1>2. CASE s.list[l] # a
  <2>1. Remove(s, a, l) = s
    BY <1>2 DEF Agree, Remove
  <2> QED BY <2>1, <1>2 DEF Agree, States
<1> QED BY <1>1, <1>2

\* A listener that was removed from the list it points to points to none.
LEMMA RemoveFromItsListUnlinks ==
  ASSUME NEW s, Agree(s), NEW l \in Listeners
  PROVE  /\ Agree(RemoveFromItsList(s, l))
         /\ RemoveFromItsList(s, l).list = [s.list EXCEPT ![l] = None]
<1>1. CASE s.list[l] = None
  <2>1. s.list = [s.list EXCEPT ![l] = None]
    BY <1>1 DEF Agree, States
  <2> QED BY <1>1, <2>1 DEF RemoveFromItsList
<1>2. CASE s.list[l] # None
  <2>1. s.list[l] \in Lists
    BY <1>2 DEF Agree, States
  <2>2. RemoveFromItsList(s, l) = Remove(s, s.list[l], l)
    BY <1>2 DEF RemoveFromItsList
  <2> QED BY <2>1, <2>2, RemoveUnlinks
<1> QED BY <1>1, <1>2

LEMMA InsertLinks ==
  ASSUME NEW s, Agree(s), NEW a \in Lists, NEW l \in Listeners, s.list[l] = None
  PROVE  /\ Agree(Insert(s, a, l))
         /\ Insert(s, a, l).list = [s.list EXCEPT ![l] = a]
<1> DEFINE t == Insert(s, a, l)
<1>1. \A b \in Lists : s.listeners[b][l] = 0
  BY NoneAssumption DEF Agree
<1>2. t \in States
  BY DEF Agree, States, Insert
<1>3. ASSUME NEW b \in Lists, NEW m \in Listeners
      PROVE  t.listeners[b][m] = IF t.list[m] = b THEN 1 ELSE 0
  <2>1. CASE m = l
    BY <2>1, <1>1 DEF Agree, States, Insert
  <2>2. CASE m # l
    BY <2>2 DEF Agree, States, Insert
  <2> QED BY <2>1, <2>2
<1> QED BY <1>2, <1>3 DEF Agree, Insert

\* add() leaves the listener in the list it is added to, and in no other.
LEMMA AddLinks ==
  ASSUME NEW s, Agree(s), NEW a \in Lists, NEW l \in Listeners
  PROVE  /\ Agree(Add(s, a, l))
         /\ Add(s, a, l).list = [s.list EXCEPT ![l] = a]
<1>1. CASE s.list[l] = a
  BY <1>1 DEF Add, Agree, States
<1>2. CASE s.list[l] # a
  <2> DEFINE r == RemoveFromItsList(s, l)
  <2>1. Agree(r) /\ r.list = [s.list EXCEPT ![l] = None]
    BY RemoveFromItsListUnlinks
  <2>2. r.list[l] = None
    BY <2>1 DEF Agree, States
  <2>3. Add(s, a, l) = Insert(r, a, l)
    BY <1>2 DEF Add
  <2> HIDE DEF r
  <2>4. Agree(Insert(r, a, l)) /\ Insert(r, a, l).list = [r.list EXCEPT ![l] = a]
    <3>1. Agree(r) /\ a \in Lists /\ l \in Listeners /\ r.list[l] = None
      BY <2>1, <2>2
    <3> QED BY ONLY <3>1, InsertLinks
  <2>5. [r.list EXCEPT ![l] = a] = [s.list EXCEPT ![l] = a]
    BY <2>1 DEF Agree, States
  <2> QED BY <2>3, <2>4, <2>5
<1> QED BY <1>1, <1>2

\* The listeners of one list become those of another, which had none.
LEMMA TakeListenersLinks ==
  ASSUME TypeOK, InItsListOnce, NEW a \in Lists, NEW b \in Lists, a # b,
         \A l \in Listeners : list_[l] # a
  PROVE  /\ Agree(TakeListeners(a, b))
         /\ TakeListeners(a, b).list =
              [l \in Listeners |-> IF list_[l] = b THEN a ELSE list_[l]]
<1> DEFINE t == TakeListeners(a, b)
<1>1. ASSUME NEW l \in Listeners
      PROVE  listeners_[b][l] > 0 <=> list_[l] = b
  BY DEF InItsListOnce
<1>2. t.list = [l \in Listeners |-> IF list_[l] = b THEN a ELSE list_[l]]
  BY <1>1 DEF TakeListeners
<1>3. t \in States
  BY DEF TypeOK, States, TakeListeners, Nobody
<1>4. ASSUME NEW c \in Lists, NEW l \in Listeners
      PROVE  t.listeners[c][l] = IF t.list[l] = c THEN 1 ELSE 0
  <2>1. CASE c = a
    BY <2>1, <1>2 DEF TakeListeners, TypeOK, InItsListOnce
  <2>2. CASE c = b
    BY <2>2, <1>2 DEF TakeListeners, TypeOK, InItsListOnce, Nobody
  <2>3. CASE c # a /\ c # b
    BY <2>3, <1>2 DEF TakeListeners, TypeOK, InItsListOnce
  <2> QED BY <2>1, <2>2, <2>3
<1> QED BY <1>2, <1>3, <1>4 DEF Agree

\* What the pointers are after a step is enough for the invariant.
LEMMA AgreementIsEnough ==
  ASSUME NEW s, Agree(s), Become(s),
         exists' \in SUBSET (Lists \cup Listeners),
         \A l \in Listeners : s.list[l] # None => l \in exists' /\ s.list[l] \in exists'
  PROVE  Inv'
  BY DEF Agree, States, Become, Inv, TypeOK, PointersAgree, InItsListOnce, LinkedObjectsExist

-----------------------------------------------------------------------------
LEMMA InitiallyAgree == InitLists => Inv
  BY NoneAssumption
  DEF InitLists, Inv, TypeOK, PointersAgree, InItsListOnce, LinkedObjectsExist, Nobody

LEMMA StepsKeepAgreement == Inv /\ [NextLists]_listenerVars => Inv'
<1> SUFFICES ASSUME Inv, [NextLists]_listenerVars
             PROVE  Inv'
  OBVIOUS
<1> USE DEF Inv
<1>0. Agree(State) /\ State.list = list_
  BY InvAgrees DEF State
<1>1. ASSUME NEW a \in Lists, create_list(a)
      PROVE  Inv'
  BY <1>1 DEF create_list, TypeOK, PointersAgree, InItsListOnce, LinkedObjectsExist
<1>2. ASSUME NEW a \in Lists, destroy_list(a)
      PROVE  Inv'
  <2>1. TypeOK'
    BY <1>2 DEF destroy_list, TypeOK, Nobody
  <2>2. \A l \in Listeners : list_'[l] = IF list_[l] = a THEN None ELSE list_[l]
    BY <1>2 DEF destroy_list, PointersAgree, InItsListOnce
  <2>3. InItsListOnce'
    <3> SUFFICES ASSUME NEW b \in Lists, NEW l \in Listeners
                 PROVE  listeners_'[b][l] = IF list_'[l] = b THEN 1 ELSE 0
      BY DEF InItsListOnce
    <3>1. CASE b = a
      BY <3>1, <2>2, <1>2, NoneAssumption DEF destroy_list, TypeOK, Nobody
    <3>2. CASE b # a
      BY <3>2, <2>2, <1>2, NoneAssumption DEF destroy_list, TypeOK, PointersAgree, InItsListOnce
    <3> QED BY <3>1, <3>2
  <2>4. LinkedObjectsExist'
    BY <2>2, <1>2, ObjectsAssumption DEF destroy_list, TypeOK, PointersAgree, LinkedObjectsExist
  <2> QED BY <2>1, <2>3, <2>4 DEF PointersAgree
<1>3. ASSUME NEW a \in Lists, NEW b \in Lists, move_construct_list(a, b)
      PROVE  Inv'
  <2>1. a # b /\ \A l \in Listeners : list_[l] # a
    BY <1>3, NoneAssumption DEF move_construct_list, PointersAgree, LinkedObjectsExist
  <2> DEFINE t == TakeListeners(a, b)
  <2>2. Agree(t) /\ t.list = [l \in Listeners |-> IF list_[l] = b THEN a ELSE list_[l]]
    BY <2>1, TakeListenersLinks DEF PointersAgree
  <2> QED BY <1>3, <2>2, AgreementIsEnough, NoneAssumption
          DEF move_construct_list, TypeOK, PointersAgree, LinkedObjectsExist
<1>4. ASSUME NEW a \in Lists, NEW b \in Lists, move_assign_list(a, b)
      PROVE  Inv'
  <2>1. \A l \in Listeners : listeners_[a][l] = 0
    BY <1>4 DEF move_assign_list, Nobody
  <2>2. a # b /\ \A l \in Listeners : list_[l] # a
    BY <2>1, <1>4 DEF move_assign_list, PointersAgree, InItsListOnce
  <2> DEFINE t == TakeListeners(a, b)
  <2>3. Agree(t) /\ t.list = [l \in Listeners |-> IF list_[l] = b THEN a ELSE list_[l]]
    BY <2>2, TakeListenersLinks DEF PointersAgree
  <2> QED BY <1>4, <2>3, AgreementIsEnough, NoneAssumption
          DEF move_assign_list, TypeOK, PointersAgree, LinkedObjectsExist
<1>5. ASSUME NEW l \in Listeners, create_listener(l)
      PROVE  Inv'
  <2>1. list_' = list_
    BY <1>5, NoneAssumption DEF create_listener, TypeOK, PointersAgree, LinkedObjectsExist
  <2> QED BY <1>5, <2>1
          DEF create_listener, TypeOK, PointersAgree, InItsListOnce, LinkedObjectsExist
<1>6. ASSUME NEW l \in Listeners, destroy_listener(l)
      PROVE  Inv'
  <2> DEFINE t == RemoveFromItsList(State, l)
  <2>1. Agree(t) /\ t.list = [list_ EXCEPT ![l] = None]
    BY <1>0, RemoveFromItsListUnlinks
  <2> QED BY <1>6, <2>1, AgreementIsEnough, ObjectsAssumption
          DEF destroy_listener, TypeOK, PointersAgree, LinkedObjectsExist
<1>7. ASSUME NEW l \in Listeners, NEW other \in Listeners, move_assign_listener(l, other)
      PROVE  Inv'
  <2>1. CASE list_[other] # None
    <3> DEFINE a == list_[other]
               r == Remove(State, a, other)
               t == Add(r, a, l)
    <3>1. a \in Lists /\ a \in exists
      BY <2>1 DEF TypeOK, PointersAgree, LinkedObjectsExist
    <3>2. Agree(r) /\ r.list = [list_ EXCEPT ![other] = None]
      BY <3>1, <1>0, RemoveUnlinks
    <3>3. Become(t) /\ l \in exists /\ UNCHANGED exists
      BY <1>7, <2>1 DEF move_assign_listener
    <3>4. Agree(r) /\ a \in Lists /\ l \in Listeners
      BY <3>1, <3>2
    <3> HIDE DEF r, a
    <3>5. Agree(t) /\ t.list = [r.list EXCEPT ![l] = a]
      BY ONLY <3>4, AddLinks
    <3> USE DEF a
    <3> HIDE DEF t
    <3> QED BY <3>1, <3>2, <3>3, <3>5, AgreementIsEnough
            DEF TypeOK, PointersAgree, LinkedObjectsExist
  <2>2. CASE list_[other] = None
    <3> DEFINE t == RemoveFromItsList(State, l)
    <3>1. Agree(t) /\ t.list = [list_ EXCEPT ![l] = None]
      BY <1>0, RemoveFromItsListUnlinks
    <3>2. Become(t) /\ UNCHANGED exists
      BY <1>7, <2>2 DEF move_assign_listener
    <3> HIDE DEF t
    <3> QED BY <3>1, <3>2, AgreementIsEnough
            DEF TypeOK, PointersAgree, LinkedObjectsExist
  <2> QED BY <2>1, <2>2
<1>8. ASSUME NEW a \in Lists, NEW l \in Listeners, add(a, l)
      PROVE  Inv'
  <2> DEFINE t == Add(State, a, l)
  <2>1. Agree(t) /\ t.list = [list_ EXCEPT ![l] = a]
    BY <1>0, AddLinks
  <2> QED BY <1>8, <2>1, AgreementIsEnough
          DEF add, TypeOK, PointersAgree, LinkedObjectsExist
<1>9. ASSUME NEW a \in Lists, NEW l \in Listeners, remove(a, l)
      PROVE  Inv'
  <2> DEFINE t == Remove(State, a, l)
  <2>1. Agree(t) /\ t.list = [list_ EXCEPT ![l] = IF list_[l] = a THEN None ELSE @]
    BY <1>0, RemoveUnlinks
  <2> QED BY <1>9, <2>1, AgreementIsEnough
          DEF remove, TypeOK, PointersAgree, LinkedObjectsExist
<1>10. CASE UNCHANGED listenerVars
  BY <1>10
  DEF listenerVars, TypeOK, PointersAgree, InItsListOnce, LinkedObjectsExist
<1> QED BY <1>1, <1>2, <1>3, <1>4, <1>5, <1>6, <1>7, <1>8, <1>9, <1>10 DEF NextLists

(***************************************************************************)
(* Lists and listeners always agree about each other, and what is linked   *)
(* exists: so notify() calls every listener of the list once and none that *)
(* is destroyed, and no destructor calls a list that is destroyed.         *)
(***************************************************************************)
THEOREM ListsAndListenersAgree == SpecLists => []PointersAgree
<1>1. Inv => PointersAgree
  BY DEF Inv
<1> QED BY InitiallyAgree, StepsKeepAgreement, <1>1, PTL DEF SpecLists
-----------------------------------------------------------------------------
(***************************************************************************)
(* Things of any kind and the objects that hold them: of those in X, each  *)
(* that there is has one holder, and the others have none.                 *)
(***************************************************************************)
HeldIn(holding, existing, X) ==
    \A x \in X : LET holders == {o \in DOMAIN holding : holding[o] = x}
                 IN  IF x \in existing THEN Handling!IsSingle(holders) ELSE holders = {}

\* The same, of one and two holders at a time.
Once(holding, existing, X) ==
    /\ \A o, p \in DOMAIN holding : holding[o] = holding[p] /\ holding[o] \in X => o = p
    /\ \A o \in DOMAIN holding : holding[o] \in X => holding[o] \in existing
    /\ \A x \in X : x \in existing => \E o \in DOMAIN holding : holding[o] = x

LEMMA OnceIsHeldIn ==
  ASSUME NEW h, NEW existing, NEW X
  PROVE  Once(h, existing, X) => HeldIn(h, existing, X)
<1> SUFFICES ASSUME Once(h, existing, X), NEW x \in X
             PROVE  IF x \in existing THEN Handling!IsSingle({o \in DOMAIN h : h[o] = x})
                    ELSE {o \in DOMAIN h : h[o] = x} = {}
  BY DEF HeldIn
<1>1. CASE x \in existing
  <2>1. PICK o \in DOMAIN h : h[o] = x
    BY <1>1 DEF Once
  <2>2. {p \in DOMAIN h : h[p] = x} = {o}
    BY <2>1 DEF Once
  <2> QED BY <1>1, <2>2 DEF Handling!IsSingle
<1>2. CASE x \notin existing
  BY <1>2 DEF Once
<1> QED BY <1>1, <1>2

LEMMA MoveHolds ==
  ASSUME NEW S, NEW V, NEW h \in [S -> V], NEW existing, NEW X, NEW e, e \notin X,
         NEW a \in S, NEW b \in S, a # b, Once(h, existing, X), NEW g,
         g = [h EXCEPT ![a] = h[b], ![b] = e]
  PROVE  Once(g, existing \ {h[a]}, X)
<1>1. /\ DOMAIN g = S /\ DOMAIN h = S
      /\ g[a] = h[b] /\ g[b] = e
      /\ \A o \in S \ {a, b} : g[o] = h[o]
  OBVIOUS
<1> HIDE DEF Once
<1>2. ASSUME NEW o \in S, NEW p \in S, g[o] = g[p], g[o] \in X
      PROVE  o = p
  BY <1>1, <1>2 DEF Once
<1>3. ASSUME NEW o \in S, g[o] \in X
      PROVE  g[o] \in existing \ {h[a]}
  BY <1>1, <1>3 DEF Once
<1>4. ASSUME NEW x \in X, x \in existing \ {h[a]}
      PROVE  \E o \in S : g[o] = x
  <2>1. PICK o \in S : h[o] = x
    BY <1>1, <1>4 DEF Once
  <2>2. g[a] = x \/ g[o] = x
    BY <1>1, <1>4, <2>1
  <2> QED BY <2>1, <2>2
<1> QED BY <1>1, <1>2, <1>3, <1>4 DEF Once

LEMMA DropHolds ==
  ASSUME NEW S, NEW V, NEW h \in [S -> V], NEW existing, NEW X, NEW e, e \notin X,
         NEW a \in S, Once(h, existing, X), NEW g, g = [h EXCEPT ![a] = e]
  PROVE  Once(g, existing \ {h[a]}, X)
<1>1. /\ DOMAIN g = S /\ DOMAIN h = S
      /\ g[a] = e
      /\ \A o \in S \ {a} : g[o] = h[o]
  OBVIOUS
<1> QED BY <1>1 DEF Once

LEMMA TakeHolds ==
  ASSUME NEW S, NEW V, NEW h \in [S -> V], NEW existing, NEW X, NEW x \in X,
         NEW a \in S, x \notin existing \ {h[a]}, Once(h, existing, X),
         NEW g, g = [h EXCEPT ![a] = x]
  PROVE  Once(g, (existing \ {h[a]}) \cup {x}, X)
<1>1. /\ DOMAIN g = S /\ DOMAIN h = S
      /\ g[a] = x
      /\ \A o \in S \ {a} : g[o] = h[o]
  OBVIOUS
<1>2. \A o \in S \ {a} : h[o] # x
  BY <1>1 DEF Once
<1> QED BY <1>1, <1>2 DEF Once

-----------------------------------------------------------------------------
(* Handles: what holds a descriptor and what holds an Error.               *)

FDs == Descriptors \cup {Handling!NoFD}

FdHolders == Results \cup UniqueFDs

FdIn == [o \in FdHolders |->
    IF o \in UniqueFDs THEN fd_[o]
    ELSE IF result[o].is_error THEN Handling!NoFD ELSE result[o].holds]

ErrorIn == [r \in Results |-> IF result[r].is_error THEN result[r].holds ELSE Handling!NULL]

HandlesTypeOK ==
    /\ result \in [Results -> [is_error : BOOLEAN, holds : Int]]
    /\ \A r \in Results : IF result[r].is_error THEN result[r].holds \in Errors \cup {Handling!NULL}
                          ELSE result[r].holds \in FDs \cup {Handling!Absent}
    /\ fd_ \in [UniqueFDs -> FDs \cup {Handling!Absent}]
    /\ open \subseteq Descriptors
    /\ allocated \subseteq Errors

HandlesInv ==
    /\ HandlesTypeOK
    /\ ~misused
    /\ Once(FdIn, open, Descriptors)
    /\ Once(ErrorIn, allocated, Errors)

LEMMA HandlesInvImpliesHeldOnce == HandlesInv => Handling!HeldOnce
<1> SUFFICES ASSUME HandlesInv PROVE Handling!HeldOnce
  OBVIOUS
<1> USE DEF HandlesInv, HandlesTypeOK, FDs, Handling!NoFD, Handling!NULL, Handling!Absent
<1>1. ASSUME NEW fd \in Descriptors
      PROVE  Handling!HoldersOf(fd) = {o \in DOMAIN FdIn : FdIn[o] = fd}
  <2>1. fd # -1 /\ fd # -2
    BY DescriptorsAssumption
  <2>2. ASSUME NEW r \in Results
        PROVE  result[r] = Handling!WithFD(fd) <=> ~result[r].is_error /\ result[r].holds = fd
    BY DEF Handling!WithFD
  <2> QED BY <2>1, <2>2, HandlesAssumption DEF Handling!HoldersOf, FdIn, FdHolders
<1>2. ASSUME NEW e \in Errors
      PROVE  Handling!HoldersOfError(e) = {r \in DOMAIN ErrorIn : ErrorIn[r] = e}
  <2>1. e # 0
    BY ErrorsAssumption
  <2>2. ASSUME NEW r \in Results
        PROVE  result[r] = Handling!WithError(e) <=> result[r].is_error /\ result[r].holds = e
    BY DEF Handling!WithError
  <2> QED BY <2>1, <2>2 DEF Handling!HoldersOfError, ErrorIn
<1>3. HeldIn(FdIn, open, Descriptors) /\ HeldIn(ErrorIn, allocated, Errors)
  BY OnceIsHeldIn
<1> QED BY <1>1, <1>2, <1>3, Zenon DEF Handling!HeldOnce, HeldIn

LEMMA HandlesInit == Handling!Init => HandlesInv
<1> SUFFICES ASSUME Handling!Init PROVE HandlesInv
  OBVIOUS
<1> USE DEF Handling!Init, Handling!NoResult, FDs, Handling!NoFD, Handling!NULL, Handling!Absent
<1>1. HandlesTypeOK
  BY DEF HandlesTypeOK
<1>2. Once(FdIn, open, Descriptors)
  <2>1. ASSUME NEW o \in FdHolders PROVE FdIn[o] = -2
    <3>1. CASE o \in UniqueFDs
      BY <3>1 DEF FdIn
    <3>2. CASE o \notin UniqueFDs
      <4>1. o \in Results /\ result[o] = [is_error |-> FALSE, holds |-> -2]
        BY <3>2 DEF FdHolders
      <4> QED BY <3>2, <4>1 DEF FdIn
    <3> QED BY <3>1, <3>2
  <2>2. DOMAIN FdIn = FdHolders /\ open = {} /\ -2 \notin Descriptors
    BY DescriptorsAssumption DEF FdIn
  <2> QED BY <2>1, <2>2 DEF Once
<1>3. Once(ErrorIn, allocated, Errors)
  <2>1. \A r \in Results : ErrorIn[r] = 0
    BY DEF ErrorIn
  <2> QED BY <2>1, ErrorsAssumption DEF Once, ErrorIn
<1> QED BY <1>1, <1>2, <1>3 DEF HandlesInv

(***************************************************************************)
(* What a step does to the holders: each action is one or two of moving,   *)
(* dropping and taking.                                                    *)
(***************************************************************************)
LEMMA HoldersTypes ==
  ASSUME HandlesInv
  PROVE  /\ FdIn \in [FdHolders -> FDs \cup {Handling!Absent}]
         /\ ErrorIn \in [Results -> Errors \cup {Handling!NULL}]
BY DEF HandlesInv, HandlesTypeOK, FdIn, ErrorIn, FdHolders, FDs, Handling!NoFD, Handling!NULL

\* What is closed or deleted is what is held, and so it is there.
LEMMA CloseWhatIsHeld ==
  ASSUME HandlesInv, NEW o \in FdHolders, FdIn[o] # Handling!Absent, Handling!Close(FdIn[o])
  PROVE  ~misused' /\ open' = open \ {FdIn[o]} /\ allocated' = allocated
<1>1. FdIn[o] \in Descriptors \cup {Handling!NoFD}
  BY HoldersTypes DEF FDs
<1>2. FdIn[o] \in open \cup {Handling!NoFD}
  BY <1>1 DEF HandlesInv, Once, FdIn
<1> QED BY <1>2 DEF HandlesInv, Handling!Close

LEMMA DeleteWhatIsHeld ==
  ASSUME HandlesInv, NEW r \in Results, Handling!Delete(ErrorIn[r])
  PROVE  ~misused' /\ allocated' = allocated \ {ErrorIn[r]} /\ open' = open
<1>1. ErrorIn[r] \in allocated \cup {Handling!NULL}
  BY HoldersTypes DEF HandlesInv, Once, ErrorIn
<1> QED BY <1>1 DEF HandlesInv, Handling!Delete

LEMMA ResetWhatIsHeld ==
  ASSUME HandlesInv, NEW r \in Results, Handling!Exists(r), Handling!reset(r)
  PROVE  /\ ~misused'
         /\ open' = open \ {FdIn[r]}
         /\ allocated' = allocated \ {ErrorIn[r]}
<1>0. r \notin UniqueFDs /\ r \in FdHolders
  BY HandlesAssumption DEF FdHolders
<1>1. CASE result[r].is_error
  <2>1. ErrorIn[r] = result[r].holds /\ FdIn[r] = Handling!NoFD
    BY <1>0, <1>1 DEF ErrorIn, FdIn
  <2>2. Handling!NoFD \notin open
    BY DescriptorsAssumption DEF HandlesInv, HandlesTypeOK, Handling!NoFD
  <2> QED BY <1>1, <2>1, <2>2, DeleteWhatIsHeld DEF Handling!reset
<1>2. CASE ~result[r].is_error
  <2>1. ErrorIn[r] = Handling!NULL /\ FdIn[r] = result[r].holds
    BY <1>0, <1>2 DEF ErrorIn, FdIn
  <2>2. Handling!NULL \notin allocated
    BY ErrorsAssumption DEF HandlesInv, HandlesTypeOK, Handling!NULL
  <2>3. result[r].holds # Handling!Absent
    BY <1>2 DEF Handling!Exists, Handling!NoResult, HandlesInv, HandlesTypeOK
  <2> QED BY <1>0, <1>2, <2>1, <2>2, <2>3, CloseWhatIsHeld DEF Handling!reset
<1> QED BY <1>1, <1>2

ResultsTypeOK ==
    /\ result \in [Results -> [is_error : BOOLEAN, holds : Int]]
    /\ \A r \in Results : IF result[r].is_error THEN result[r].holds \in Errors \cup {Handling!NULL}
                          ELSE result[r].holds \in FDs \cup {Handling!Absent}

LEMMA ResultChanges ==
  ASSUME HandlesInv, NEW r \in Results, NEW v, fd_' = fd_, result' = [result EXCEPT ![r] = v],
         \/ \E fd \in FDs \cup {Handling!Absent} : v = Handling!WithFD(fd)
         \/ \E e \in Errors : v = Handling!WithError(e)
  PROVE  /\ ResultsTypeOK'
         /\ FdIn' = [FdIn EXCEPT ![r] = IF v.is_error THEN Handling!NoFD ELSE v.holds]
         /\ ErrorIn' = [ErrorIn EXCEPT ![r] = IF v.is_error THEN v.holds ELSE Handling!NULL]
<1>0. r \notin UniqueFDs
  BY HandlesAssumption
<1>1. /\ v \in [is_error : BOOLEAN, holds : Int]
      /\ IF v.is_error THEN v.holds \in Errors \cup {Handling!NULL}
         ELSE v.holds \in FDs \cup {Handling!Absent}
  <2>1. ASSUME NEW fd \in FDs \cup {Handling!Absent}, v = [is_error |-> FALSE, holds |-> fd]
        PROVE  v \in [is_error : BOOLEAN, holds : Int] /\ ~v.is_error /\ v.holds = fd
    <3>1. fd \in Int
      BY DescriptorsAssumption DEF FDs, Handling!NoFD, Handling!Absent
    <3> QED BY <2>1, <3>1
  <2>2. ASSUME NEW e \in Errors, v = [is_error |-> TRUE, holds |-> e]
        PROVE  v \in [is_error : BOOLEAN, holds : Int] /\ v.is_error /\ v.holds = e
    BY <2>2, ErrorsAssumption
  <2> QED BY <2>1, <2>2 DEF Handling!WithFD, Handling!WithError
<1>2. ResultsTypeOK'
  BY <1>1 DEF ResultsTypeOK, HandlesInv, HandlesTypeOK
<1>3. /\ result'[r] = v
      /\ \A q \in Results \ {r} : result'[q] = result[q]
  BY DEF HandlesInv, HandlesTypeOK
<1> DEFINE fd == IF v.is_error THEN Handling!NoFD ELSE v.holds
           e  == IF v.is_error THEN v.holds ELSE Handling!NULL
<1>4. FdIn' = [FdIn EXCEPT ![r] = fd]
  <2>1. FdIn'[r] = fd
    BY <1>0, <1>3 DEF FdIn, FdHolders
  <2>2. \A o \in FdHolders \ {r} : FdIn'[o] = FdIn[o]
    BY <1>3 DEF FdIn, FdHolders
  <2>3. /\ FdIn = [o \in FdHolders |-> FdIn[o]]
        /\ FdIn' = [o \in FdHolders |-> FdIn'[o]]
    BY DEF FdIn
  <2> HIDE DEF fd
  <2> QED BY <2>1, <2>2, <2>3
<1>5. ErrorIn' = [ErrorIn EXCEPT ![r] = e]
  <2>1. ErrorIn'[r] = e
    BY <1>3 DEF ErrorIn
  <2>2. \A o \in Results \ {r} : ErrorIn'[o] = ErrorIn[o]
    BY <1>3 DEF ErrorIn
  <2>3. /\ ErrorIn = [o \in Results |-> ErrorIn[o]]
        /\ ErrorIn' = [o \in Results |-> ErrorIn'[o]]
    BY DEF ErrorIn
  <2> HIDE DEF e
  <2> QED BY <2>1, <2>2, <2>3
<1> QED BY <1>2, <1>4, <1>5

LEMMA ResultIsFd ==
  ASSUME HandlesInv, NEW r \in Results, NEW fd \in FDs \cup {Handling!Absent}, fd_' = fd_,
         result' = [result EXCEPT ![r] = Handling!WithFD(fd)]
  PROVE  /\ ResultsTypeOK'
         /\ FdIn' = [FdIn EXCEPT ![r] = fd]
         /\ ErrorIn' = [ErrorIn EXCEPT ![r] = Handling!NULL]
<1>1. PICK v : v = Handling!WithFD(fd)
  OBVIOUS
<1>2. v.is_error = FALSE /\ v.holds = fd
  BY <1>1 DEF Handling!WithFD
<1> DEFINE f == IF v.is_error THEN Handling!NoFD ELSE v.holds
           e == IF v.is_error THEN v.holds ELSE Handling!NULL
<1>3. ResultsTypeOK' /\ FdIn' = [FdIn EXCEPT ![r] = f] /\ ErrorIn' = [ErrorIn EXCEPT ![r] = e]
  BY <1>1, ResultChanges
<1>4. f = fd /\ e = Handling!NULL
  BY <1>2
<1> HIDE DEF f, e
<1> QED BY <1>3, <1>4

LEMMA ResultIsError ==
  ASSUME HandlesInv, NEW r \in Results, NEW error \in Errors, fd_' = fd_,
         result' = [result EXCEPT ![r] = Handling!WithError(error)]
  PROVE  /\ ResultsTypeOK'
         /\ FdIn' = [FdIn EXCEPT ![r] = Handling!NoFD]
         /\ ErrorIn' = [ErrorIn EXCEPT ![r] = error]
<1>1. PICK v : v = Handling!WithError(error)
  OBVIOUS
<1>2. v.is_error = TRUE /\ v.holds = error
  BY <1>1 DEF Handling!WithError
<1> DEFINE f == IF v.is_error THEN Handling!NoFD ELSE v.holds
           e == IF v.is_error THEN v.holds ELSE Handling!NULL
<1>3. ResultsTypeOK' /\ FdIn' = [FdIn EXCEPT ![r] = f] /\ ErrorIn' = [ErrorIn EXCEPT ![r] = e]
  BY <1>1, ResultChanges
<1>4. f = Handling!NoFD /\ e = error
  BY <1>2
<1> HIDE DEF f, e
<1> QED BY <1>3, <1>4

LEMMA ResultMoves ==
  ASSUME HandlesInv, NEW r \in Results, NEW other \in Results, r # other, fd_' = fd_,
         result' = [result EXCEPT ![r] = result[other], ![other] = Handling!Moved(result[other])]
  PROVE  /\ ResultsTypeOK'
         /\ FdIn' = [FdIn EXCEPT ![r] = FdIn[other], ![other] = Handling!NoFD]
         /\ ErrorIn' = [ErrorIn EXCEPT ![r] = ErrorIn[other], ![other] = Handling!NULL]
<1>0. r \notin UniqueFDs /\ other \notin UniqueFDs
  BY HandlesAssumption
<1> DEFINE m == Handling!Moved(result[other])
<1>1. /\ m \in [is_error : BOOLEAN, holds : Int]
      /\ m.is_error = result[other].is_error
      /\ m.holds = IF m.is_error THEN Handling!NULL ELSE Handling!NoFD
  <2>1. result[other].is_error \in BOOLEAN
    BY DEF HandlesInv, HandlesTypeOK
  <2>2. CASE result[other].is_error
    <3>1. m = [is_error |-> TRUE, holds |-> Handling!NULL]
      BY <2>2 DEF Handling!Moved, Handling!WithError
    <3> QED BY <2>2, <3>1 DEF Handling!NULL
  <2>3. CASE ~result[other].is_error
    <3>1. m = [is_error |-> FALSE, holds |-> Handling!NoFD]
      BY <2>3 DEF Handling!Moved, Handling!WithFD
    <3>2. result[other].is_error = FALSE
      BY <2>1, <2>3
    <3> HIDE DEF m
    <3>3. m.is_error = FALSE /\ m.holds = Handling!NoFD
      BY <3>1
    <3>4. m \in [is_error : BOOLEAN, holds : Int]
      BY <3>1 DEF Handling!NoFD
    <3> QED BY <3>2, <3>3, <3>4
  <2> QED BY <2>2, <2>3
<1> HIDE DEF m
<1>2. /\ result'[r] = result[other]
      /\ result'[other] = m
      /\ \A q \in Results \ {r, other} : result'[q] = result[q]
      /\ result' \in [Results -> [is_error : BOOLEAN, holds : Int]]
  BY <1>1 DEF HandlesInv, HandlesTypeOK, m
<1>3. ResultsTypeOK'
  BY <1>1, <1>2 DEF ResultsTypeOK, HandlesInv, HandlesTypeOK, FDs
<1>4. FdIn' = [FdIn EXCEPT ![r] = FdIn[other], ![other] = Handling!NoFD]
  BY <1>0, <1>1, <1>2 DEF FdIn, FdHolders
<1>5. ErrorIn' = [ErrorIn EXCEPT ![r] = ErrorIn[other], ![other] = Handling!NULL]
  BY <1>1, <1>2 DEF ErrorIn
<1> QED BY <1>3, <1>4, <1>5

LEMMA FdChanges ==
  ASSUME HandlesInv, NEW u \in UniqueFDs, NEW fd \in FDs \cup {Handling!Absent},
         fd_' = [fd_ EXCEPT ![u] = fd], result' = result
  PROVE  /\ fd_' \in [UniqueFDs -> FDs \cup {Handling!Absent}]
         /\ ResultsTypeOK'
         /\ FdIn' = [FdIn EXCEPT ![u] = fd]
         /\ ErrorIn' = ErrorIn
<1>1. u \notin Results
  BY HandlesAssumption
<1>2. /\ fd_' \in [UniqueFDs -> FDs \cup {Handling!Absent}]
      /\ fd_'[u] = fd
      /\ \A v \in UniqueFDs \ {u} : fd_'[v] = fd_[v]
  BY DEF HandlesInv, HandlesTypeOK
<1>3. FdIn' = [FdIn EXCEPT ![u] = fd]
  BY <1>1, <1>2 DEF FdIn, FdHolders
<1>4. ErrorIn' = ErrorIn /\ ResultsTypeOK'
  BY DEF ErrorIn, ResultsTypeOK, HandlesInv, HandlesTypeOK
<1> QED BY <1>2, <1>3, <1>4

LEMMA FdMoves ==
  ASSUME HandlesInv, NEW u \in UniqueFDs, NEW other \in UniqueFDs, u # other,
         fd_' = [fd_ EXCEPT ![u] = fd_[other], ![other] = Handling!NoFD], result' = result
  PROVE  /\ fd_' \in [UniqueFDs -> FDs \cup {Handling!Absent}]
         /\ ResultsTypeOK'
         /\ FdIn' = [FdIn EXCEPT ![u] = FdIn[other], ![other] = Handling!NoFD]
         /\ ErrorIn' = ErrorIn
<1>1. u \notin Results /\ other \notin Results
  BY HandlesAssumption
<1>2. /\ fd_' \in [UniqueFDs -> FDs \cup {Handling!Absent}]
      /\ fd_'[u] = fd_[other]
      /\ fd_'[other] = Handling!NoFD
      /\ \A v \in UniqueFDs \ {u, other} : fd_'[v] = fd_[v]
  BY DEF HandlesInv, HandlesTypeOK, FDs
<1>3. FdIn' = [FdIn EXCEPT ![u] = FdIn[other], ![other] = Handling!NoFD]
  BY <1>1, <1>2 DEF FdIn, FdHolders
<1>4. ErrorIn' = ErrorIn /\ ResultsTypeOK'
  BY DEF ErrorIn, ResultsTypeOK, HandlesInv, HandlesTypeOK
<1> QED BY <1>2, <1>3, <1>4

\* A value moves from a Result to a UniqueFD.
LEMMA ValueMoves ==
  ASSUME HandlesInv, NEW u \in UniqueFDs, NEW r \in Results,
         Handling!Exists(r), ~result[r].is_error,
         fd_' = [fd_ EXCEPT ![u] = result[r].holds],
         result' = [result EXCEPT ![r] = Handling!WithFD(Handling!NoFD)]
  PROVE  /\ fd_' \in [UniqueFDs -> FDs \cup {Handling!Absent}]
         /\ ResultsTypeOK'
         /\ FdIn' = [FdIn EXCEPT ![u] = FdIn[r], ![r] = Handling!NoFD]
         /\ ErrorIn' = ErrorIn
<1>1. u \notin Results /\ r \notin UniqueFDs /\ u # r
  BY HandlesAssumption
<1>2. /\ fd_' \in [UniqueFDs -> FDs \cup {Handling!Absent}]
      /\ fd_'[u] = result[r].holds
      /\ \A v \in UniqueFDs \ {u} : fd_'[v] = fd_[v]
  BY DEF HandlesInv, HandlesTypeOK
<1>3. /\ result' \in [Results -> [is_error : BOOLEAN, holds : Int]]
      /\ ~result'[r].is_error /\ result'[r].holds = Handling!NoFD
      /\ \A q \in Results \ {r} : result'[q] = result[q]
  BY DEF HandlesInv, HandlesTypeOK, Handling!WithFD, Handling!NoFD
<1>4. FdIn' = [FdIn EXCEPT ![u] = FdIn[r], ![r] = Handling!NoFD]
  BY <1>1, <1>2, <1>3 DEF FdIn, FdHolders
<1>5. ErrorIn' = ErrorIn
  BY <1>3 DEF ErrorIn
<1>6. ResultsTypeOK'
  BY <1>3 DEF ResultsTypeOK, HandlesInv, HandlesTypeOK, FDs
<1> QED BY <1>2, <1>4, <1>5, <1>6

LEMMA HandlesNext == HandlesInv /\ Handling!Next => HandlesInv'
<1> SUFFICES ASSUME HandlesInv, Handling!Next PROVE HandlesInv'
  OBVIOUS
<1> USE DEF Handling!Keep
<1>0. /\ FdIn \in [FdHolders -> FDs \cup {Handling!Absent}]
      /\ ErrorIn \in [Results -> Errors \cup {Handling!NULL}]
      /\ Once(FdIn, open, Descriptors) /\ Once(ErrorIn, allocated, Errors)
      /\ fd_ \in [UniqueFDs -> FDs \cup {Handling!Absent}]
      /\ open \subseteq Descriptors /\ allocated \subseteq Errors /\ ~misused
  BY HoldersTypes DEF HandlesInv, HandlesTypeOK
<1>n. /\ Handling!NoFD \notin Descriptors /\ Handling!Absent \notin Descriptors
      /\ Handling!NULL \notin Errors
  BY DescriptorsAssumption, ErrorsAssumption DEF Handling!NoFD, Handling!Absent, Handling!NULL
<1>d. Results \subseteq FdHolders /\ UniqueFDs \subseteq FdHolders
  BY DEF FdHolders
<1>a. ASSUME NEW r \in Results, ~Handling!Exists(r)
      PROVE  FdIn[r] = Handling!Absent /\ ErrorIn[r] = Handling!NULL
  <2>1. ~result[r].is_error /\ result[r].holds = Handling!Absent
    BY <1>a DEF Handling!Exists, Handling!NoResult
  <2> QED BY <2>1, HandlesAssumption DEF FdIn, ErrorIn, FdHolders
<1>u. ASSUME NEW u \in UniqueFDs
      PROVE  FdIn[u] = fd_[u]
  BY DEF FdIn, FdHolders
<1>i. ASSUME ResultsTypeOK', fd_' \in [UniqueFDs -> FDs \cup {Handling!Absent}], ~misused',
             open' \subseteq Descriptors, allocated' \subseteq Errors,
             Once(FdIn', open', Descriptors), Once(ErrorIn', allocated', Errors)
      PROVE  HandlesInv'
  BY <1>i DEF HandlesInv, HandlesTypeOK, ResultsTypeOK, Once
<1>1. ASSUME NEW r \in Results, NEW fd \in Descriptors, Handling!return_fd(r, fd)
      PROVE  HandlesInv'
  <2> USE <1>1 DEF Handling!return_fd
  <2>1. /\ ResultsTypeOK'
        /\ FdIn' = [FdIn EXCEPT ![r] = fd]
        /\ ErrorIn' = [ErrorIn EXCEPT ![r] = Handling!NULL]
    BY ResultIsFd DEF FDs
  <2>2. Once(FdIn', (open \ {FdIn[r]}) \cup {fd}, Descriptors)
    BY <1>0, <1>d, <2>1, TakeHolds
  <2>3. Once(ErrorIn', allocated \ {ErrorIn[r]}, Errors)
    BY <1>0, <1>n, <2>1, DropHolds
  <2>4. open \ {FdIn[r]} = open /\ allocated \ {ErrorIn[r]} = allocated
    BY <1>0, <1>a, <1>n
  <2> QED BY <1>0, <1>i, <2>1, <2>2, <2>3, <2>4
<1>2. ASSUME NEW r \in Results, NEW e \in Errors,
             Handling!return_error(r, e) \/ \E other \in Results : Handling!copy_error(r, other, e)
      PROVE  HandlesInv'
  <2>0. /\ ~Handling!Exists(r) /\ e \in Errors \ allocated
        /\ allocated' = allocated \cup {e}
        /\ result' = [result EXCEPT ![r] = Handling!WithError(e)]
        /\ UNCHANGED <<fd_, open, misused>>
    BY <1>2 DEF Handling!return_error, Handling!copy_error
  <2>1. /\ ResultsTypeOK'
        /\ FdIn' = [FdIn EXCEPT ![r] = Handling!NoFD]
        /\ ErrorIn' = [ErrorIn EXCEPT ![r] = e]
    BY <2>0, ResultIsError
  <2>2. Once(FdIn', open \ {FdIn[r]}, Descriptors)
    BY <1>0, <1>d, <1>n, <2>1, DropHolds
  <2>3. Once(ErrorIn', (allocated \ {ErrorIn[r]}) \cup {e}, Errors)
    BY <1>0, <2>0, <2>1, TakeHolds
  <2>4. open \ {FdIn[r]} = open /\ allocated \ {ErrorIn[r]} = allocated
    BY <1>0, <1>a, <1>n, <2>0
  <2> QED BY <1>0, <1>i, <2>0, <2>1, <2>2, <2>3, <2>4
<1>3. ASSUME NEW r \in Results, NEW other \in Results,
             Handling!move_construct(r, other) \/ Handling!move_assign(r, other)
      PROVE  HandlesInv'
  <2>1. r # other /\ fd_' = fd_
        /\ result' = [result EXCEPT ![r] = result[other], ![other] = Handling!Moved(result[other])]
    BY <1>3 DEF Handling!move_construct, Handling!move_assign
  <2>2. /\ ResultsTypeOK'
        /\ FdIn' = [FdIn EXCEPT ![r] = FdIn[other], ![other] = Handling!NoFD]
        /\ ErrorIn' = [ErrorIn EXCEPT ![r] = ErrorIn[other], ![other] = Handling!NULL]
    BY <2>1, ResultMoves
  <2>3. Once(FdIn', open \ {FdIn[r]}, Descriptors)
    BY <1>0, <1>d, <1>n, <2>1, <2>2, MoveHolds
  <2>4. Once(ErrorIn', allocated \ {ErrorIn[r]}, Errors)
    BY <1>0, <1>n, <2>1, <2>2, MoveHolds
  <2>5. open' = open \ {FdIn[r]} /\ allocated' = allocated \ {ErrorIn[r]} /\ ~misused'
    <3>1. CASE Handling!move_construct(r, other)
      BY <3>1, <1>0, <1>a, <1>n DEF Handling!move_construct
    <3>2. CASE Handling!move_assign(r, other)
      BY <3>2, ResetWhatIsHeld DEF Handling!move_assign
    <3> QED BY <1>3, <3>1, <3>2
  <2> QED BY <1>0, <1>i, <2>1, <2>2, <2>3, <2>4, <2>5
<1>4. ASSUME NEW r \in Results, Handling!destroy_result(r)
      PROVE  HandlesInv'
  <2> USE <1>4 DEF Handling!destroy_result
  <2>1. Handling!NoResult = Handling!WithFD(Handling!Absent)
    BY DEF Handling!NoResult, Handling!WithFD
  <2>2. /\ ResultsTypeOK'
        /\ FdIn' = [FdIn EXCEPT ![r] = Handling!Absent]
        /\ ErrorIn' = [ErrorIn EXCEPT ![r] = Handling!NULL]
    BY <2>1, ResultIsFd
  <2>3. Once(FdIn', open \ {FdIn[r]}, Descriptors)
    BY <1>0, <1>d, <1>n, <2>2, DropHolds
  <2>4. Once(ErrorIn', allocated \ {ErrorIn[r]}, Errors)
    BY <1>0, <1>n, <2>2, DropHolds
  <2>5. open' = open \ {FdIn[r]} /\ allocated' = allocated \ {ErrorIn[r]} /\ ~misused'
    BY ResetWhatIsHeld
  <2> QED BY <1>0, <1>i, <2>2, <2>3, <2>4, <2>5
<1>5. ASSUME NEW u \in UniqueFDs, NEW r \in Results, Handling!take_value(u, r)
      PROVE  HandlesInv'
  <2> USE <1>5 DEF Handling!take_value
  <2>1. /\ ResultsTypeOK' /\ fd_' \in [UniqueFDs -> FDs \cup {Handling!Absent}]
        /\ FdIn' = [FdIn EXCEPT ![u] = FdIn[r], ![r] = Handling!NoFD]
        /\ ErrorIn' = ErrorIn
    BY ValueMoves
  <2>2. open' = open \ {FdIn[u]} /\ allocated' = allocated /\ ~misused'
    BY <1>d, <1>u, CloseWhatIsHeld
  <2>3. Once(FdIn', open \ {FdIn[u]}, Descriptors)
    BY <1>0, <1>d, <1>n, <2>1, HandlesAssumption, MoveHolds
  <2> QED BY <1>0, <1>i, <2>1, <2>2, <2>3
<1>6. ASSUME NEW u \in UniqueFDs, NEW other \in UniqueFDs, u # other,
             Handling!move_construct_fd(u, other) \/ Handling!move_assign_fd(u, other)
      PROVE  HandlesInv'
  <2>1. fd_' = [fd_ EXCEPT ![u] = fd_[other], ![other] = Handling!NoFD] /\ result' = result
    BY <1>6 DEF Handling!move_construct_fd, Handling!move_assign_fd
  <2>2. /\ ResultsTypeOK' /\ fd_' \in [UniqueFDs -> FDs \cup {Handling!Absent}]
        /\ FdIn' = [FdIn EXCEPT ![u] = FdIn[other], ![other] = Handling!NoFD]
        /\ ErrorIn' = ErrorIn
    BY <1>6, <2>1, FdMoves
  <2>3. open' = open \ {FdIn[u]} /\ allocated' = allocated /\ ~misused'
    <3>1. CASE Handling!move_construct_fd(u, other)
      BY <3>1, <1>0, <1>n, <1>u DEF Handling!move_construct_fd
    <3>2. CASE Handling!move_assign_fd(u, other)
      BY <3>2, <1>d, <1>u, CloseWhatIsHeld DEF Handling!move_assign_fd, Handling!CloseFirst
    <3> QED BY <1>6, <3>1, <3>2
  <2>4. Once(FdIn', open \ {FdIn[u]}, Descriptors)
    BY <1>0, <1>d, <1>n, <1>6, <2>2, MoveHolds
  <2> QED BY <1>0, <1>i, <2>2, <2>3, <2>4
<1>7. ASSUME NEW u \in UniqueFDs, NEW fd \in {Handling!NoFD, Handling!Absent},
             fd_' = [fd_ EXCEPT ![u] = fd], result' = result,
             open' = open \ {FdIn[u]}, allocated' = allocated, ~misused'
      PROVE  HandlesInv'
  <2>1. /\ ResultsTypeOK' /\ fd_' \in [UniqueFDs -> FDs \cup {Handling!Absent}]
        /\ FdIn' = [FdIn EXCEPT ![u] = fd]
        /\ ErrorIn' = ErrorIn
    BY <1>7, FdChanges DEF FDs
  <2>2. Once(FdIn', open \ {FdIn[u]}, Descriptors)
    BY <1>0, <1>d, <1>n, <2>1, DropHolds
  <2> QED BY <1>0, <1>i, <1>7, <2>1, <2>2
<1>8. ASSUME NEW u \in UniqueFDs, Handling!create_fd(u)
      PROVE  HandlesInv'
  <2>1. open \ {FdIn[u]} = open
    BY <1>0, <1>8, <1>n, <1>u DEF Handling!create_fd
  <2>2. /\ fd_' = [fd_ EXCEPT ![u] = Handling!NoFD] /\ result' = result
        /\ open' = open /\ allocated' = allocated /\ ~misused'
    BY <1>0, <1>8 DEF Handling!create_fd
  <2> QED BY <1>7, <2>1, <2>2
<1>9. ASSUME NEW u \in UniqueFDs, fd_[u] # Handling!Absent, Handling!Close(fd_[u])
      PROVE  open' = open \ {FdIn[u]} /\ allocated' = allocated /\ ~misused'
  BY <1>9, <1>d, <1>u, CloseWhatIsHeld
<1>10. ASSUME NEW u \in UniqueFDs, NEW fd \in {Handling!NoFD, Handling!Absent}, Handling!close_fd(u, fd)
       PROVE  HandlesInv'
  BY <1>7, <1>9, <1>10 DEF Handling!close_fd
<1>11. ASSUME NEW u \in UniqueFDs, Handling!move_construct_fd(u, u) \/ Handling!move_assign_fd(u, u)
       PROVE  HandlesInv'
  BY <1>7, <1>9, <1>11
  DEF Handling!move_construct_fd, Handling!move_assign_fd, Handling!CloseFirst
<1> QED BY <1>1, <1>2, <1>3, <1>4, <1>5, <1>6, <1>8, <1>10, <1>11 DEF Handling!Next

-----------------------------------------------------------------------------
(* Result<void>, MemoryMappedFile and ScopedTempDir.                       *)

ErrorsInv ==
    /\ error_ \in [VoidResults -> Errors \cup {Handling!NULL, Handling!Absent}]
    /\ allocated \subseteq Errors
    /\ ~misused
    /\ Once(error_, allocated, Errors)

FilesInv ==
    /\ data_ \in [Files -> Addresses \cup {Handling!NULL, Handling!Absent}]
    /\ mapped \subseteq Addresses
    /\ Once(data_, mapped, Addresses)

DirsInv ==
    /\ path_ \in [Dirs -> Paths \cup {Handling!NoPath, Handling!Absent}]
    /\ on_disk \subseteq Paths
    /\ Once(path_, on_disk, Paths)

MappingsInv == ErrorsInv /\ FilesInv /\ DirsInv

LEMMA NoneIsHeld ==
  /\ Handling!NULL \notin Errors /\ Handling!Absent \notin Errors
  /\ Handling!NULL \notin Addresses /\ Handling!Absent \notin Addresses
  /\ Handling!NoPath \notin Paths /\ Handling!Absent \notin Paths
  /\ Handling!NULL # Handling!Absent /\ Handling!NoPath # Handling!Absent
BY ErrorsAssumption, AddressesAssumption DEF Handling!NULL, Handling!Absent, Handling!NoPath

LEMMA MappingsInvImpliesHeldOnce == MappingsInv => Handling!MappingsHeldOnce
<1> SUFFICES ASSUME MappingsInv PROVE Handling!MappingsHeldOnce
  OBVIOUS
<1>1. /\ HeldIn(error_, allocated, Errors)
      /\ HeldIn(data_, mapped, Addresses)
      /\ HeldIn(path_, on_disk, Paths)
      /\ ~misused
  BY OnceIsHeldIn DEF MappingsInv, ErrorsInv, FilesInv, DirsInv
<1> QED BY <1>1, Zenon DEF Handling!MappingsHeldOnce, HeldIn

LEMMA MappingsInit == Handling!InitMappings => MappingsInv
<1> SUFFICES ASSUME Handling!InitMappings PROVE MappingsInv
  OBVIOUS
<1> USE NoneIsHeld DEF Handling!InitMappings
<1>1. ErrorsInv
  BY DEF ErrorsInv, Once
<1>2. FilesInv
  BY DEF FilesInv, Once
<1>3. DirsInv
  BY DEF DirsInv, Once
<1> QED BY <1>1, <1>2, <1>3 DEF MappingsInv

LEMMA ReturnVoid ==
  ASSUME ErrorsInv, NEW r \in VoidResults, NEW e \in Errors \cup {Handling!NULL},
         Handling!return_void(r, e)
  PROVE  ErrorsInv'
<1> USE NoneIsHeld DEF ErrorsInv, Handling!return_void
<1>1. allocated \ {error_[r]} = allocated
  OBVIOUS
<1>2. CASE e = Handling!NULL
  <2>1. Once(error_', allocated \ {error_[r]}, Errors)
    BY <1>2, DropHolds
  <2> QED BY <1>1, <1>2, <2>1
<1>3. CASE e # Handling!NULL
  <2>1. Once(error_', (allocated \ {error_[r]}) \cup {e}, Errors)
    BY <1>3, TakeHolds
  <2> QED BY <1>1, <1>3, <2>1
<1> QED BY <1>2, <1>3

LEMMA DeleteError ==
  ASSUME ErrorsInv, NEW r \in VoidResults, error_[r] # Handling!Absent, Handling!Delete(error_[r])
  PROVE  ~misused' /\ allocated' = allocated \ {error_[r]}
<1>1. error_[r] \in allocated \cup {Handling!NULL}
  BY DEF ErrorsInv, Once
<1> QED BY <1>1 DEF ErrorsInv, Handling!Delete

LEMMA ErrorMoves ==
  ASSUME ErrorsInv, NEW r \in VoidResults, NEW other \in VoidResults, r # other,
         error_' = [error_ EXCEPT ![r] = error_[other], ![other] = Handling!NULL],
         ~misused', allocated' = allocated \ {error_[r]}
  PROVE  ErrorsInv'
<1>1. Once(error_', allocated \ {error_[r]}, Errors)
  BY NoneIsHeld, MoveHolds DEF ErrorsInv
<1> QED BY <1>1 DEF ErrorsInv

LEMMA MappingsNext == MappingsInv /\ Handling!NextMappings => MappingsInv'
<1> SUFFICES ASSUME MappingsInv, Handling!NextMappings PROVE MappingsInv'
  OBVIOUS
<1> USE NoneIsHeld DEF MappingsInv
<1>e. ASSUME UNCHANGED <<allocated, misused, error_>> PROVE ErrorsInv'
  BY <1>e DEF ErrorsInv, Once
<1>f. ASSUME UNCHANGED <<data_, mapped>> PROVE FilesInv'
  BY <1>f DEF FilesInv, Once
<1>d. ASSUME UNCHANGED <<path_, on_disk>> PROVE DirsInv'
  BY <1>d DEF DirsInv, Once
<1>1. ASSUME NEW r \in VoidResults, NEW other \in VoidResults,
             \/ \E e \in Errors : Handling!copy_void_error(r, other, e)
             \/ Handling!move_construct_void(r, other)
             \/ Handling!move_assign_void(r, other)
      PROVE  MappingsInv'
  <2>1. UNCHANGED <<data_, mapped, path_, on_disk>>
    BY <1>1 DEF Handling!copy_void_error, Handling!move_construct_void, Handling!move_assign_void
  <2>2. ASSUME NEW e \in Errors, Handling!copy_void_error(r, other, e)
        PROVE  ErrorsInv'
    BY <2>2, ReturnVoid DEF Handling!copy_void_error
  <2>3. ASSUME Handling!move_construct_void(r, other) PROVE ErrorsInv'
    <3>1. allocated \ {error_[r]} = allocated
      BY <2>3 DEF Handling!move_construct_void, ErrorsInv
    <3> QED BY <2>3, <3>1, ErrorMoves DEF Handling!move_construct_void, ErrorsInv
  <2>4. ASSUME Handling!move_assign_void(r, other) PROVE ErrorsInv'
    BY <2>4, DeleteError, ErrorMoves DEF Handling!move_assign_void
  <2> QED BY <1>1, <1>f, <1>d, <2>1, <2>2, <2>3, <2>4
<1>2. ASSUME NEW r \in VoidResults, Handling!destroy_void(r)
      PROVE  MappingsInv'
  <2> USE <1>2 DEF Handling!destroy_void
  <2>1. ~misused' /\ allocated' = allocated \ {error_[r]}
    BY DeleteError
  <2>2. Once(error_', allocated \ {error_[r]}, Errors)
    BY DropHolds DEF ErrorsInv
  <2> QED BY <1>f, <1>d, <2>1, <2>2 DEF ErrorsInv
<1>3. ASSUME NEW f \in Files, NEW value \in Addresses \cup {Handling!NULL, Handling!Absent},
             value \notin Handling!unmap(f),
             data_' = [data_ EXCEPT ![f] = value],
             mapped' = Handling!unmap(f) \cup ({value} \cap Addresses)
      PROVE  FilesInv'
  <2> USE <1>3 DEF Handling!unmap, FilesInv
  <2>1. CASE value \in Addresses
    <3>1. Once(data_', (mapped \ {data_[f]}) \cup {value}, Addresses)
      BY <2>1, TakeHolds
    <3> QED BY <2>1, <3>1
  <2>2. CASE value \notin Addresses
    <3>1. Once(data_', mapped \ {data_[f]}, Addresses)
      BY <2>2, DropHolds
    <3>2. mapped' = mapped \ {data_[f]}
      BY <2>2
    <3> QED BY <2>2, <3>1, <3>2
  <2> QED BY <2>1, <2>2
<1>4. ASSUME NEW f \in Files, NEW r \in VoidResults, Handling!map_file(f, r)
      PROVE  MappingsInv'
  <2>1. PICK e \in Errors \cup {Handling!NULL}, address \in Addresses \cup {Handling!NULL} :
           /\ address \notin Handling!unmap(f)
           /\ Handling!return_void(r, e)
           /\ mapped' = Handling!unmap(f) \cup ({address} \ {Handling!NULL})
           /\ data_' = [data_ EXCEPT ![f] = address]
    BY <1>4 DEF Handling!map_file
  <2>2. {address} \ {Handling!NULL} = {address} \cap Addresses
    OBVIOUS
  <2>3. FilesInv'
    BY <1>3, <2>1, <2>2
  <2>4. ErrorsInv'
    BY <2>1, ReturnVoid
  <2>5. DirsInv'
    BY <1>4, <1>d DEF Handling!map_file
  <2> QED BY <2>3, <2>4, <2>5
<1>5. ASSUME NEW f \in Files, NEW value \in {Handling!NULL, Handling!Absent},
             data_' = [data_ EXCEPT ![f] = value], mapped' = Handling!unmap(f)
      PROVE  FilesInv'
  <2>1. value \notin Handling!unmap(f)
    BY DEF Handling!unmap, FilesInv
  <2>2. Handling!unmap(f) = Handling!unmap(f) \cup ({value} \cap Addresses)
    OBVIOUS
  <2> QED BY <1>3, <1>5, <2>1, <2>2
<1>6. ASSUME NEW f \in Files, NEW value \in {Handling!NULL, Handling!Absent},
             Handling!construct_file(f) \/ Handling!unmap_file(f, value)
      PROVE  MappingsInv'
  <2>1. Handling!construct_file(f) => Handling!unmap(f) = mapped
    BY DEF Handling!construct_file, Handling!unmap, FilesInv
  <2>2. FilesInv'
    BY <1>5, <1>6, <2>1 DEF Handling!construct_file, Handling!unmap_file
  <2> QED BY <1>6, <1>e, <1>d, <2>2 DEF Handling!construct_file, Handling!unmap_file
<1>7. ASSUME NEW f \in Files, NEW other \in Files,
             Handling!move_construct_file(f, other) \/ Handling!move_assign_file(f, other)
      PROVE  MappingsInv'
  <2>1. Handling!move_construct_file(f, other) => Handling!unmap(f) = mapped
    BY DEF Handling!move_construct_file, Handling!unmap, FilesInv
  <2>2. /\ mapped' = Handling!unmap(f)
        /\ f # other =>
              data_' = [data_ EXCEPT ![f] = data_[other], ![other] = Handling!NULL]
        /\ f = other => data_' = [data_ EXCEPT ![f] = Handling!NULL]
    BY <1>7, <2>1 DEF Handling!move_construct_file, Handling!move_assign_file
  <2>3. ASSUME f = other PROVE FilesInv'
    BY <1>5, <2>2, <2>3
  <2>4. ASSUME f # other PROVE FilesInv'
    <3>1. Once(data_', mapped \ {data_[f]}, Addresses)
      BY <2>2, <2>4, MoveHolds DEF FilesInv
    <3> QED BY <2>2, <2>4, <3>1 DEF Handling!unmap, FilesInv
  <2>5. FilesInv'
    BY <2>3, <2>4
  <2> QED BY <1>7, <1>e, <1>d, <2>5 DEF Handling!move_construct_file, Handling!move_assign_file
<1>8. ASSUME NEW d \in Dirs, Handling!construct_dir(d) \/ Handling!destroy_dir(d)
      PROVE  MappingsInv'
  <2>1. PICK value \in {Handling!NoPath, Handling!Absent} :
           path_' = [path_ EXCEPT ![d] = value]
    BY <1>8 DEF Handling!construct_dir, Handling!destroy_dir
  <2>2. on_disk' = on_disk \ {path_[d]}
    BY <1>8 DEF Handling!construct_dir, Handling!destroy_dir, DirsInv
  <2>3. Once(path_', on_disk \ {path_[d]}, Paths)
    BY <2>1, DropHolds DEF DirsInv
  <2>4. DirsInv'
    BY <2>1, <2>2, <2>3 DEF DirsInv
  <2> QED BY <1>8, <1>e, <1>f, <2>4 DEF Handling!construct_dir, Handling!destroy_dir
<1>9. ASSUME NEW d \in Dirs, NEW path \in Paths, Handling!create_dir(d, path)
      PROVE  MappingsInv'
  <2> USE <1>9 DEF Handling!create_dir
  <2>1. on_disk \ {path_[d]} = on_disk
    BY DEF DirsInv
  <2>2. Once(path_', (on_disk \ {path_[d]}) \cup {path}, Paths)
    BY TakeHolds DEF DirsInv
  <2>3. DirsInv'
    BY <2>1, <2>2 DEF DirsInv
  <2> QED BY <1>e, <1>f, <2>3
<1>10. ASSUME NEW d \in Dirs, NEW other \in Dirs, Handling!move_dir(d, other)
       PROVE  MappingsInv'
  <2> USE <1>10 DEF Handling!move_dir
  <2>1. on_disk \ {path_[d]} = on_disk
    BY DEF DirsInv
  <2>2. Once(path_', on_disk \ {path_[d]}, Paths)
    BY MoveHolds DEF DirsInv
  <2>3. DirsInv'
    BY <2>1, <2>2 DEF DirsInv
  <2> QED BY <1>e, <1>f, <2>3
<1> QED BY <1>1, <1>2, <1>4, <1>6, <1>7, <1>8, <1>9, <1>10 DEF Handling!NextMappings

-----------------------------------------------------------------------------
(* Timers, as long as none that outlived its loop is started in another.   *)

EntriesAreRight(l) ==
    /\ DOMAIN map_[l] \subseteq TimerIds
    /\ \A t \in TimerObjects :
          timer_data_[t] = l => id_[t] \in DOMAIN map_[l] /\ map_[l][id_[t]] = wanted[t]
    /\ \A t, u \in TimerObjects :
          timer_data_[t] = l /\ timer_data_[u] = l /\ id_[t] = id_[u] => t = u
    /\ \A id \in DOMAIN map_[l] : \E t \in TimerObjects : timer_data_[t] = l /\ id_[t] = id

\* A Timer without a main loop has no id, so start() finds it one.
TimersTypeOK ==
    /\ alive \subseteq Loops
    /\ map_ = [l \in Loops |-> map_[l]]
    /\ timer_data_ \in [TimerObjects -> Loops \cup {NoTimerData, NoTimer}]
    /\ id_ \in [TimerObjects -> TimerIds \cup {TimerUse!TIMER_ID_EMPTY}]
    /\ wanted \in [TimerObjects -> BOOLEAN]
    /\ \A t \in TimerObjects : timer_data_[t] \notin Loops => id_[t] = TimerUse!TIMER_ID_EMPTY

TimersInv == TimersTypeOK /\ \A l \in alive : EntriesAreRight(l)

LEMMA TimersInvImpliesBelong == TimersInv => TimerUse!EntriesBelongToTimers
<1> SUFFICES ASSUME TimersInv, NEW l \in alive
             PROVE  /\ \A id \in DOMAIN map_[l] :
                          \E t \in TimerObjects : /\ TimerUse!TimersOf(l, id) = {t}
                                                  /\ map_[l][id] = wanted[t]
                    /\ \A t \in TimerObjects : timer_data_[t] = l => id_[t] \in DOMAIN map_[l]
  BY DEF TimerUse!EntriesBelongToTimers
<1>1. EntriesAreRight(l)
  BY DEF TimersInv
<1>2. ASSUME NEW id \in DOMAIN map_[l]
      PROVE  \E t \in TimerObjects : TimerUse!TimersOf(l, id) = {t} /\ map_[l][id] = wanted[t]
  <2>1. PICK t \in TimerObjects : timer_data_[t] = l /\ id_[t] = id
    BY <1>1 DEF EntriesAreRight
  <2>2. TimerUse!TimersOf(l, id) = {t}
    BY <1>1, <2>1 DEF EntriesAreRight, TimerUse!TimersOf
  <2>3. map_[l][id] = wanted[t]
    BY <1>1, <2>1 DEF EntriesAreRight
  <2> QED BY <2>2, <2>3
<1> QED BY <1>1, <1>2 DEF EntriesAreRight

LEMMA TimersInit == TimerUse!Init => TimersInv
<1> SUFFICES ASSUME TimerUse!Init PROVE TimersInv
  OBVIOUS
<1> USE NoTimerAssumption DEF TimerUse!Init
<1>1. TimersTypeOK
  BY DEF TimersTypeOK
<1>2. ASSUME NEW l \in alive PROVE EntriesAreRight(l)
  <2>1. map_[l] = <<>> /\ DOMAIN map_[l] = {}
    OBVIOUS
  <2> QED BY <2>1 DEF EntriesAreRight
<1> QED BY <1>1, <1>2 DEF TimersInv

\* What remove() leaves of the entries of a loop, as a Timer it erases one of
\* goes.
LEMMA RemoveErases ==
  ASSUME TimersInv, NEW t \in TimerObjects
  PROVE  LET map == TimerUse!remove(t).map
         IN  /\ map = [l \in Loops |-> map[l]]
             /\ timer_data_[t] \in alive =>
                   /\ map[timer_data_[t]] = TimerUse!Erase(map_[timer_data_[t]], id_[t])
                   /\ TimerUse!remove(t).id = TimerUse!TIMER_ID_EMPTY
             /\ timer_data_[t] \notin alive =>
                   map = map_ /\ TimerUse!remove(t).id = id_[t]
             /\ \A l \in Loops \ {timer_data_[t]} : map[l] = map_[l]
<1> USE NoTimerAssumption DEF TimersInv, TimersTypeOK
<1>1. CASE timer_data_[t] \in alive
  <2>1. TimerUse!Lock(t) = timer_data_[t] /\ TimerUse!Lock(t) # NoTimerData
    BY <1>1 DEF TimerUse!Lock
  <2>2. /\ TimerUse!remove(t).map =
               [map_ EXCEPT ![timer_data_[t]] = TimerUse!Erase(@, id_[t])]
        /\ TimerUse!remove(t).id = TimerUse!TIMER_ID_EMPTY
    BY <2>1, Zenon DEF TimerUse!remove
  <2> QED BY <1>1, <2>2
<1>2. CASE timer_data_[t] \notin alive
  <2>1. TimerUse!remove(t).map = map_ /\ TimerUse!remove(t).id = id_[t]
    BY <1>2 DEF TimerUse!remove, TimerUse!Lock
  <2> QED BY <1>2, <2>1
<1> QED BY <1>1, <1>2

\* A Timer leaves its main loop, if that is there, with its entry.
LEMMA LeavingKeepsRight ==
  ASSUME TimersInv, NEW t \in TimerObjects, NEW l \in alive, timer_data_'[t] # l,
         map_'[l] = TimerUse!remove(t).map[l],
         \A u \in TimerObjects \ {t} :
            timer_data_'[u] = timer_data_[u] /\ id_'[u] = id_[u] /\ wanted'[u] = wanted[u]
  PROVE  EntriesAreRight(l)'
<1>0. EntriesAreRight(l)
  BY DEF TimersInv
<1>1. CASE timer_data_[t] = l
  <2>1. map_'[l] = TimerUse!Erase(map_[l], id_[t])
    BY <1>1, RemoveErases
  <2>2. /\ DOMAIN map_'[l] = DOMAIN map_[l] \ {id_[t]}
        /\ \A id \in DOMAIN map_[l] \ {id_[t]} : map_'[l][id] = map_[l][id]
    BY <2>1 DEF TimerUse!Erase
  <2> QED BY <1>0, <1>1, <2>2 DEF EntriesAreRight
<1>2. CASE timer_data_[t] # l
  <2>1. map_'[l] = map_[l]
    BY <1>2, RemoveErases DEF TimersInv, TimersTypeOK
  <2> QED BY <1>0, <1>2, <2>1 DEF EntriesAreRight
<1> QED BY <1>1, <1>2

\* An entry of t, as it is there or is new, is set.
LEMMA SettingKeepsRight ==
  ASSUME TimersInv, NEW t \in TimerObjects, NEW l \in alive, NEW id \in TimerIds,
         NEW active \in BOOLEAN,
         \/ timer_data_[t] = l /\ id = id_[t]
         \/ timer_data_[t] # l /\ id \notin DOMAIN map_[l],
         map_'[l] = TimerUse!Set(map_[l], id, active),
         timer_data_'[t] = l, id_'[t] = id, wanted'[t] = active,
         \A u \in TimerObjects \ {t} :
            timer_data_'[u] = timer_data_[u] /\ id_'[u] = id_[u] /\ wanted'[u] = wanted[u]
  PROVE  EntriesAreRight(l)'
<1>1. EntriesAreRight(l)
  BY DEF TimersInv
<1>2. /\ DOMAIN map_'[l] = DOMAIN map_[l] \cup {id}
      /\ map_'[l][id] = active
      /\ \A i \in DOMAIN map_[l] \ {id} : map_'[l][i] = map_[l][i]
  BY DEF TimerUse!Set
<1> QED BY <1>1, <1>2 DEF EntriesAreRight

\* What is at other goes to t, which has none by then.
LEMMA MovingKeepsRight ==
  ASSUME TimersInv, NEW t \in TimerObjects, NEW other \in TimerObjects, t # other,
         map_' = TimerUse!remove(t).map, TimerUse!Moved(t, other), NEW l \in alive
  PROVE  EntriesAreRight(l)'
<1> USE NoTimerAssumption DEF TimersInv, TimersTypeOK
<1>0. EntriesAreRight(l)
  OBVIOUS
<1>1. /\ timer_data_'[t] = timer_data_[other] /\ timer_data_'[other] = NoTimerData
      /\ id_'[t] = id_[other]
      /\ wanted'[t] = wanted[other]
      /\ \A u \in TimerObjects \ {t, other} :
            timer_data_'[u] = timer_data_[u] /\ id_'[u] = id_[u] /\ wanted'[u] = wanted[u]
      /\ NoTimerData # l
  BY DEF TimerUse!Moved
<1> DEFINE rest == IF timer_data_[t] = l THEN DOMAIN map_[l] \ {id_[t]} ELSE DOMAIN map_[l]
<1>2. DOMAIN map_'[l] = rest /\ \A id \in rest : map_'[l][id] = map_[l][id]
  <2>1. timer_data_[t] = l => map_'[l] = TimerUse!Erase(map_[l], id_[t])
    BY RemoveErases
  <2>2. timer_data_[t] # l => map_'[l] = map_[l]
    BY RemoveErases
  <2> QED BY <2>1, <2>2 DEF TimerUse!Erase
<1>3. ASSUME NEW u \in TimerObjects, u # t, timer_data_[u] = l
      PROVE  id_[u] \in rest
  BY <1>0, <1>3 DEF EntriesAreRight
<1>4. /\ rest \subseteq DOMAIN map_[l]
      /\ \A id \in rest : \E u \in TimerObjects \ {t} : timer_data_[u] = l /\ id_[u] = id
  BY <1>0 DEF EntriesAreRight
<1> HIDE DEF rest
<1>5. PICK from \in [TimerObjects -> TimerObjects] :
         from = [u \in TimerObjects |-> IF u = t THEN other ELSE u]
  OBVIOUS
<1>6. ASSUME NEW u \in TimerObjects, timer_data_'[u] = l
      PROVE  /\ from[u] # t /\ timer_data_[from[u]] = l
             /\ id_'[u] = id_[from[u]] /\ wanted'[u] = wanted[from[u]]
             /\ id_'[u] \in DOMAIN map_'[l] /\ map_'[l][id_'[u]] = wanted'[u]
  <2>1. /\ from[u] # t /\ from[u] \in TimerObjects /\ timer_data_[from[u]] = l
        /\ id_'[u] = id_[from[u]] /\ wanted'[u] = wanted[from[u]]
    BY <1>1, <1>5, <1>6
  <2>2. id_[from[u]] \in rest /\ map_[l][id_[from[u]]] = wanted[from[u]]
    BY <1>0, <1>3, <2>1 DEF EntriesAreRight
  <2> QED BY <1>2, <2>1, <2>2
<1>7. ASSUME NEW u \in TimerObjects, NEW v \in TimerObjects,
             timer_data_'[u] = l, timer_data_'[v] = l, id_'[u] = id_'[v]
      PROVE  u = v
  <2>1. from[u] = from[v]
    BY <1>0, <1>5, <1>6, <1>7 DEF EntriesAreRight
  <2>2. u # other /\ v # other
    BY <1>1, <1>7
  <2> QED BY <1>5, <2>1, <2>2
<1>8. ASSUME NEW id \in DOMAIN map_'[l]
      PROVE  \E u \in TimerObjects : timer_data_'[u] = l /\ id_'[u] = id
  <2>1. PICK u \in TimerObjects \ {t} : timer_data_[u] = l /\ id_[u] = id
    BY <1>2, <1>4
  <2>2. CASE u = other
    BY <1>1, <2>1, <2>2
  <2>3. CASE u # other
    BY <1>1, <2>1, <2>3
  <2> QED BY <2>2, <2>3
<1>9. DOMAIN map_'[l] \subseteq TimerIds
  BY <1>0, <1>2, <1>4 DEF EntriesAreRight
<1> QED BY <1>6, <1>7, <1>8, <1>9 DEF EntriesAreRight

LEMMA TimersNext ==
  ASSUME "restart" \notin Uses
  PROVE  TimersInv /\ TimerUse!Next => TimersInv'
<1> SUFFICES ASSUME TimersInv, TimerUse!Next PROVE TimersInv'
  OBVIOUS
<1> USE NoTimerAssumption DEF TimersInv, TimersTypeOK
<1>0. 0 \notin TimerIds
  BY TimerIdsAssumption
<1>1. ASSUME NEW t \in TimerObjects, TimerUse!construct(t)
      PROVE  TimersInv'
  <2> USE <1>1 DEF TimerUse!construct
  <2>1. timer_data_[t] = NoTimer
    BY DEF TimerUse!Exists
  <2>2. TimersTypeOK'
    BY <2>1
  <2>3. ASSUME NEW l \in alive' PROVE EntriesAreRight(l)'
    <3>1. /\ EntriesAreRight(l)
          /\ timer_data_'[t] # l /\ timer_data_[t] # l
          /\ \A u \in TimerObjects \ {t} : timer_data_'[u] = timer_data_[u]
      BY <2>1
    <3> QED BY <3>1 DEF EntriesAreRight
  <2> QED BY <2>2, <2>3
<1>2. ASSUME NEW t \in TimerObjects, TimerUse!destroy(t)
      PROVE  TimersInv'
  <2> USE <1>2 DEF TimerUse!destroy
  <2>1. /\ timer_data_'[t] = NoTimer
        /\ \A u \in TimerObjects \ {t} :
              timer_data_'[u] = timer_data_[u] /\ id_'[u] = id_[u] /\ wanted'[u] = wanted[u]
    OBVIOUS
  <2>2. TimersTypeOK'
    BY RemoveErases DEF TimerUse!TIMER_ID_EMPTY
  <2>3. ASSUME NEW l \in alive' PROVE EntriesAreRight(l)'
    BY <2>1, LeavingKeepsRight
  <2> QED BY <2>2, <2>3
<1>3. ASSUME NEW t \in TimerObjects, NEW other \in TimerObjects,
             TimerUse!move_construct(t, other) \/ TimerUse!move_assign(t, other)
      PROVE  TimersInv'
  <2>1. /\ t # other /\ TimerUse!Moved(t, other) /\ alive' = alive
    BY <1>3 DEF TimerUse!move_construct, TimerUse!move_assign, TimerUse!Moved
  <2>2. map_' = TimerUse!remove(t).map
    <3>1. ASSUME TimerUse!move_construct(t, other) PROVE timer_data_[t] \notin alive /\ map_' = map_
      BY <3>1 DEF TimerUse!move_construct, TimerUse!Exists
    <3> QED BY <1>3, <3>1, RemoveErases DEF TimerUse!move_assign
  <2>3. TimersTypeOK'
    <3>1. map_' = [l \in Loops |-> map_'[l]]
      BY <2>2, RemoveErases
    <3> QED BY <2>1, <3>1 DEF TimerUse!Moved
  <2>4. ASSUME NEW l \in alive' PROVE EntriesAreRight(l)'
    BY <2>1, <2>2, MovingKeepsRight
  <2> QED BY <2>3, <2>4
<1>4. ASSUME NEW t \in TimerObjects, TimerUse!stop(t)
      PROVE  TimersInv'
  <2>0. /\ timer_data_' = timer_data_ /\ alive' = alive
        /\ wanted' = [wanted EXCEPT ![t] = FALSE]
    BY <1>4 DEF TimerUse!stop
  <2>1. CASE timer_data_[t] \in alive
    <3>1. TimerUse!Lock(t) = timer_data_[t] /\ TimerUse!Lock(t) # NoTimerData
      BY <2>1 DEF TimerUse!Lock
    <3>2. id_[t] \in TimerIds /\ id_[t] # 0
      BY <1>0, <2>1 DEF EntriesAreRight
    <3>3. /\ map_' = [map_ EXCEPT ![timer_data_[t]] = TimerUse!Set(@, id_[t], FALSE)]
          /\ id_' = [id_ EXCEPT ![t] = id_[t]]
      BY <1>4, <3>1, <3>2 DEF TimerUse!stop, TimerUse!IdsToSet, TimerUse!TIMER_ID_EMPTY
    <3>4. id_' = id_
      BY <3>3
    <3>5. TimersTypeOK'
      BY <2>0, <3>3, <3>4
    <3>6. /\ map_'[timer_data_[t]] = TimerUse!Set(map_[timer_data_[t]], id_[t], FALSE)
          /\ wanted'[t] = FALSE
          /\ \A u \in TimerObjects \ {t} : wanted'[u] = wanted[u]
      BY <2>0, <2>1, <3>3
    <3>7. ASSUME NEW l \in alive, l = timer_data_[t] PROVE EntriesAreRight(l)'
      <4>1. /\ map_'[l] = TimerUse!Set(map_[l], id_[t], FALSE)
            /\ timer_data_'[t] = l /\ id_'[t] = id_[t]
            /\ \A u \in TimerObjects \ {t} :
                  timer_data_'[u] = timer_data_[u] /\ id_'[u] = id_[u] /\ wanted'[u] = wanted[u]
        BY <2>0, <3>4, <3>6, <3>7
      <4>2. PICK id \in TimerIds, active \in BOOLEAN : id = id_[t] /\ active = FALSE
        BY <3>2
      <4>3. /\ map_'[l] = TimerUse!Set(map_[l], id, active) /\ wanted'[t] = active
            /\ timer_data_[t] = l /\ timer_data_'[t] = l /\ id_'[t] = id /\ id = id_[t]
        BY <3>6, <3>7, <4>1, <4>2
      <4> QED BY <4>1, <4>3, SettingKeepsRight
    <3>8. ASSUME NEW l \in alive, l # timer_data_[t] PROVE EntriesAreRight(l)'
      <4>1. map_'[l] = map_[l] /\ EntriesAreRight(l)
        BY <3>3, <3>8
      <4>2. /\ timer_data_' = timer_data_ /\ timer_data_[t] # l
            /\ \A u \in TimerObjects \ {t} : wanted'[u] = wanted[u]
        BY <2>0, <3>6, <3>8
      <4> QED BY <3>4, <4>1, <4>2 DEF EntriesAreRight
    <3> QED BY <2>0, <3>5, <3>7, <3>8
  <2>2. CASE timer_data_[t] \notin alive
    <3>1. UNCHANGED <<map_, id_>>
      BY <1>4, <2>2 DEF TimerUse!stop, TimerUse!Lock
    <3>2. TimersTypeOK'
      BY <2>0, <3>1
    <3>3. ASSUME NEW l \in alive PROVE EntriesAreRight(l)'
      <4>1. EntriesAreRight(l) /\ timer_data_[t] # l
        BY <2>2
      <4>2. \A u \in TimerObjects \ {t} : wanted'[u] = wanted[u]
        BY <2>0
      <4> QED BY <2>0, <3>1, <4>1, <4>2 DEF EntriesAreRight
    <3> QED BY <2>0, <3>2, <3>3
  <2> QED BY <2>1, <2>2
<1>5. ASSUME NEW l \in Loops, TimerUse!destroy_loop(l)
      PROVE  TimersInv'
  <2> USE <1>5 DEF TimerUse!destroy_loop, TimerUse!timerVars
  <2>1. TimersTypeOK'
    OBVIOUS
  <2>2. ASSUME NEW k \in alive' PROVE EntriesAreRight(k)'
    <3>1. map_'[k] = map_[k] /\ EntriesAreRight(k)
      OBVIOUS
    <3> QED BY <3>1 DEF EntriesAreRight
  <2> QED BY <2>1, <2>2
<1>6. ASSUME NEW t \in TimerObjects, NEW l \in Loops, TimerUse!start(t, l)
      PROVE  TimersInv'
  <2>0. /\ l \in alive /\ alive' = alive
        /\ timer_data_' = [timer_data_ EXCEPT ![t] = l]
        /\ wanted' = [wanted EXCEPT ![t] = TRUE]
    BY <1>6 DEF TimerUse!start
  <2>1. timer_data_[t] \in alive \/ timer_data_[t] \notin Loops
    BY <1>6 DEF TimerUse!start, TimerUse!Outlived
  <2> DEFINE left == IF TimerUse!Lock(t) = l THEN [map |-> map_, id |-> id_[t]]
                     ELSE TimerUse!remove(t)
  <2>2. PICK id \in TimerUse!IdsToSet(l, left.id) :
            /\ map_' = [left.map EXCEPT ![l] = TimerUse!Set(@, id, TRUE)]
            /\ id_' = [id_ EXCEPT ![t] = id]
    BY <1>6, Zenon DEF TimerUse!start
  <2>3. PICK m : m = left.map
    OBVIOUS
  <2>4. CASE timer_data_[t] = l
    <3>1. left = [map |-> map_, id |-> id_[t]]
      BY <2>0, <2>4 DEF TimerUse!Lock
    <3>2. left.map = map_ /\ left.id = id_[t]
      BY <3>1
    <3>3. id_[t] \in TimerIds /\ id_[t] # 0
      BY <1>0, <2>0, <2>4 DEF EntriesAreRight
    <3>4. id = id_[t]
      BY <2>2, <3>2, <3>3 DEF TimerUse!IdsToSet, TimerUse!TIMER_ID_EMPTY
    <3> HIDE DEF left
    <3>5. /\ map_' = [map_ EXCEPT ![l] = TimerUse!Set(@, id, TRUE)]
          /\ id_' = [id_ EXCEPT ![t] = id] /\ id \in TimerIds
      BY <2>2, <3>2, <3>3, <3>4
    <3>6. TimersTypeOK'
      BY <2>0, <3>5
    <3>7. EntriesAreRight(l)'
      <4>1. /\ map_'[l] = TimerUse!Set(map_[l], id, TRUE)
            /\ timer_data_'[t] = l /\ id_'[t] = id /\ wanted'[t] = TRUE
            /\ \A u \in TimerObjects \ {t} :
                  timer_data_'[u] = timer_data_[u] /\ id_'[u] = id_[u] /\ wanted'[u] = wanted[u]
        BY <2>0, <3>5
      <4> QED BY <2>0, <2>4, <3>4, <3>5, <4>1, SettingKeepsRight
    <3>8. ASSUME NEW k \in alive, k # l PROVE EntriesAreRight(k)'
      <4>1. /\ map_'[k] = map_[k] /\ EntriesAreRight(k)
            /\ timer_data_[t] # k /\ timer_data_'[t] # k
            /\ \A u \in TimerObjects \ {t} :
                  timer_data_'[u] = timer_data_[u] /\ id_'[u] = id_[u] /\ wanted'[u] = wanted[u]
        BY <2>0, <2>4, <3>5, <3>8
      <4> QED BY <4>1 DEF EntriesAreRight
    <3> QED BY <2>0, <3>6, <3>7, <3>8
  <2>5. CASE timer_data_[t] # l
    <3>1. left = TimerUse!remove(t)
      BY <2>0, <2>5 DEF TimerUse!Lock
    <3>2. left.id = TimerUse!TIMER_ID_EMPTY /\ left.map = TimerUse!remove(t).map
      BY <2>1, <3>1, RemoveErases
    <3> HIDE DEF left
    <3>3. id \in TimerIds \ DOMAIN map_[l]
      BY <2>2, <3>2 DEF TimerUse!IdsToSet, TimerUse!generate_id
    <3>4. /\ m = [k \in Loops |-> m[k]]
          /\ m[l] = map_[l]
      <4>1. /\ TimerUse!remove(t).map = [k \in Loops |-> TimerUse!remove(t).map[k]]
            /\ TimerUse!remove(t).map[l] = map_[l]
        BY <2>5, RemoveErases
      <4>2. m = TimerUse!remove(t).map
        BY <2>3, <3>2
      <4> QED BY <4>1, <4>2, Zenon
    <3>5. /\ map_' = [m EXCEPT ![l] = TimerUse!Set(@, id, TRUE)]
          /\ id_' = [id_ EXCEPT ![t] = id]
      BY <2>2, <2>3
    <3>6. TimersTypeOK'
      <4>1. map_' = [k \in Loops |-> map_'[k]]
        BY <3>4, <3>5
      <4> QED BY <2>0, <3>3, <3>5, <4>1
    <3>7. /\ timer_data_'[t] = l /\ id_'[t] = id /\ wanted'[t] = TRUE
          /\ \A u \in TimerObjects \ {t} :
                timer_data_'[u] = timer_data_[u] /\ id_'[u] = id_[u] /\ wanted'[u] = wanted[u]
      BY <2>0, <3>5
    <3>8. EntriesAreRight(l)'
      <4>1. map_'[l] = TimerUse!Set(map_[l], id, TRUE)
        BY <3>4, <3>5
      <4> QED BY <2>0, <2>5, <3>3, <3>7, <4>1, SettingKeepsRight
    <3>9. ASSUME NEW k \in alive, k # l PROVE EntriesAreRight(k)'
      <4>1. map_'[k] = TimerUse!remove(t).map[k]
        BY <2>3, <3>2, <3>4, <3>5, <3>9
      <4> QED BY <3>7, <3>9, <4>1, LeavingKeepsRight
    <3> QED BY <2>0, <3>6, <3>8, <3>9
  <2> QED BY <2>4, <2>5
<1> QED BY <1>1, <1>2, <1>3, <1>4, <1>5, <1>6 DEF TimerUse!Next

-----------------------------------------------------------------------------
(* Callbacks of the log.                                                   *)

AllCallbacks == Callbacks \cup {default_callback, NotSet}

LogInv ==
    /\ callback \in AllCallbacks
    /\ config \in [Loggers -> [callback : AllCallbacks, colorize : {NotSet} \cup BOOLEAN]]
    /\ at \in [Loggers -> [in : {"nothing", "log", "log_set_config"}, calls : AllCallbacks]]
    /\ colorize \in BOOLEAN \cup {NotSet}
    /\ Logging!CallbacksHeldOnce

LEMMA LogInit == Logging!Init => LogInv
BY DEF Logging!Init, Logging!State, Logging!default_output_supports_color, Logging!NoConfig,
       Logging!Outside, Logging!HasSharedLock, Logging!CallbacksHeldOnce, LogInv, AllCallbacks

LEMMA LogNext == LogInv /\ Logging!Next => LogInv'
<1> SUFFICES ASSUME LogInv, NEW t \in Loggers,
                    \/ \E c \in Logging!Configs : Logging!new_config(t, c)
                    \/ Logging!prepend_prefix(t)
                    \/ Logging!invoke_callback(t) \/ Logging!callback_returns(t)
                    \/ Logging!log_set_config(t)
             PROVE  LogInv'
  BY DEF Logging!Next, Logging!log_info, Logging!log_warning, Logging!log_error
<1> USE DEF LogInv, Logging!CallbacksHeldOnce, Logging!HasSharedLock
<1>1. ASSUME NEW c \in Logging!Configs, Logging!new_config(t, c)
      PROVE  LogInv'
  <2>1. /\ c \in [callback : AllCallbacks, colorize : {NotSet} \cup BOOLEAN]
        /\ c.callback # NotSet => c.callback \notin Logging!Held
    BY DEF Logging!Configs, AllCallbacks
  <2>2. /\ config' \in [Loggers -> [callback : AllCallbacks, colorize : {NotSet} \cup BOOLEAN]]
        /\ config'[t] = c
        /\ \A u \in Loggers \ {t} : config'[u] = config[u]
        /\ UNCHANGED <<callback, colorize, at>>
    BY <1>1, <2>1 DEF Logging!new_config
  <2>3. c.callback # NotSet => /\ c.callback # callback
                              /\ \A u \in Loggers : c.callback # config[u].callback
    BY <2>1 DEF Logging!Held
  <2> QED BY <2>2, <2>3
<1>2. ASSUME Logging!prepend_prefix(t) \/ Logging!callback_returns(t)
      PROVE  LogInv'
  <2>1. /\ at' \in [Loggers -> [in : {"nothing", "log", "log_set_config"}, calls : AllCallbacks]]
        /\ at'[t].calls = NotSet
        /\ \A u \in Loggers \ {t} : at'[u] = at[u]
        /\ UNCHANGED <<callback, colorize, config>>
    BY <1>2 DEF Logging!prepend_prefix, Logging!callback_returns, Logging!AtCallback,
                Logging!Outside, AllCallbacks
  <2> QED BY <2>1
<1>3. ASSUME Logging!invoke_callback(t)
      PROVE  LogInv'
  <2>1. /\ at' \in [Loggers -> [in : {"nothing", "log", "log_set_config"}, calls : AllCallbacks]]
        /\ at'[t].calls = callback
        /\ \A u \in Loggers \ {t} : at'[u] = at[u]
        /\ UNCHANGED <<callback, colorize, config>>
    BY <1>3 DEF Logging!invoke_callback
  <2> QED BY <2>1
<1>4. ASSUME Logging!set_callback(t)
      PROVE  LogInv'
  <2>1. /\ at' \in [Loggers -> [in : {"nothing", "log", "log_set_config"}, calls : AllCallbacks]]
        /\ at'[t].calls = NotSet
        /\ \A u \in Loggers \ {t} : at'[u] = at[u]
        /\ UNCHANGED colorize
    BY <1>4 DEF Logging!set_callback, Logging!AtColorize, AllCallbacks
  <2>2. ASSUME config[t].callback = NotSet PROVE LogInv'
    <3>1. UNCHANGED <<callback, config>>
      BY <1>4, <2>2 DEF Logging!set_callback
    <3> QED BY <2>1, <3>1
  <2>3. ASSUME config[t].callback # NotSet PROVE LogInv'
    <3>1. /\ config' = [config EXCEPT ![t].callback = callback]
          /\ callback' = config[t].callback
          /\ \A u \in Loggers : at[u].calls = NotSet
      BY <1>4, <2>3 DEF Logging!set_callback, Logging!MayLock
    <3>2. /\ config' \in [Loggers -> [callback : AllCallbacks, colorize : {NotSet} \cup BOOLEAN]]
          /\ config'[t].callback = callback
          /\ \A u \in Loggers \ {t} : config'[u] = config[u]
          /\ callback' \in AllCallbacks
      BY <3>1
    <3> QED BY <2>1, <2>3, <3>1, <3>2
  <2> QED BY <2>2, <2>3
<1>5. ASSUME Logging!set_colorize(t)
      PROVE  LogInv'
  <2>1. /\ at' \in [Loggers -> [in : {"nothing", "log", "log_set_config"}, calls : AllCallbacks]]
        /\ at'[t].calls = NotSet
        /\ \A u \in Loggers \ {t} : at'[u] = at[u]
        /\ UNCHANGED callback
    BY <1>5 DEF Logging!set_colorize, Logging!Outside, AllCallbacks
  <2>2. /\ config' \in [Loggers -> [callback : AllCallbacks, colorize : {NotSet} \cup BOOLEAN]]
        /\ \A u \in Loggers : config'[u].callback = config[u].callback
        /\ colorize' \in BOOLEAN \cup {NotSet}
    <3>1. CASE config[t].colorize = NotSet
      BY <1>5, <3>1 DEF Logging!set_colorize
    <3>2. CASE config[t].colorize # NotSet
      <4>1. /\ config' = [config EXCEPT ![t].colorize = colorize]
            /\ colorize' = config[t].colorize
        BY <1>5, <3>2 DEF Logging!set_colorize
      <4>2. config' = [config EXCEPT ![t] = [@ EXCEPT !.colorize = colorize]]
        BY <4>1
      <4>3. [config[t] EXCEPT !.colorize = colorize]
               \in [callback : AllCallbacks, colorize : {NotSet} \cup BOOLEAN]
        OBVIOUS
      <4>4. /\ config'[t] = [config[t] EXCEPT !.colorize = colorize]
            /\ \A u \in Loggers \ {t} : config'[u] = config[u]
        BY <4>2
      <4> QED BY <4>1, <4>2, <4>3, <4>4
    <3> QED BY <3>1, <3>2
  <2> QED BY <2>1, <2>2
<1> QED BY <1>1, <1>2, <1>3, <1>4, <1>5 DEF Logging!log_set_config

-----------------------------------------------------------------------------
(* All of them.                                                            *)

ListsInv ==
    /\ of = "lists" => Inv
    /\ of # "lists" => NoList

OwnershipInv ==
    /\ of = "handles"  => HandlesInv
    /\ of = "mappings" => MappingsInv
    /\ of = "timers"   => TimersInv
    /\ of = "log"      => LogInv

LEMMA ListsNext == ListsInv /\ [Next]_vars => ListsInv'
<1> SUFFICES ASSUME ListsInv, [Next]_vars PROVE ListsInv'
  OBVIOUS
<1>1. of' = of
  BY DEF Next, vars
<1>2. ASSUME of = "lists" PROVE Inv'
  <2>1. Inv /\ [NextLists]_listenerVars
    BY <1>2 DEF ListsInv, Next, vars, listVars, listenerVars
  <2> QED BY <2>1, StepsKeepAgreement
<1>3. ASSUME of # "lists" PROVE NoList'
  BY <1>3 DEF ListsInv, NoList, Next, vars, listVars
<1> QED BY <1>1, <1>2, <1>3 DEF ListsInv

\* That is so whatever else there is, and whatever that does.
THEOREM PointersAlwaysAgree == Spec => []PointersAgree
<1>1. Init => ListsInv
  BY InitiallyAgree DEF Init, ListsInv
<1>2. NoList => PointersAgree
  BY NoneAssumption
  DEF NoList, Nobody, PointersAgree, InItsListOnce, LinkedObjectsExist
<1>3. ListsInv => PointersAgree
  BY <1>2 DEF ListsInv, Inv
<1> QED BY <1>1, <1>3, ListsNext, PTL DEF Spec

LEMMA OwnershipInit == Init => OwnershipInv
<1> SUFFICES ASSUME Init PROVE OwnershipInv
  OBVIOUS
<1> QED BY HandlesInit, MappingsInit, TimersInit, LogInit DEF Init, OwnershipInv

LEMMA OwnershipNext ==
  ASSUME "restart" \notin Uses
  PROVE  OwnershipInv /\ [Next]_vars => OwnershipInv'
<1> SUFFICES ASSUME OwnershipInv, [Next]_vars PROVE OwnershipInv'
  OBVIOUS
<1>1. of' = of
  BY DEF Next, vars
<1>4. ASSUME of = "handles" PROVE HandlesInv'
  <2>1. HandlesInv
    BY <1>4 DEF OwnershipInv
  <2>2. CASE Handling!Next
    BY <2>1, <2>2, HandlesNext
  <2>3. CASE UNCHANGED vars
    BY <2>1, <2>3 DEF vars, handleVars, ownedVars, HandlesInv, HandlesTypeOK, Once, FdIn, ErrorIn
  <2> QED BY <1>4, <2>2, <2>3 DEF Next
<1>5. ASSUME of = "mappings" PROVE MappingsInv'
  <2>1. MappingsInv
    BY <1>5 DEF OwnershipInv
  <2>2. CASE Handling!NextMappings
    BY <2>1, <2>2, MappingsNext
  <2>3. CASE UNCHANGED vars
    BY <2>1, <2>3 DEF vars, ownedVars, mappingVars, MappingsInv, ErrorsInv, FilesInv, DirsInv, Once
  <2> QED BY <1>5, <2>2, <2>3 DEF Next
<1>6. ASSUME of = "timers" PROVE TimersInv'
  <2>1. TimersInv
    BY <1>6 DEF OwnershipInv
  <2>2. CASE TimerUse!Next
    BY <2>1, <2>2, TimersNext
  <2>3. CASE UNCHANGED vars
    BY <2>1, <2>3 DEF vars, timerVars, TimersInv, TimersTypeOK, EntriesAreRight
  <2> QED BY <1>6, <2>2, <2>3 DEF Next
<1>7. ASSUME of = "log" PROVE LogInv'
  <2>1. LogInv
    BY <1>7 DEF OwnershipInv
  <2>2. CASE Logging!Next
    BY <2>1, <2>2, LogNext
  <2>3. CASE UNCHANGED vars
    BY <2>1, <2>3 DEF vars, logVars, LogInv, Logging!CallbacksHeldOnce, Logging!HasSharedLock
  <2> QED BY <1>7, <2>2, <2>3 DEF Next
<1> QED BY <1>1, <1>4, <1>5, <1>6, <1>7 DEF OwnershipInv

(***************************************************************************)
(* Whatever is moved, returned, closed and destroyed in whatever order:    *)
(* nothing is closed, deleted, unmapped or removed twice or never, an      *)
(* entry of a main loop is that of one Timer, and a callback is not lost   *)
(* or replaced while it is called.  For any number of objects; that a      *)
(* Timer which outlived its main loop is not started in another is needed. *)
(***************************************************************************)
THEOREM OwnersHoldOnce == "restart" \notin Uses => (Spec => []EverythingIsHeldOnce)
<1> SUFFICES ASSUME "restart" \notin Uses PROVE Spec => []EverythingIsHeldOnce
  OBVIOUS
<1>1. OwnershipInv => EverythingIsHeldOnce
  BY HandlesInvImpliesHeldOnce, MappingsInvImpliesHeldOnce, TimersInvImpliesBelong
  DEF OwnershipInv, EverythingIsHeldOnce, LogInv
<1>2. OwnershipInv /\ [Next]_vars => OwnershipInv'
  BY OwnershipNext
<1> QED BY OwnershipInit, <1>1, <1>2, PTL DEF Spec
=============================================================================

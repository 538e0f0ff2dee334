--------------------------- MODULE FDMonitorsProofs ---------------------------
(***************************************************************************)
(* IInv of FDMonitors is inductive, for any number of loops, monitors and  *)
(* descriptors, unless a monitor is started again that was started when    *)
(* its main loop was destroyed: what main loops watch and call callbacks   *)
(* for is what monitors are started for.                                   *)
(***************************************************************************)
EXTENDS FDMonitors, FiniteSetTheorems, SequenceTheorems, TLAPS

-----------------------------------------------------------------------------
(* What add(), modify() and remove() make of the registrations of a loop.  *)

With(g, l, f)    == [g EXCEPT ![l] = @ \cup {f}]
Without(g, l, f) == [g EXCEPT ![l] = @ \ {f}]

LEMMA RemoveEffect ==
    ASSUME NEW g \in [Loops -> SUBSET Fds], NEW h \in [Loops -> SUBSET Fds],
           NEW l \in Loops, NEW f, g[l] = h[l]
    PROVE  remove([watched |-> g, map |-> h, failed |-> {}], l, f)
              = [watched |-> Without(g, l, f), map |-> Without(h, l, f), failed |-> {}]
<1>1. CASE f \in h[l]
  BY <1>1 DEF remove, Watch, log_error_and_exit, epoll_remove, ctl, Without
<1>2. CASE f \notin h[l]
  <2>1. g[l] \ {f} = g[l] /\ h[l] \ {f} = h[l]
    BY <1>2
  <2>2. Without(g, l, f) = g /\ Without(h, l, f) = h
    BY <2>1 DEF Without
  <2> QED
    BY <1>2, <2>2 DEF remove
<1> QED
  BY <1>1, <1>2

LEMMA AddEffect ==
    ASSUME NEW g \in [Loops -> SUBSET Fds], NEW h \in [Loops -> SUBSET Fds],
           NEW l \in Loops, NEW f, f \notin g[l]
    PROVE  add([watched |-> g, map |-> h, failed |-> {}], l, f)
              = [watched |-> With(g, l, f), map |-> With(h, l, f), failed |-> {}]
BY DEF add, Watch, log_error_and_exit, epoll_add, ctl, With

LEMMA ModifyEffect ==
    ASSUME NEW g \in [Loops -> SUBSET Fds], NEW h \in [Loops -> SUBSET Fds],
           NEW l \in Loops, NEW f, f \in g[l], f \in h[l]
    PROVE  modify([watched |-> g, map |-> h, failed |-> {}], l, f)
              = [watched |-> g, map |-> h, failed |-> {}]
<1>1. h[l] \cup {f} = h[l]
  OBVIOUS
<1>2. [g EXCEPT ![l] = g[l]] = g /\ [h EXCEPT ![l] = h[l] \cup {f}] = h
  BY <1>1
<1> QED
  BY <1>2 DEF modify, Watch, log_error_and_exit, epoll_modify, ctl

-----------------------------------------------------------------------------
(* Registrations, one descriptor at a time.                                *)

Monitored(l, f) == \E m \in Monitors : data[m] = l /\ fd[m] = f

Registered ==
    \A l \in Loops : Alive(l) =>
        /\ watched[l] = map[l]
        /\ \A f \in Fds : f \in map[l] <=> Monitored(l, f)

LEMMA RegistrationsMatchMeans ==
    RegistrationsMatch <=> TypeOK /\ failed = {} /\ Registered
<1> SUFFICES ASSUME TypeOK
             PROVE  (\A l \in Loops : Alive(l) =>
                        /\ watched[l] = map[l]
                        /\ map[l] = {fd[m] : m \in {n \in Monitors : data[n] = l}})
                    <=> Registered
  BY DEF RegistrationsMatch
<1> SUFFICES ASSUME NEW l \in Loops
             PROVE  map[l] = {fd[m] : m \in {n \in Monitors : data[n] = l}}
                    <=> \A f \in Fds : f \in map[l] <=> Monitored(l, f)
  BY DEF Registered
<1>1. map[l] \subseteq Fds
  BY DEF TypeOK
<1>2. {fd[m] : m \in {n \in Monitors : data[n] = l}} \subseteq Fds
  BY NoneAssumption DEF TypeOK
<1>3. \A f \in Fds : f \in {fd[m] : m \in {n \in Monitors : data[n] = l}}
                     <=> Monitored(l, f)
  BY DEF Monitored
<1> QED
  BY <1>1, <1>2, <1>3

\* What a monitor has in a loop.
Has(m, l) == IF data[m] = l THEN {fd[m]} ELSE {}

LEMMA LockMeans ==
    ASSUME TypeOK, NEW m \in Monitors
    PROVE  \/ Lock(m) = None /\ \A l \in Loops : Alive(l) => Has(m, l) = {}
           \/ Lock(m) = data[m] /\ data[m] \in Loops /\ Alive(data[m]) /\ fd[m] \in Fds
BY NoneAssumption DEF TypeOK, Lock, Has

\* A monitor is stopped, by itself or because another moves to its place.
LEMMA StopEffect ==
    ASSUME TypeOK, Registered, NEW m \in Monitors, Lock(m) # None,
           Become(remove(State, Lock(m), fd[m]))
    PROVE  /\ failed' = failed /\ exited' = exited
           /\ watched' \in [Loops -> SUBSET Fds] /\ map' \in [Loops -> SUBSET Fds]
           /\ \A l \in Loops : Alive(l) => /\ watched'[l] = map'[l]
                                           /\ map'[l] = map[l] \ Has(m, l)
<1>1. Lock(m) = data[m] /\ data[m] \in Loops /\ Alive(data[m]) /\ fd[m] \in Fds
  BY LockMeans
<1>2. watched[data[m]] = map[data[m]]
  BY <1>1 DEF Registered
<1>3. /\ watched' = Without(watched, data[m], fd[m])
      /\ map' = Without(map, data[m], fd[m])
      /\ failed' = failed /\ exited' = exited
  <2> DEFINE s == remove(State, Lock(m), fd[m])
  <2>1. s = [watched |-> Without(watched, data[m], fd[m]),
             map |-> Without(map, data[m], fd[m]), failed |-> {}]
    <3>1. watched \in [Loops -> SUBSET Fds] /\ map \in [Loops -> SUBSET Fds]
      BY DEF TypeOK
    <3>2. s = remove([watched |-> watched, map |-> map, failed |-> {}], data[m], fd[m])
      BY <1>1 DEF State
    <3> HIDE DEF s
    <3> QED
      BY <1>1, <1>2, <3>1, <3>2, RemoveEffect
  <2>2. Become(s)
    OBVIOUS
  <2> HIDE DEF s
  <2> QED
    BY <2>1, <2>2 DEF Become
<1> QED
  BY <1>1, <1>2, <1>3 DEF Without, Registered, Has, TypeOK

\* start() of a monitor, which nobody else has started with the descriptor.
LEMMA StartEffect ==
    ASSUME TypeOK, Registered, MonitoredOnce,
           NEW m \in Monitors, NEW l \in Loops, NEW f \in Fds,
           Alive(l), ~Restarted(m),
           \A n \in Monitors \ {m} : data[n] = l => fd[n] # f,
           start(m, l, f)
    PROVE  /\ failed' = failed /\ exited' = exited
           /\ watched' \in [Loops -> SUBSET Fds] /\ map' \in [Loops -> SUBSET Fds]
           /\ \A k \in Loops : Alive(k) =>
                 /\ watched'[k] = map'[k]
                 /\ map'[k] = (map[k] \ Has(m, k)) \cup (IF k = l THEN {f} ELSE {})
<1>1. watched \in [Loops -> SUBSET Fds] /\ map \in [Loops -> SUBSET Fds]
  BY DEF TypeOK
<1>2. watched[l] = map[l]
  BY DEF Registered
<1>3. State = [watched |-> watched, map |-> map, failed |-> {}]
  BY DEF State
<1>4. Lock(m) = data[m]
  BY DEF Lock, Restarted
<1>5. f # None /\ l # None
  BY NoneAssumption
<1>6. CASE data[m] = None
  <2>1. fd[m] = None
    BY <1>6 DEF TypeOK
  <2>2. Become(add(State, l, f))
    BY <1>4, <1>5, <1>6, <2>1 DEF start
  <2>3. f \notin watched[l]
    BY <1>2, <1>5, <1>6 DEF Registered, Monitored
  <2>4. /\ watched' = With(watched, l, f) /\ map' = With(map, l, f)
        /\ failed' = failed /\ exited' = exited
    <3>1. add(State, l, f) = [watched |-> With(watched, l, f),
                              map |-> With(map, l, f), failed |-> {}]
      BY <1>1, <1>3, <2>3, AddEffect
    <3> QED
      BY <2>2, <3>1 DEF Become
  <2>5. \A k \in Loops : Has(m, k) = {}
    BY <1>6, NoneAssumption DEF Has
  <2> QED
    BY <1>1, <1>2, <2>4, <2>5 DEF With, Registered
<1>7. CASE data[m] = l /\ fd[m] = f
  <2>1. Become(modify(State, l, f))
    BY <1>4, <1>5, <1>7 DEF start
  <2>2. f \in map[l] /\ f \in watched[l]
    BY <1>2, <1>7 DEF Registered, Monitored
  <2>3. UNCHANGED <<watched, map, failed, exited>>
    <3>1. modify(State, l, f) = [watched |-> watched, map |-> map, failed |-> {}]
      BY <1>1, <1>3, <2>2, ModifyEffect
    <3> QED
      BY <2>1, <3>1 DEF Become
  <2>4. Has(m, l) = {f} /\ \A k \in Loops \ {l} : Has(m, k) = {}
    BY <1>7 DEF Has
  <2> QED
    BY <1>1, <2>2, <2>3, <2>4 DEF Registered
<1>8. CASE data[m] = l /\ fd[m] # f
  <2> DEFINE g == Without(watched, l, fd[m])
             h == Without(map, l, fd[m])
  <2>1. fd[m] # None
    BY <1>5, <1>8 DEF TypeOK
  <2>2. Become(add(remove(State, l, fd[m]), l, f))
    BY <1>4, <1>5, <1>8, <2>1 DEF start
  <2>3. remove(State, l, fd[m]) = [watched |-> g, map |-> h, failed |-> {}]
    BY <1>1, <1>2, <1>3, RemoveEffect
  <2>4. g \in [Loops -> SUBSET Fds] /\ h \in [Loops -> SUBSET Fds]
    BY <1>1 DEF Without
  <2>5. f \notin g[l]
    <3>1. f \notin map[l]
      BY <1>8 DEF Registered, Monitored
    <3> QED
      BY <1>1, <1>2, <3>1 DEF Without
  <2>6. /\ watched' = With(g, l, f) /\ map' = With(h, l, f)
        /\ failed' = failed /\ exited' = exited
    <3> HIDE DEF g, h
    <3>1. add([watched |-> g, map |-> h, failed |-> {}], l, f)
             = [watched |-> With(g, l, f), map |-> With(h, l, f), failed |-> {}]
      BY <2>4, <2>5, AddEffect
    <3> QED
      BY <2>2, <2>3, <3>1 DEF Become
  <2>7. Has(m, l) = {fd[m]} /\ \A k \in Loops \ {l} : Has(m, k) = {}
    BY <1>8 DEF Has
  <2> QED
    BY <1>1, <1>2, <2>6, <2>7 DEF With, Without, Registered
<1>9. CASE data[m] # None /\ data[m] # l
  <2> DEFINE k == data[m]
             g == Without(watched, k, fd[m])
             h == Without(map, k, fd[m])
  <2>1. k \in Loops /\ Alive(k) /\ watched[k] = map[k]
    BY <1>9 DEF TypeOK, Restarted, Registered
  <2>2. Become(add(remove(State, k, fd[m]), l, f))
    BY <1>4, <1>5, <1>9 DEF start
  <2>3. remove(State, k, fd[m]) = [watched |-> g, map |-> h, failed |-> {}]
    BY <1>1, <1>3, <2>1, RemoveEffect
  <2>4. g \in [Loops -> SUBSET Fds] /\ h \in [Loops -> SUBSET Fds]
    BY <1>1, <2>1 DEF Without
  <2>5. f \notin g[l]
    <3>1. f \notin map[l]
      BY <1>9 DEF Registered, Monitored
    <3> QED
      BY <1>1, <1>2, <1>9, <3>1 DEF Without
  <2>6. /\ watched' = With(g, l, f) /\ map' = With(h, l, f)
        /\ failed' = failed /\ exited' = exited
    <3> HIDE DEF g, h, k
    <3>1. add([watched |-> g, map |-> h, failed |-> {}], l, f)
             = [watched |-> With(g, l, f), map |-> With(h, l, f), failed |-> {}]
      BY <2>4, <2>5, AddEffect
    <3> QED
      BY <2>2, <2>3, <3>1 DEF Become
  <2>7. Has(m, k) = {fd[m]} /\ \A i \in Loops \ {k} : Has(m, i) = {}
    BY <1>9 DEF Has
  <2> QED
    BY <1>1, <1>2, <1>9, <2>1, <2>6, <2>7 DEF With, Without, Registered
<1> QED
  BY <1>6, <1>7, <1>8, <1>9

-----------------------------------------------------------------------------
(* Calls of FDMonitor.                                                     *)

LEMMA CallForms ==
    ASSUME NEW c \in Call
    PROVE  \/ c.op = "start" /\ c.m \in Monitors /\ c.l \in Loops /\ c.f \in Fds
           \/ c.op = "stop" /\ c.m \in Monitors
           \/ c.op = "move" /\ c.m \in Monitors /\ c.n \in Monitors
BY DEF Call

\* What a call does, whatever it is.
LEMMA DoEffect ==
    ASSUME TypeOK, Registered, MonitoredOnce,
           NEW c \in Call, CanBeDone(c), Do(c), \A l \in Loops : Alive(l)' = Alive(l)
    PROVE  /\ failed' = failed /\ exited' = exited
           /\ watched' \in [Loops -> SUBSET Fds] /\ map' \in [Loops -> SUBSET Fds]
           /\ data' \in [Monitors -> Loops \cup {None}]
           /\ fd' \in [Monitors -> Fds \cup {None}]
           /\ \A m \in Monitors : fd'[m] = None <=> data'[m] = None
           /\ Registered'
           /\ MonitoredOnce'
<1>1. CASE c.op = "start"
  <2> DEFINE m == c.m  l == c.l  f == c.f
  <2>1. m \in Monitors /\ l \in Loops /\ f \in Fds /\ start(m, l, f)
    BY <1>1, CallForms DEF Do
  <2>2. /\ Alive(l) /\ ~Restarted(m)
        /\ \A n \in Monitors \ {m} : data[n] = l => fd[n] # f
    BY <1>1 DEF CanBeDone
  <2> HIDE DEF m, l, f
  <2>3. /\ failed' = failed /\ exited' = exited
        /\ watched' \in [Loops -> SUBSET Fds] /\ map' \in [Loops -> SUBSET Fds]
        /\ \A k \in Loops : Alive(k) =>
              /\ watched'[k] = map'[k]
              /\ map'[k] = (map[k] \ Has(m, k)) \cup (IF k = l THEN {f} ELSE {})
    BY <2>1, <2>2, StartEffect
  <2>4. /\ data' = [data EXCEPT ![m] = l] /\ fd' = [fd EXCEPT ![m] = f]
        /\ l # None /\ f # None
    BY <2>1, NoneAssumption DEF start
  <2>5. /\ data' \in [Monitors -> Loops \cup {None}]
        /\ fd' \in [Monitors -> Fds \cup {None}]
        /\ \A n \in Monitors : fd'[n] = None <=> data'[n] = None
    BY <2>1, <2>4 DEF TypeOK
  <2>6. Registered'
    <3> SUFFICES ASSUME NEW k \in Loops, Alive(k), NEW e \in Fds
                 PROVE  e \in map'[k] <=> Monitored(k, e)'
      BY <2>3 DEF Registered
    <3>1. e \in map[k] <=> Monitored(k, e)
      BY DEF Registered
    <3>2. data'[m] = l /\ fd'[m] = f
      BY <2>1, <2>4 DEF TypeOK
    <3>3. \A n \in Monitors \ {m} : data'[n] = data[n] /\ fd'[n] = fd[n]
      BY <2>1, <2>4 DEF TypeOK
    <3>4. Monitored(k, e)' <=> \/ k = l /\ e = f
                               \/ \E n \in Monitors \ {m} : data[n] = k /\ fd[n] = e
      BY <2>1, <3>2, <3>3 DEF Monitored
    <3>5. e \in Has(m, k) <=> data[m] = k /\ fd[m] = e
      BY DEF Has
    <3>6. (data[m] = k /\ fd[m] = e) =>
             ~ \E n \in Monitors \ {m} : data[n] = k /\ fd[n] = e
      BY <2>1, NoneAssumption DEF MonitoredOnce
    <3>7. Monitored(k, e) <=> \/ data[m] = k /\ fd[m] = e
                              \/ \E n \in Monitors \ {m} : data[n] = k /\ fd[n] = e
      BY <2>1 DEF Monitored
    <3>8. e \in map'[k] <=> (e \in map[k] /\ e \notin Has(m, k)) \/ (k = l /\ e = f)
      BY <2>3
    <3> QED
      BY <3>1, <3>4, <3>5, <3>6, <3>7, <3>8
  <2>7. MonitoredOnce'
    <3> SUFFICES ASSUME NEW k \in Loops, NEW i \in Monitors, NEW j \in Monitors,
                        Alive(k), i # j, data'[i] = k, data'[j] = k
                 PROVE  fd'[i] # fd'[j]
      BY DEF MonitoredOnce
    <3>1. data'[m] = l /\ fd'[m] = f
      BY <2>1, <2>4 DEF TypeOK
    <3>2. \A n \in Monitors \ {m} : data'[n] = data[n] /\ fd'[n] = fd[n]
      BY <2>1, <2>4 DEF TypeOK
    <3>3. CASE i = m \/ j = m
      BY <2>2, <3>1, <3>2, <3>3
    <3>4. CASE i # m /\ j # m
      BY <3>2, <3>4 DEF MonitoredOnce
    <3> QED
      BY <3>3, <3>4
  <2> QED
    BY <2>3, <2>5, <2>6, <2>7
<1>2. CASE c.op = "stop"
  <2> DEFINE m == c.m
  <2>1. m \in Monitors /\ stop(m)
    BY <1>2, CallForms DEF Do
  <2> HIDE DEF m
  <2>2. CASE Lock(m) = None
    <3>1. UNCHANGED <<dataVars, monitorVars>>
      BY <2>1, <2>2 DEF stop
    <3> QED
      BY <3>1 DEF dataVars, monitorVars, TypeOK, Registered, Monitored, MonitoredOnce
  <2>3. CASE Lock(m) # None
    <3>1. /\ Become(remove(State, Lock(m), fd[m]))
          /\ data' = [data EXCEPT ![m] = None] /\ fd' = [fd EXCEPT ![m] = None]
      BY <2>1, <2>3 DEF stop
    <3>2. /\ failed' = failed /\ exited' = exited
          /\ watched' \in [Loops -> SUBSET Fds] /\ map' \in [Loops -> SUBSET Fds]
          /\ \A l \in Loops : Alive(l) => watched'[l] = map'[l] /\ map'[l] = map[l] \ Has(m, l)
      BY <2>1, <2>3, <3>1, StopEffect
    <3>3. data'[m] = None /\ fd'[m] = None
      BY <2>1, <3>1 DEF TypeOK
    <3>4. \A n \in Monitors \ {m} : data'[n] = data[n] /\ fd'[n] = fd[n]
      BY <2>1, <3>1 DEF TypeOK
    <3>5. /\ data' \in [Monitors -> Loops \cup {None}]
          /\ fd' \in [Monitors -> Fds \cup {None}]
          /\ \A n \in Monitors : fd'[n] = None <=> data'[n] = None
      BY <2>1, <3>1 DEF TypeOK
    <3>6. Registered'
      <4> SUFFICES ASSUME NEW k \in Loops, Alive(k), NEW e \in Fds
                   PROVE  e \in map'[k] <=> Monitored(k, e)'
        BY <3>2 DEF Registered
      <4>1. e \in map[k] <=> Monitored(k, e)
        BY DEF Registered
      <4>2. Monitored(k, e)' <=> \E n \in Monitors \ {m} : data[n] = k /\ fd[n] = e
        BY <2>1, <3>3, <3>4, NoneAssumption DEF Monitored
      <4>3. e \in Has(m, k) <=> data[m] = k /\ fd[m] = e
        BY DEF Has
      <4>4. (data[m] = k /\ fd[m] = e) =>
               ~ \E n \in Monitors \ {m} : data[n] = k /\ fd[n] = e
        BY <2>1, NoneAssumption DEF MonitoredOnce
      <4>5. Monitored(k, e) <=> \/ data[m] = k /\ fd[m] = e
                                \/ \E n \in Monitors \ {m} : data[n] = k /\ fd[n] = e
        BY <2>1 DEF Monitored
      <4>6. e \in map'[k] <=> e \in map[k] /\ e \notin Has(m, k)
        BY <3>2
      <4> QED
        BY <4>1, <4>2, <4>3, <4>4, <4>5, <4>6
    <3>7. MonitoredOnce'
      <4> SUFFICES ASSUME NEW k \in Loops, NEW i \in Monitors, NEW j \in Monitors,
                          Alive(k), i # j, data'[i] = k, data'[j] = k
                   PROVE  fd'[i] # fd'[j]
        BY DEF MonitoredOnce
      <4>1. i # m /\ j # m
        BY <3>3, NoneAssumption
      <4> QED
        BY <3>4, <4>1 DEF MonitoredOnce
    <3> QED
      BY <3>2, <3>5, <3>6, <3>7
  <2> QED
    BY <2>2, <2>3
<1>3. CASE c.op = "move"
  <2> DEFINE m == c.m  n == c.n
  <2>1. m \in Monitors /\ n \in Monitors /\ m # n /\ move(m, n)
    BY <1>3, CallForms DEF Do, CanBeDone
  <2> HIDE DEF m, n
  <2>2. /\ failed' = failed /\ exited' = exited
        /\ watched' \in [Loops -> SUBSET Fds] /\ map' \in [Loops -> SUBSET Fds]
        /\ \A l \in Loops : Alive(l) => watched'[l] = map'[l] /\ map'[l] = map[l] \ Has(n, l)
    <3>1. CASE Lock(n) = None
      <4>1. UNCHANGED dataVars
        BY <2>1, <3>1 DEF move
      <4>2. \A l \in Loops : Alive(l) => Has(n, l) = {}
        BY <2>1, <3>1, LockMeans, NoneAssumption
      <4> QED
        BY <4>1, <4>2 DEF dataVars, TypeOK, Registered
    <3>2. CASE Lock(n) # None
      <4>1. Become(remove(State, Lock(n), fd[n]))
        BY <2>1, <3>2 DEF move
      <4> QED
        BY <2>1, <3>2, <4>1, StopEffect
    <3> QED
      BY <3>1, <3>2
  <2>3. /\ data' = [data EXCEPT ![n] = data[m], ![m] = None]
        /\ fd' = [fd EXCEPT ![n] = fd[m], ![m] = None]
    BY <2>1 DEF move
  <2>4. /\ data'[m] = None /\ fd'[m] = None /\ data'[n] = data[m] /\ fd'[n] = fd[m]
        /\ \A i \in Monitors \ {m, n} : data'[i] = data[i] /\ fd'[i] = fd[i]
    BY <2>1, <2>3 DEF TypeOK
  <2>5. /\ data' \in [Monitors -> Loops \cup {None}]
        /\ fd' \in [Monitors -> Fds \cup {None}]
        /\ \A i \in Monitors : fd'[i] = None <=> data'[i] = None
    BY <2>1, <2>3 DEF TypeOK
  <2>6. Registered'
    <3> SUFFICES ASSUME NEW k \in Loops, Alive(k), NEW e \in Fds
                 PROVE  e \in map'[k] <=> Monitored(k, e)'
      BY <2>2 DEF Registered
    <3>1. e \in map[k] <=> Monitored(k, e)
      BY DEF Registered
    <3>2. Monitored(k, e)' <=> \E i \in Monitors \ {n} : data[i] = k /\ fd[i] = e
      BY <2>1, <2>4, NoneAssumption DEF Monitored
    <3>3. e \in Has(n, k) <=> data[n] = k /\ fd[n] = e
      BY DEF Has
    <3>4. (data[n] = k /\ fd[n] = e) =>
             ~ \E i \in Monitors \ {n} : data[i] = k /\ fd[i] = e
      BY <2>1, NoneAssumption DEF MonitoredOnce
    <3>5. Monitored(k, e) <=> \/ data[n] = k /\ fd[n] = e
                              \/ \E i \in Monitors \ {n} : data[i] = k /\ fd[i] = e
      BY <2>1 DEF Monitored
    <3>6. e \in map'[k] <=> e \in map[k] /\ e \notin Has(n, k)
      BY <2>2
    <3> QED
      BY <3>1, <3>2, <3>3, <3>4, <3>5, <3>6
  <2>7. MonitoredOnce'
    <3> SUFFICES ASSUME NEW k \in Loops, NEW i \in Monitors, NEW j \in Monitors,
                        Alive(k), i # j, data'[i] = k, data'[j] = k
                 PROVE  fd'[i] # fd'[j]
      BY DEF MonitoredOnce
    <3>1. i # m /\ j # m
      BY <2>4, NoneAssumption
    <3> DEFINE Source(x) == IF x = n THEN m ELSE x
    <3>2. /\ Source(i) \in Monitors /\ Source(j) \in Monitors /\ Source(i) # Source(j)
          /\ data'[i] = data[Source(i)] /\ fd'[i] = fd[Source(i)]
          /\ data'[j] = data[Source(j)] /\ fd'[j] = fd[Source(j)]
      BY <2>1, <2>4, <3>1
    <3> HIDE DEF Source
    <3> QED
      BY <3>2 DEF MonitoredOnce
  <2> QED
    BY <2>2, <2>5, <2>6, <2>7
<1> QED
  BY <1>1, <1>2, <1>3, CallForms

\* A call leaves those that are under way as they were.
LEMMA DoKeepsOthers ==
    ASSUME TypeOK, NEW c \in Call, Do(c), CanBeDone(c),
           NEW d \in Call, CanBeDone(d), Apart(c, d),
           \A l \in Loops : Alive(l)' = Alive(l)
    PROVE  CanBeDone(d)'
<1>1. d.op = "move" => d.m # d.n
  BY DEF CanBeDone
<1>2. ASSUME d.op = "start"
      PROVE  /\ Alive(d.l)' /\ ~Restarted(d.m)'
             /\ \A n \in Monitors \ {d.m} : data'[n] = d.l => fd'[n] # d.f
  <2>1. /\ d.m \in Monitors /\ d.l \in Loops /\ d.f \in Fds
        /\ Alive(d.l) /\ ~Restarted(d.m)
        /\ \A n \in Monitors \ {d.m} : data[n] = d.l => fd[n] # d.f
        /\ d.m \notin MonitorsOf(c)
        /\ c.op = "start" => c.l # d.l \/ c.f # d.f
    BY <1>2, CallForms DEF CanBeDone, Apart, MonitorsOf
  <2>2. \A n \in Monitors : n \notin MonitorsOf(c) =>
           data'[n] = data[n] /\ fd'[n] = fd[n]
    <3>1. CASE c.op = "start"
      BY <3>1, CallForms DEF Do, start, MonitorsOf, TypeOK
    <3>2. CASE c.op = "stop"
      <4>1. \/ UNCHANGED <<data, fd>>
            \/ /\ data' = [data EXCEPT ![c.m] = None]
               /\ fd' = [fd EXCEPT ![c.m] = None]
        BY <3>2 DEF Do, stop, monitorVars
      <4> QED
        BY <3>2, <4>1 DEF MonitorsOf, TypeOK
    <3>3. CASE c.op = "move"
      <4>1. /\ data' = [data EXCEPT ![c.n] = data[c.m], ![c.m] = None]
            /\ fd' = [fd EXCEPT ![c.n] = fd[c.m], ![c.m] = None]
        BY <3>3 DEF Do, move
      <4> QED
        BY <3>3, <4>1 DEF MonitorsOf, TypeOK
    <3> QED
      BY <3>1, <3>2, <3>3, CallForms
  <2>3. ASSUME NEW n \in Monitors, n # d.m, n \in MonitorsOf(c),
               data'[n] = d.l, fd'[n] = d.f
        PROVE  FALSE
    <3>1. CASE c.op = "start"
      <4>1. n = c.m /\ data'[n] = c.l /\ fd'[n] = c.f
        BY <2>3, <3>1 DEF Do, start, MonitorsOf, TypeOK
      <4> QED
        BY <2>1, <2>3, <3>1, <4>1
    <3>2. CASE c.op = "stop"
      <4>1. /\ n = c.m
            /\ data'[n] = None \/ (data'[n] = data[n] /\ fd'[n] = fd[n])
        BY <2>3, <3>2 DEF Do, stop, monitorVars, MonitorsOf, TypeOK
      <4> QED
        BY <2>1, <2>3, <4>1, NoneAssumption
    <3>3. CASE c.op = "move"
      <4>1. /\ c.m \in Monitors /\ c.n \in Monitors /\ c.m # c.n
            /\ data' = [data EXCEPT ![c.n] = data[c.m], ![c.m] = None]
            /\ fd' = [fd EXCEPT ![c.n] = fd[c.m], ![c.m] = None]
        BY <3>3, CallForms DEF Do, move, CanBeDone
      <4>2. CASE n = c.m
        BY <2>1, <2>3, <4>1, <4>2, NoneAssumption DEF TypeOK
      <4>3. CASE n = c.n
        <5>1. data'[n] = data[c.m] /\ fd'[n] = fd[c.m]
          BY <4>1, <4>3 DEF TypeOK
        <5>2. c.m # d.m
          BY <2>1, <3>3 DEF MonitorsOf
        <5> QED
          BY <2>1, <2>3, <4>1, <5>1, <5>2
      <4> QED
        BY <2>3, <3>3, <4>2, <4>3 DEF MonitorsOf
    <3> QED
      BY <3>1, <3>2, <3>3, CallForms
  <2>4. data'[d.m] = data[d.m] /\ Alive(d.l)'
    BY <2>1, <2>2
  <2>5. ~Restarted(d.m)'
    <3>1. data[d.m] = None \/ (data[d.m] \in Loops /\ Alive(data[d.m]))
      BY <2>1 DEF Restarted, TypeOK
    <3>2. data'[d.m] = None \/ (\E l \in Loops : l = data'[d.m] /\ Alive(l)')
      BY <2>4, <3>1
    <3> QED
      BY <3>2 DEF Restarted, Alive
  <2> QED
    BY <2>1, <2>2, <2>3, <2>4, <2>5
<1> QED
  BY <1>1, <1>2 DEF CanBeDone

\* What a thread may begin is not in the way of what others have begun.
LEMMA MayCallMeans ==
    ASSUME TypeOK, PendingCallsCanBeDone, "restart" \notin Uses,
           NEW c \in Call, MayCall(c)
    PROVE  /\ CanBeDone(c)
           /\ \A l \in Loops : pending[l] # None =>
                 Apart(c, pending[l]) /\ Apart(pending[l], c)
<1>1. CanBeDone(c)
  BY CallForms DEF MayCall, CanBeDone, Claimed
<1>2. ASSUME NEW l \in Loops, pending[l] # None
      PROVE  MonitorsOf(c) \cap MonitorsOf(pending[l]) = {}
  <2>1. ~Used(c.m) /\ (c.op = "move" => ~Used(c.n))
    BY DEF MayCall
  <2> QED
    BY <1>2, <2>1 DEF MonitorsOf, Used
<1>3. ASSUME NEW l \in Loops, pending[l] # None,
             c.op = "start", pending[l].op = "start"
      PROVE  c.l # pending[l].l \/ c.f # pending[l].f
  BY <1>3 DEF MayCall, Claimed
<1> QED
  BY <1>1, <1>2, <1>3 DEF Apart

-----------------------------------------------------------------------------
(* Steps that leave monitors and registrations alone.                      *)

\* epoll_wait() fills in descriptors that are ready.
LEMMA BatchType ==
    ASSUME TypeOK, NEW l \in Loops, NEW batch \in epoll_wait(ReadyIn(l), BatchSize)
    PROVE  batch \in Seq(Fds)
<1>1. ReadyIn(l) \subseteq Fds /\ IsFiniteSet(ReadyIn(l))
  BY FdsAssumption, FS_Subset DEF ReadyIn, TypeOK
<1>2. Cardinality(ReadyIn(l)) \in Nat
  BY <1>1, FS_CardinalityType
<1>3. PICK n \in Nat : batch \in [1..n -> ReadyIn(l)]
  BY <1>2, BatchAssumption DEF epoll_wait
<1> QED
  BY <1>1, <1>3, SeqDef

QuietStep(l) ==
    \/ wait(l) \/ dispatch(l) \/ lock(l) \/ next_event(l) \/ callback_returns(l)
    \/ batch_end(l) \/ leave(l)

LEMMA QuietStepTypes ==
    ASSUME TypeOK, CallbacksHaveAnEvent, NEW l \in Loops, QuietStep(l)
    PROVE  TypeOK' /\ CallbacksHaveAnEvent'
<1>1. UNCHANGED <<dataVars, monitorVars, pending, calls>>
  BY DEF QuietStep, wait, dispatch, lock, next_event, callback_returns,
         batch_end, leave
<1>2. events[l] # <<>> => Tail(events[l]) \in Seq(Fds) /\ Head(events[l]) \in Fds
  BY HeadTailProperties DEF TypeOK
<1>3. CASE wait(l) \/ lock(l) \/ batch_end(l) \/ leave(l)
  <2>1. /\ UNCHANGED <<events, ready>>
        /\ \E p \in PCs \ {"callback", "calling"} : pc' = [pc EXCEPT ![l] = p]
    BY <1>3 DEF wait, lock, batch_end, leave, GoTo, PCs
  <2>2. pc' \in [Loops -> PCs]
    BY <2>1 DEF TypeOK
  <2>3. CallbacksHaveAnEvent'
    BY <2>1 DEF CallbacksHaveAnEvent, TypeOK
  <2> QED
    BY <1>1, <2>1, <2>2, <2>3 DEF TypeOK, dataVars, monitorVars
<1>4. CASE dispatch(l)
  <2>1. PICK batch \in epoll_wait(ReadyIn(l), BatchSize) :
           /\ events' = [events EXCEPT ![l] = batch]
           /\ pc' = [pc EXCEPT ![l] = "lock"]
           /\ UNCHANGED ready
    BY <1>4 DEF dispatch, GoTo
  <2>2. events' \in [Loops -> Seq(Fds)] /\ pc' \in [Loops -> PCs]
    BY <2>1, BatchType DEF TypeOK, PCs
  <2>3. CallbacksHaveAnEvent'
    BY <2>1 DEF CallbacksHaveAnEvent, TypeOK
  <2> QED
    BY <1>1, <2>1, <2>2, <2>3 DEF TypeOK, dataVars, monitorVars
<1>5. CASE next_event(l)
  <2>1. UNCHANGED ready /\ events[l] # <<>> /\ pc[l] = "batch"
    BY <1>5 DEF next_event
  <2>2. \/ pc' = [pc EXCEPT ![l] = "callback"] /\ UNCHANGED events
        \/ UNCHANGED pc /\ events' = [events EXCEPT ![l] = Tail(events[l])]
    BY <1>5 DEF next_event, GoTo
  <2>3. events' \in [Loops -> Seq(Fds)] /\ pc' \in [Loops -> PCs]
    BY <1>2, <2>1, <2>2 DEF TypeOK, PCs
  <2>4. CallbacksHaveAnEvent'
    BY <2>1, <2>2 DEF CallbacksHaveAnEvent, TypeOK
  <2> QED
    BY <1>1, <2>1, <2>3, <2>4 DEF TypeOK, dataVars, monitorVars
<1>6. CASE callback_returns(l)
  <2>1. /\ pc[l] = "callback" /\ pc' = [pc EXCEPT ![l] = "batch"]
        /\ events' = [events EXCEPT ![l] = Tail(events[l])]
        /\ ready' \subseteq ready
    BY <1>6 DEF callback_returns, GoTo
  <2>2. events[l] # <<>>
    BY <2>1 DEF CallbacksHaveAnEvent
  <2>3. events' \in [Loops -> Seq(Fds)] /\ pc' \in [Loops -> PCs]
    BY <1>2, <2>1, <2>2 DEF TypeOK, PCs
  <2>4. CallbacksHaveAnEvent'
    BY <2>1 DEF CallbacksHaveAnEvent, TypeOK
  <2> QED
    BY <1>1, <2>1, <2>3, <2>4 DEF TypeOK, dataVars, monitorVars
<1> QED
  BY <1>3, <1>4, <1>5, <1>6 DEF QuietStep

\* Monitors, registrations and calls, while no loop is destroyed and no call
\* begun or ended.
LEMMA RegistrationsLeftAlone ==
    ASSUME Registered, MonitoredOnce, PendingCallsCanBeDone, TypeOK,
           UNCHANGED <<watched, map, data, fd, pending>>,
           \A l \in Loops : /\ pc'[l] = "destroyed" <=> pc[l] = "destroyed"
                            /\ pc'[l] = "calling" <=> pc[l] = "calling"
    PROVE  Registered' /\ MonitoredOnce' /\ PendingCallsCanBeDone'
<1>1. \A l \in Loops : Alive(l)' <=> Alive(l)
  BY DEF Alive
<1>2. Registered' /\ MonitoredOnce'
  BY <1>1 DEF Registered, Monitored, MonitoredOnce
<1>3. ASSUME NEW c \in Call, CanBeDone(c) PROVE CanBeDone(c)'
  BY <1>1, <1>3, CallForms DEF CanBeDone, Restarted, Alive, TypeOK
<1>4. PendingCallsCanBeDone'
  BY <1>3 DEF PendingCallsCanBeDone, TypeOK
<1> QED
  BY <1>2, <1>4

LEMMA QuietStepRegistrations ==
    ASSUME Registered, MonitoredOnce, PendingCallsCanBeDone, TypeOK,
           NEW l \in Loops, QuietStep(l)
    PROVE  Registered' /\ MonitoredOnce' /\ PendingCallsCanBeDone'
<1>1. UNCHANGED <<watched, map, data, fd, pending>>
  BY DEF QuietStep, wait, dispatch, lock, next_event, callback_returns,
         batch_end, leave, dataVars, monitorVars
<1>2. \A k \in Loops : /\ pc'[k] = "destroyed" <=> pc[k] = "destroyed"
                       /\ pc'[k] = "calling" <=> pc[k] = "calling"
  BY DEF QuietStep, wait, dispatch, lock, next_event, callback_returns,
         batch_end, leave, GoTo, TypeOK
<1> QED
  BY <1>1, <1>2, RegistrationsLeftAlone

-----------------------------------------------------------------------------
(* The inductive invariant.                                                *)

Inv ==
    /\ TypeOK
    /\ failed = {}
    /\ Registered
    /\ MonitoredOnce
    /\ PendingCallsCanBeDone
    /\ CallbacksHaveAnEvent

LEMMA IInvMeans == IInv <=> Inv
BY RegistrationsMatchMeans DEF IInv, Inv

LEMMA OutsideCallStep ==
    ASSUME Inv, "restart" \notin Uses, outside_call
    PROVE  Inv'
<1>1. PICK c \in Call : /\ MayCall(c) /\ Do(c)
                        /\ calls' = calls + 1
                        /\ UNCHANGED <<loopVars, ready>>
  BY DEF outside_call
<1>2. /\ CanBeDone(c)
      /\ \A l \in Loops : pending[l] # None =>
            Apart(c, pending[l]) /\ Apart(pending[l], c)
  BY <1>1, MayCallMeans DEF Inv
<1>3. \A l \in Loops : Alive(l)' = Alive(l)
  BY <1>1 DEF Alive, loopVars
<1>4. /\ failed' = failed /\ exited' = exited
      /\ watched' \in [Loops -> SUBSET Fds] /\ map' \in [Loops -> SUBSET Fds]
      /\ data' \in [Monitors -> Loops \cup {None}]
      /\ fd' \in [Monitors -> Fds \cup {None}]
      /\ \A m \in Monitors : fd'[m] = None <=> data'[m] = None
      /\ Registered'
      /\ MonitoredOnce'
  BY <1>1, <1>2, <1>3, DoEffect DEF Inv
<1>5. calls' \in 0..MaxCalls
  BY <1>1, CallsAssumption DEF MayCall, Inv, TypeOK
<1>6. TypeOK'
  BY <1>1, <1>4, <1>5 DEF Inv, TypeOK, loopVars
<1>7. ASSUME NEW l \in Loops, pending[l] # None PROVE CanBeDone(pending[l])'
  <2>1. pending' = pending /\ pending[l] \in Call /\ CanBeDone(pending[l])
    BY <1>1, <1>7 DEF Inv, TypeOK, PendingCallsCanBeDone, loopVars
  <2>2. PICK d \in Call : d = pending[l]
    BY <2>1
  <2>3. CanBeDone(d)'
    BY <1>1, <1>2, <1>3, <1>7, <2>1, <2>2, DoKeepsOthers DEF Inv
  <2>4. d = pending'[l]
    BY <2>1, <2>2
  <2> QED
    BY <2>3, <2>4 DEF CanBeDone, Restarted, Alive
<1>8. PendingCallsCanBeDone'
  BY <1>1, <1>7 DEF Inv, PendingCallsCanBeDone, loopVars
<1>9. CallbacksHaveAnEvent'
  BY <1>1 DEF Inv, CallbacksHaveAnEvent, loopVars
<1> QED
  BY <1>4, <1>6, <1>8, <1>9 DEF Inv

LEMMA CallbackDoStep ==
    ASSUME Inv, NEW l \in Loops, callback_do(l)
    PROVE  Inv'
<1> DEFINE c == pending[l]
<1>1. /\ pc[l] = "calling" /\ Do(c)
      /\ pending' = [pending EXCEPT ![l] = None]
      /\ pc' = [pc EXCEPT ![l] = "callback"]
      /\ UNCHANGED <<events, ready, calls>>
  BY DEF callback_do
<1>2. /\ c # None /\ c \in Call /\ CanBeDone(c)
      /\ \A k \in Loops \ {l} : pending[k] # None => Apart(c, pending[k])
  BY <1>1 DEF Inv, TypeOK, PendingCallsCanBeDone
<1>3. PICK e \in Call : e = c
  BY <1>2
<1>4. Do(e) /\ CanBeDone(e)
  BY <1>1, <1>2, <1>3
<1>5. \A k \in Loops : Alive(k)' = Alive(k)
  BY <1>1 DEF Inv, TypeOK, Alive
<1>6. /\ failed' = failed /\ exited' = exited
      /\ watched' \in [Loops -> SUBSET Fds] /\ map' \in [Loops -> SUBSET Fds]
      /\ data' \in [Monitors -> Loops \cup {None}]
      /\ fd' \in [Monitors -> Fds \cup {None}]
      /\ \A m \in Monitors : fd'[m] = None <=> data'[m] = None
      /\ Registered'
      /\ MonitoredOnce'
  BY <1>4, <1>5, DoEffect DEF Inv
<1>7. pending' \in [Loops -> Call \cup {None}] /\ pc' \in [Loops -> PCs]
  BY <1>1 DEF Inv, TypeOK, PCs
<1>8. TypeOK'
  BY <1>1, <1>6, <1>7 DEF Inv, TypeOK
<1>9. ASSUME NEW k \in Loops \ {l}, pending[k] # None
      PROVE  pending'[k] = pending[k] /\ CanBeDone(pending[k])'
  <2>1. pending'[k] = pending[k] /\ pending[k] \in Call /\ CanBeDone(pending[k])
    BY <1>1, <1>9 DEF Inv, TypeOK, PendingCallsCanBeDone
  <2>2. PICK d \in Call : d = pending[k]
    BY <2>1
  <2>3. CanBeDone(d)'
    BY <1>2, <1>3, <1>4, <1>5, <1>9, <2>1, <2>2, DoKeepsOthers DEF Inv
  <2>4. d = pending'[k]
    BY <2>1, <2>2
  <2> QED
    BY <2>1, <2>3, <2>4 DEF CanBeDone, Restarted, Alive
<1>10. PendingCallsCanBeDone'
  <2>1. pending'[l] = None /\ pc'[l] = "callback"
    BY <1>1 DEF Inv, TypeOK
  <2>2. \A k \in Loops \ {l} : pending'[k] = pending[k] /\ pc'[k] = pc[k]
    BY <1>1 DEF Inv, TypeOK
  <2> QED
    BY <1>9, <2>1, <2>2 DEF Inv, PendingCallsCanBeDone
<1>11. CallbacksHaveAnEvent'
  BY <1>1 DEF Inv, TypeOK, CallbacksHaveAnEvent
<1> QED
  BY <1>6, <1>8, <1>10, <1>11 DEF Inv

LEMMA CallbackCallStep ==
    ASSUME Inv, "restart" \notin Uses, NEW l \in Loops, callback_call(l)
    PROVE  Inv'
<1>1. PICK c \in Call : MayCall(c) /\ pending' = [pending EXCEPT ![l] = c]
  BY DEF callback_call
<1>2. /\ pc[l] = "callback" /\ pc' = [pc EXCEPT ![l] = "calling"]
      /\ calls' = calls + 1
      /\ UNCHANGED <<events, dataVars, monitorVars, ready>>
  BY DEF callback_call
<1>3. /\ CanBeDone(c)
      /\ \A k \in Loops : pending[k] # None =>
            Apart(c, pending[k]) /\ Apart(pending[k], c)
  BY <1>1, MayCallMeans DEF Inv
<1>4. \A k \in Loops : Alive(k)' <=> Alive(k)
  BY <1>2 DEF Inv, TypeOK, Alive
<1>5. Registered' /\ MonitoredOnce'
  BY <1>2, <1>4 DEF Inv, Registered, Monitored, MonitoredOnce, dataVars, monitorVars
<1>6. ASSUME NEW d \in Call, CanBeDone(d) PROVE CanBeDone(d)'
  BY <1>2, <1>4, <1>6, CallForms
     DEF Inv, CanBeDone, Restarted, Alive, TypeOK, monitorVars
<1>7. calls' \in 0..MaxCalls
  BY <1>1, <1>2, CallsAssumption DEF MayCall, Inv, TypeOK
<1>8. pending' \in [Loops -> Call \cup {None}] /\ pc' \in [Loops -> PCs]
  BY <1>1, <1>2 DEF Inv, TypeOK, PCs
<1>9. TypeOK'
  BY <1>2, <1>7, <1>8 DEF Inv, TypeOK, dataVars, monitorVars
<1>10. /\ pending'[l] = c /\ pc'[l] = "calling" /\ c # None
       /\ \A k \in Loops \ {l} : pending'[k] = pending[k] /\ pc'[k] = pc[k]
  BY <1>1, <1>2, CallAssumption DEF Inv, TypeOK
<1>11. PendingCallsCanBeDone'
  <2>1. CanBeDone(pending[l])'
    <3>1. CanBeDone(c)'
      BY <1>3, <1>6
    <3> QED
      BY <1>10, <3>1 DEF CanBeDone, Restarted, Alive
  <2>2. ASSUME NEW k \in Loops \ {l}, pending[k] # None
        PROVE  CanBeDone(pending[k])'
    <3>1. CanBeDone(pending[k]) /\ pending[k] \in Call
      BY <2>2 DEF Inv, PendingCallsCanBeDone, TypeOK
    <3>2. PICK d \in Call : d = pending[k]
      BY <3>1
    <3>3. CanBeDone(d)'
      BY <1>6, <3>1, <3>2
    <3>4. d = pending'[k]
      BY <1>10, <3>2
    <3> QED
      BY <3>3, <3>4 DEF CanBeDone, Restarted, Alive
  <2>3. ASSUME NEW k \in Loops
        PROVE  pending'[k] # None <=> pc'[k] = "calling"
    BY <1>10 DEF Inv, PendingCallsCanBeDone
  <2>4. ASSUME NEW k \in Loops, NEW i \in Loops \ {k},
               pending'[k] # None, pending'[i] # None
        PROVE  Apart(pending'[i], pending'[k])
    <3>1. CASE k = l
      BY <1>3, <1>10, <2>4, <3>1
    <3>2. CASE i = l
      BY <1>3, <1>10, <2>4, <3>2
    <3>3. CASE k # l /\ i # l
      BY <1>10, <2>4, <3>3 DEF Inv, PendingCallsCanBeDone
    <3> QED
      BY <3>1, <3>2, <3>3
  <2>5. \A k \in Loops : pending'[k] # None => CanBeDone(pending[k])'
    BY <1>10, <2>1, <2>2
  <2> QED
    BY <2>3, <2>4, <2>5 DEF PendingCallsCanBeDone
<1>12. CallbacksHaveAnEvent'
  BY <1>2, <1>10 DEF Inv, CallbacksHaveAnEvent
<1> QED
  BY <1>2, <1>5, <1>9, <1>11, <1>12 DEF Inv, dataVars

\* A loop that is destroyed is not one that a call under way still needs.
LEMMA DestroyStep ==
    ASSUME Inv, NEW l \in Loops, destroy(l)
    PROVE  Inv'
<1>1. /\ pc[l] = "returned" /\ pc' = [pc EXCEPT ![l] = "destroyed"]
      /\ \A k \in Loops : pending[k] # None => l \notin Locks(pending[k])
      /\ watched' = [watched EXCEPT ![l] = {}] /\ map' = [map EXCEPT ![l] = {}]
      /\ UNCHANGED <<events, pending, exited, failed, monitorVars, ready, calls>>
  BY DEF destroy, GoTo
<1>2. TypeOK'
  BY <1>1 DEF Inv, TypeOK, PCs, monitorVars
<1>3. /\ ~Alive(l)' /\ Alive(l)
      /\ \A k \in Loops \ {l} : /\ Alive(k)' <=> Alive(k)
                                /\ watched'[k] = watched[k] /\ map'[k] = map[k]
  BY <1>1 DEF Inv, TypeOK, Alive
<1>4. Registered' /\ MonitoredOnce'
  BY <1>1, <1>3 DEF Inv, Registered, Monitored, MonitoredOnce, monitorVars
<1>5. ASSUME NEW c \in Call, CanBeDone(c), l \notin Locks(c) PROVE CanBeDone(c)'
  <2>1. CASE c.op = "start"
    <3>1. /\ c.m \in Monitors /\ c.l \in Loops
          /\ Alive(c.l) /\ ~Restarted(c.m)
          /\ \A n \in Monitors \ {c.m} : data[n] = c.l => fd[n] # c.f
      BY <1>5, <2>1, CallForms DEF CanBeDone
    <3>2. Locks(c) = {c.l, Lock(c.m)} \ {None}
      BY <2>1 DEF Locks
    <3>3. c.l # l /\ Lock(c.m) # l
      BY <1>5, <3>1, <3>2, NoneAssumption
    <3>4. data[c.m] # l
      BY <1>3, <3>3, NoneAssumption DEF Lock
    <3>5. ~Restarted(c.m)'
      BY <1>1, <3>1, <3>4 DEF Restarted, Alive, Inv, TypeOK, monitorVars
    <3>6. Alive(c.l)'
      BY <1>3, <3>1, <3>3
    <3> QED
      BY <1>1, <2>1, <3>1, <3>5, <3>6 DEF CanBeDone, monitorVars
  <2>2. CASE c.op # "start"
    BY <1>5, <2>2 DEF CanBeDone
  <2> QED
    BY <2>1, <2>2
<1>6. PendingCallsCanBeDone'
  <2>1. \A k \in Loops : pending[k] # None => CanBeDone(pending[k])'
    BY <1>1, <1>5 DEF Inv, TypeOK, PendingCallsCanBeDone
  <2>2. \A k \in Loops : pc'[k] = "calling" <=> pc[k] = "calling"
    BY <1>1 DEF Inv, TypeOK
  <2> QED
    BY <1>1, <2>1, <2>2 DEF Inv, PendingCallsCanBeDone
<1>7. CallbacksHaveAnEvent'
  BY <1>1 DEF Inv, TypeOK, CallbacksHaveAnEvent
<1> QED
  BY <1>1, <1>2, <1>4, <1>6, <1>7 DEF Inv

LEMMA NextInv ==
    ASSUME Inv, "restart" \notin Uses, [Next]_vars
    PROVE  Inv'
<1>1. ASSUME NEW l \in Loops, QuietStep(l) PROVE Inv'
  <2>1. failed' = failed
    BY <1>1 DEF QuietStep, wait, dispatch, lock, next_event, callback_returns,
                batch_end, leave, dataVars
  <2> QED
    BY <1>1, <2>1, QuietStepTypes, QuietStepRegistrations DEF Inv
<1>2. ASSUME UNCHANGED <<watched, map, data, fd, pending, pc, events, failed, calls>>,
             exited \subseteq exited', exited' \subseteq Loops, ready' \subseteq Fds
      PROVE  Inv'
  <2>1. TypeOK'
    BY <1>2 DEF Inv, TypeOK
  <2>2. CallbacksHaveAnEvent'
    BY <1>2 DEF Inv, CallbacksHaveAnEvent
  <2> QED
    BY <1>2, <2>1, <2>2, RegistrationsLeftAlone DEF Inv
<1>3. ASSUME NEW l \in Loops, exit(l) PROVE Inv'
  BY <1>2, <1>3 DEF exit, loopVars, monitorVars, Inv, TypeOK
<1>4. ASSUME NEW f \in Fds, becomes_ready(f) PROVE Inv'
  BY <1>2, <1>4 DEF becomes_ready, loopVars, dataVars, monitorVars, Inv, TypeOK
<1>5. CASE UNCHANGED vars
  BY <1>2, <1>5 DEF vars, loopVars, dataVars, monitorVars, Inv, TypeOK
<1> QED
  BY <1>1, <1>3, <1>4, <1>5, OutsideCallStep, CallbackDoStep, CallbackCallStep,
     DestroyStep
     DEF Next, LoopStep, QuietStep

LEMMA InitInv == Init => Inv
<1> SUFFICES ASSUME Init PROVE Inv
  OBVIOUS
<1>1. TypeOK
  BY CallsAssumption DEF Init, TypeOK, NothingWatched, PCs
<1>2. Registered
  BY NoneAssumption DEF Init, Registered, Monitored, NothingWatched
<1>3. MonitoredOnce
  BY NoneAssumption DEF Init, MonitoredOnce
<1>4. PendingCallsCanBeDone /\ CallbacksHaveAnEvent
  BY DEF Init, PendingCallsCanBeDone, CallbacksHaveAnEvent
<1> QED
  BY <1>1, <1>2, <1>3, <1>4 DEF Init, Inv

-----------------------------------------------------------------------------
(* The theorems.                                                           *)

THEOREM MonitorsInvariant == "restart" \notin Uses => (Spec => []IInv)
<1> SUFFICES ASSUME "restart" \notin Uses PROVE Spec => []IInv
  OBVIOUS
<1>1. Init => IInv
  BY InitInv, IInvMeans
<1>2. IInv /\ [Next]_vars => IInv'
  <2> SUFFICES ASSUME Inv, [Next]_vars PROVE Inv'
    BY IInvMeans, PTL
  <2> QED
    BY NextInv
<1> QED
  BY <1>1, <1>2, PTL DEF Spec

\* What a main loop watches, what it has callbacks for and what the monitors
\* were started for are the same, whichever threads and callbacks start, stop
\* and move them while loops come to their end: no epoll_ctl() fails.
THEOREM MonitorsAndLoopsAgree ==
    "restart" \notin Uses => (Spec => []RegistrationsMatch)
<1> SUFFICES ASSUME "restart" \notin Uses PROVE Spec => []RegistrationsMatch
  OBVIOUS
<1>1. Spec => []IInv
  BY MonitorsInvariant
<1>2. IInv => RegistrationsMatch
  BY DEF IInv
<1> QED
  BY <1>1, <1>2, PTL

\* No callback is called for a monitor that was stopped or moved away after
\* epoll filled in the batch.
THEOREM NoCallbackAfterStop ==
    "restart" \notin Uses => (Spec => CalledOnlyWhileMonitored)
<1> SUFFICES ASSUME "restart" \notin Uses PROVE Spec => CalledOnlyWhileMonitored
  OBVIOUS
<1>1. ASSUME IInv, [Next]_vars, NEW l \in Loops, pc[l] = "batch", pc'[l] = "callback"
      PROVE  \E m \in Monitors : data[m] = l /\ fd[m] = Head(events[l])
  <2>1. next_event(l)
    <3>1. ASSUME NEW k \in Loops, k # l,
                 QuietStep(k) \/ callback_do(k) \/ callback_call(k) \/ destroy(k)
          PROVE  FALSE
      BY <1>1, <3>1
         DEF QuietStep, wait, dispatch, lock, next_event, callback_returns,
             batch_end, leave, callback_do, callback_call, destroy, GoTo,
             IInv, RegistrationsMatch, TypeOK
    <3>2. ~ (wait(l) \/ dispatch(l) \/ lock(l) \/ callback_returns(l) \/ batch_end(l)
             \/ leave(l) \/ callback_do(l) \/ callback_call(l) \/ destroy(l))
      BY <1>1 DEF wait, dispatch, lock, callback_returns, batch_end, leave,
                  callback_do, callback_call, destroy, GoTo,
                  IInv, RegistrationsMatch, TypeOK
    <3>3. ~ (outside_call \/ (\E k \in Loops : exit(k))
             \/ (\E f \in Fds : becomes_ready(f)) \/ UNCHANGED vars)
      BY <1>1 DEF outside_call, exit, becomes_ready, loopVars, vars
    <3> QED
      BY <1>1, <3>1, <3>2, <3>3 DEF Next, LoopStep, QuietStep
  <2>2. Head(events[l]) \in map[l] /\ Alive(l)
    BY <1>1, <2>1 DEF next_event, InMap, Alive
  <2>3. Head(events[l]) \in {fd[m] : m \in {n \in Monitors : data[n] = l}}
    BY <1>1, <2>2 DEF IInv, RegistrationsMatch
  <2> QED
    BY <2>3
<1>2. IInv /\ [Next]_vars =>
         [\A l \in Loops :
             pc[l] = "batch" /\ pc'[l] = "callback"
                 => \E m \in Monitors : data[m] = l /\ fd[m] = Head(events[l])]_vars
  BY <1>1
<1>3. Spec => []IInv
  BY MonitorsInvariant
<1> QED
  BY <1>2, <1>3, PTL DEF Spec, CalledOnlyWhileMonitored
=============================================================================

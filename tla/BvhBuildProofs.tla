-------------------------- MODULE BvhBuildProofs --------------------------
(***************************************************************************)
(* The build of a bounding volume hierarchy, for any number of workers and *)
(* of threads to use, any shape of the tree and any way to divide threads. *)
(*                                                                         *)
(* The inductive invariant IInv has two halves.  Where the nodes are and   *)
(* what has become of their halves is as for a k-d tree                    *)
(* (KdTreeBuildProofs): HeldOnce, Linked and TreeIsRight; rounds of chunks *)
(* are more stages between the beginning of a call and its halves.  The    *)
(* other half, RoundsAreRight, is about the rounds.  For each node the     *)
(* chunks that are queued, run or have arrived are counted; with those not *)
(* yet added they are one less than the threads of the call that is in the *)
(* round, and a node in no round has none.  Since the barrier opens when   *)
(* that many have arrived, the other counts are zero then.                 *)
(*                                                                         *)
(* The order is that of KdTreeBuildProofs: stacks and the queue, phases,   *)
(* the tree by its phases alone, steps of a thread, and then the actions.  *)
(***************************************************************************)
EXTENDS BvhBuild, FiniteSetTheorems, SequenceTheorems, TLAPS

-----------------------------------------------------------------------------
(* Sequences and stacks of calls.                                          *)

LEMMA ConsIndices ==
    ASSUME NEW S, NEW f \in S, NEW s \in Seq(S), NEW c, c = <<f>> \o s
    PROVE  /\ c \in Seq(S) /\ c # <<>> /\ Head(c) = f /\ Tail(c) = s
           /\ DOMAIN c = 1..(1 + Len(s)) /\ DOMAIN s = 1..Len(s) /\ Len(s) \in Nat
           /\ c[1] = f /\ 1 \in DOMAIN c
           /\ \A i \in DOMAIN s : i + 1 \in DOMAIN c /\ c[i + 1] = s[i]
           /\ \A i \in DOMAIN c : i = 1 \/ (i - 1 \in DOMAIN s /\ c[i] = s[i - 1])
<1>1. <<f>> \in Seq(S) /\ Len(<<f>>) = 1 /\ <<f>>[1] = f
  OBVIOUS
<1>2. /\ c \in Seq(S)
      /\ Len(c) = 1 + Len(s)
      /\ \A i \in 1..(1 + Len(s)) : c[i] = IF i <= 1 THEN <<f>>[i] ELSE s[i - 1]
  BY <1>1, ConcatProperties
<1>3. DOMAIN c = 1..(1 + Len(s)) /\ DOMAIN s = 1..Len(s) /\ Len(s) \in Nat
  BY <1>2, LenProperties
<1>4. Head(c) = f /\ Tail(c) = s /\ c # <<>>
  BY ConcatSimplifications, <1>1, <1>2
<1>5. c[1] = f /\ 1 \in DOMAIN c
  BY <1>1, <1>2, <1>3
<1>6. \A i \in DOMAIN s : i + 1 \in DOMAIN c /\ c[i + 1] = s[i]
  BY <1>2, <1>3
<1>7. \A i \in DOMAIN c : i = 1 \/ (i - 1 \in DOMAIN s /\ c[i] = s[i - 1])
  BY <1>2, <1>3
<1> QED
  BY <1>2, <1>3, <1>4, <1>5, <1>6, <1>7

LEMMA HeadAndTail ==
    ASSUME NEW S, NEW s \in Seq(S), s # <<>>
    PROVE  Head(s) \in S /\ Tail(s) \in Seq(S) /\ s = <<Head(s)>> \o Tail(s)
<1>1. Head(s) \in S /\ Tail(s) \in Seq(S)
  BY HeadTailProperties
<1>2. s = <<Head(s)>> \o Tail(s)
  <2>1. /\ Len(Tail(s)) = Len(s) - 1 /\ Len(s) \in Nat
        /\ \A i \in 1..Len(Tail(s)) : Tail(s)[i] = s[i + 1]
        /\ Head(s) = s[1]
    BY HeadTailProperties, LenProperties
  <2>2. <<Head(s)>> \in Seq(S) /\ Len(<<Head(s)>>) = 1
        /\ <<Head(s)>>[1] = s[1]
    BY <1>1, <2>1
  <2>3. /\ <<Head(s)>> \o Tail(s) \in Seq(S)
        /\ Len(<<Head(s)>> \o Tail(s)) = 1 + Len(Tail(s))
        /\ \A i \in 1..(1 + Len(Tail(s))) :
              (<<Head(s)>> \o Tail(s))[i] =
                 IF i <= 1 THEN <<Head(s)>>[i] ELSE Tail(s)[i - 1]
    BY <1>1, <2>2, ConcatProperties
  <2>4. \A i \in 1..Len(s) : s[i] = (<<Head(s)>> \o Tail(s))[i]
    BY <2>1, <2>2, <2>3
  <2>5. Len(s) = Len(<<Head(s)>> \o Tail(s))
    BY <2>1, <2>3
  <2> QED
    BY <2>3, <2>4, <2>5, SeqEqual
<1> QED
  BY <1>1, <1>2

LEMMA ConsStack ==
    ASSUME NEW f \in Frames, NEW s \in Seq(Frames), NEW c, c = <<f>> \o s
    PROVE  /\ c \in Seq(Frames) /\ c # <<>> /\ Head(c) = f /\ Tail(c) = s
           /\ NodesOf(c) = {f.node} \cup NodesOf(s)
           /\ \A n, stage : On(c, n, stage) <=>
                 (f.node = n /\ f.stage = stage) \/ On(s, n, stage)
           /\ Distinct(c) <=> Distinct(s) /\ f.node \notin NodesOf(s)
           /\ Linked(c) <=> Linked(s) /\ (s # <<>> => CallOf(Head(s), f.node))
<1>1. /\ c \in Seq(Frames) /\ c # <<>> /\ Head(c) = f /\ Tail(c) = s
      /\ DOMAIN c = 1..(1 + Len(s)) /\ DOMAIN s = 1..Len(s) /\ Len(s) \in Nat
      /\ c[1] = f /\ 1 \in DOMAIN c
      /\ \A i \in DOMAIN s : i + 1 \in DOMAIN c /\ c[i + 1] = s[i]
      /\ \A i \in DOMAIN c : i = 1 \/ (i - 1 \in DOMAIN s /\ c[i] = s[i - 1])
  BY ConsIndices
<1>2. NodesOf(c) = {f.node} \cup NodesOf(s)
  <2>1. \A i \in DOMAIN c : c[i].node = f.node \/ \E j \in DOMAIN s : c[i].node = s[j].node
    BY <1>1
  <2>2. c[1].node = f.node /\ \A j \in DOMAIN s : j + 1 \in DOMAIN c /\ c[j + 1].node = s[j].node
    BY <1>1
  <2>3. NodesOf(c) \subseteq {f.node} \cup NodesOf(s)
    BY <2>1 DEF NodesOf
  <2>4. f.node \in NodesOf(c)
    BY <1>1, <2>2 DEF NodesOf
  <2>5. \A j \in DOMAIN s : s[j].node \in NodesOf(c)
    <3> TAKE j \in DOMAIN s
    <3>1. j + 1 \in DOMAIN c /\ c[j + 1].node = s[j].node
      BY <2>2
    <3> QED
      BY <3>1 DEF NodesOf
  <2> QED
    BY <2>3, <2>4, <2>5 DEF NodesOf
<1>3. ASSUME NEW n, NEW stage
      PROVE  On(c, n, stage) <=> (f.node = n /\ f.stage = stage) \/ On(s, n, stage)
  <2>1. ASSUME On(c, n, stage) PROVE (f.node = n /\ f.stage = stage) \/ On(s, n, stage)
    <3>1. PICK i \in DOMAIN c : c[i].node = n /\ c[i].stage = stage
      BY <2>1 DEF On
    <3>2. i = 1 \/ (i - 1 \in DOMAIN s /\ c[i] = s[i - 1])
      BY <1>1
    <3> QED
      BY <1>1, <3>1, <3>2 DEF On
  <2>2. ASSUME f.node = n, f.stage = stage PROVE On(c, n, stage)
    BY <1>1, <2>2 DEF On
  <2>3. ASSUME On(s, n, stage) PROVE On(c, n, stage)
    <3>1. PICK i \in DOMAIN s : s[i].node = n /\ s[i].stage = stage
      BY <2>3 DEF On
    <3>2. i + 1 \in DOMAIN c /\ c[i + 1] = s[i]
      BY <1>1
    <3> QED
      BY <3>1, <3>2 DEF On
  <2> QED
    BY <2>1, <2>2, <2>3
<1>4. ASSUME Distinct(c) PROVE Distinct(s) /\ f.node \notin NodesOf(s)
  <2>1. Distinct(s)
    <3> SUFFICES ASSUME NEW i \in DOMAIN s, NEW j \in DOMAIN s, s[i].node = s[j].node
                 PROVE  i = j
      BY DEF Distinct
    <3>1. c[i + 1].node = c[j + 1].node /\ i + 1 \in DOMAIN c /\ j + 1 \in DOMAIN c
      BY <1>1
    <3>2. i + 1 = j + 1
      BY <1>4, <3>1 DEF Distinct
    <3> QED
      BY <1>1, <3>2
  <2>2. ASSUME NEW i \in DOMAIN s, s[i].node = f.node PROVE FALSE
    <3>1. c[i + 1].node = c[1].node /\ i + 1 \in DOMAIN c
      BY <1>1, <2>2
    <3>2. i + 1 = 1
      BY <1>1, <1>4, <3>1 DEF Distinct
    <3> QED
      BY <1>1, <3>2
  <2> QED
    BY <2>1, <2>2 DEF NodesOf
<1>5. ASSUME Distinct(s), f.node \notin NodesOf(s) PROVE Distinct(c)
  <2> SUFFICES ASSUME NEW i \in DOMAIN c, NEW j \in DOMAIN c, c[i].node = c[j].node
               PROVE  i = j
    BY DEF Distinct
  <2>1. \A k \in DOMAIN s : s[k].node # f.node
    BY <1>5 DEF NodesOf
  <2>2. CASE i = 1 \/ j = 1
    BY <1>1, <2>1, <2>2
  <2>3. CASE i # 1 /\ j # 1
    <3>1. i - 1 \in DOMAIN s /\ j - 1 \in DOMAIN s /\ s[i - 1].node = s[j - 1].node
      BY <1>1, <2>3
    <3>2. i - 1 = j - 1
      BY <1>5, <3>1 DEF Distinct
    <3> QED
      BY <1>1, <3>2
  <2> QED
    BY <2>2, <2>3
<1>6. s # <<>> => Head(s) = s[1] /\ 1 \in DOMAIN s
  BY <1>1, EmptySeq, HeadTailProperties
<1>7. ASSUME Linked(c) PROVE Linked(s) /\ (s # <<>> => CallOf(Head(s), f.node))
  <2>1. ASSUME NEW i \in DOMAIN s, i + 1 \in DOMAIN s
        PROVE  CallOf(s[i + 1], s[i].node)
    <3>1. /\ i + 1 \in DOMAIN c /\ c[i + 1] = s[i]
          /\ (i + 1) + 1 \in DOMAIN c /\ c[(i + 1) + 1] = s[i + 1]
      BY <1>1, <2>1
    <3> QED
      BY <1>7, <3>1 DEF Linked
  <2>2. ASSUME s # <<>> PROVE CallOf(Head(s), f.node)
    <3>1. 1 + 1 \in DOMAIN c /\ c[1 + 1] = Head(s)
      BY <1>1, <1>6, <2>2
    <3> QED
      BY <1>1, <1>7, <3>1 DEF Linked
  <2> QED
    BY <2>1, <2>2 DEF Linked
<1>8. ASSUME Linked(s), s # <<>> => CallOf(Head(s), f.node) PROVE Linked(c)
  <2> SUFFICES ASSUME NEW i \in DOMAIN c, i + 1 \in DOMAIN c
               PROVE  CallOf(c[i + 1], c[i].node)
    BY DEF Linked
  <2>1. CASE i = 1
    <3>1. 1 \in DOMAIN s /\ c[1 + 1] = s[1]
      BY <1>1, <2>1
    <3>2. s # <<>>
      BY <1>1, <3>1
    <3> QED
      BY <1>1, <1>6, <1>8, <2>1, <3>1, <3>2
  <2>2. CASE i # 1
    <3>1. /\ i - 1 \in DOMAIN s /\ c[i] = s[i - 1]
          /\ (i - 1) + 1 \in DOMAIN s /\ c[i + 1] = s[(i - 1) + 1]
      BY <1>1, <2>2
    <3> QED
      BY <1>8, <3>1 DEF Linked
  <2> QED
    BY <2>1, <2>2
<1> QED
  BY <1>1, <1>2, <1>3, <1>4, <1>5, <1>7, <1>8

LEMMA EmptyStack ==
    /\ <<>> \in Seq(Frames) /\ NodesOf(<<>>) = {} /\ Distinct(<<>>) /\ Linked(<<>>)
    /\ \A n, stage : ~On(<<>>, n, stage)
BY DEF NodesOf, Distinct, Linked, On

LEMMA NodesAreInStages ==
    ASSUME NEW s \in Seq(Frames)
    PROVE  /\ NodesOf(s) \subseteq Nodes
           /\ \A n \in NodesOf(s) : \E stage \in Stages : On(s, n, stage)
           /\ \A n, stage : On(s, n, stage) => n \in NodesOf(s) /\ stage \in Stages
           /\ Distinct(s) => \A n, st, su : On(s, n, st) /\ On(s, n, su) => st = su
<1>1. \A i \in DOMAIN s : s[i] \in Frames
  BY LenProperties
<1>2. \A i \in DOMAIN s : s[i].node \in Nodes /\ s[i].stage \in Stages
  BY <1>1 DEF Frames
<1> QED
  BY <1>2 DEF NodesOf, On, Distinct

LEMMA NumThreadsIsNat ==
    NumThreads \in Nat /\ MaxArrived \in Nat /\ 1 \in ThreadCounts
<1>1. Cardinality(Workers) \in Nat
  BY WorkersAssumption, FS_CardinalityType
<1> QED
  BY <1>1, NumThreadsAssumption DEF MaxArrived, ThreadCounts

LEMMA FrameFields ==
    ASSUME NEW f \in Frames
    PROVE  /\ f.node \in Nodes /\ f.threads \in ThreadCounts
           /\ f.stage \in Stages /\ f.todo \in 0..NumThreads
BY DEF Frames

\* A call that goes on to another stage is still that call.
LEMMA FrameAt ==
    ASSUME NEW f \in Frames, NEW stage \in Stages, NEW h, h = [f EXCEPT !.stage = stage]
    PROVE  /\ h \in Frames /\ h.node = f.node /\ h.stage = stage
           /\ h.threads = f.threads /\ h.todo = f.todo
BY DEF Frames

LEMMA NewFrame ==
    ASSUME NEW n \in Nodes, NEW k \in ThreadCounts
    PROVE  /\ Frame(n, k) \in Frames /\ Frame(n, k).node = n
           /\ Frame(n, k).stage = "create" /\ Frame(n, k).threads = k
BY NumThreadsIsNat DEF Frame, Frames, Stages

-----------------------------------------------------------------------------
(* The queue of the pool.                                                  *)

\* The place i of a queue, when the task e there is one of n's chunks; and the
\* places P one further.
ChunkAt(e, n, i) == IF e = ChunkTask(n) THEN {i} ELSE {}
Shifted(P) == {i + 1 : i \in P}

LEMMA QueueGrows ==
    ASSUME NEW q \in Seq(TaskSet), NEW e \in TaskSet, NEW r, r = Append(q, e)
    PROVE  /\ r \in Seq(TaskSet)
           /\ QueuedIn(r) = QueuedIn(q) \cup (IF e.kind = "node" THEN {e.node} ELSE {})
           /\ \A n : ChunksIn(r, n) = ChunksIn(q, n) \cup ChunkAt(e, n, Len(q) + 1)
           /\ Len(q) + 1 \notin DOMAIN q
           /\ QueuedOnce(q) /\ (e.kind = "node" => e.node \notin QueuedIn(q)) => QueuedOnce(r)
<1>1. /\ r \in Seq(TaskSet) /\ DOMAIN q = 1..Len(q) /\ Len(q) \in Nat
      /\ DOMAIN r = 1..(Len(q) + 1)
      /\ \A i \in 1..Len(q) : r[i] = q[i]
      /\ r[Len(q) + 1] = e
  BY AppendProperties, LenProperties
<1>2. PICK n \in Nat : n = Len(q)
  BY <1>1
<1>3. /\ DOMAIN q = 1..n /\ DOMAIN r = (1..n) \cup {n + 1} /\ n + 1 \notin 1..n
      /\ \A i \in 1..n : r[i] = q[i]
      /\ r[n + 1] = e
  BY <1>1, <1>2
<1>4. QueuedIn(r) = QueuedIn(q) \cup (IF e.kind = "node" THEN {e.node} ELSE {})
  BY <1>3 DEF QueuedIn
<1>5. ASSUME NEW m
      PROVE  ChunksIn(r, m) = ChunksIn(q, m) \cup ChunkAt(e, m, n + 1)
  BY <1>3 DEF ChunksIn, ChunkAt
<1>6. ASSUME QueuedOnce(q), e.kind = "node" => e.node \notin QueuedIn(q)
      PROVE  QueuedOnce(r)
  <2>1. \A i \in 1..n : q[i].kind = "node" => q[i].node \in QueuedIn(q)
    BY <1>3 DEF QueuedIn
  <2>2. \A i \in 1..n : r[i].kind = "node" /\ e.kind = "node" => r[i].node # e.node
    BY <1>3, <1>6, <2>1
  <2> QED
    BY <1>3, <1>6, <2>2 DEF QueuedOnce
<1> QED
  BY <1>1, <1>2, <1>3, <1>4, <1>5, <1>6

LEMMA QueueShrinks ==
    ASSUME NEW q \in Seq(TaskSet), q # <<>>, NEW e, e = Head(q), NEW r, r = Tail(q)
    PROVE  /\ r \in Seq(TaskSet) /\ e \in TaskSet
           /\ QueuedIn(q) = QueuedIn(r) \cup (IF e.kind = "node" THEN {e.node} ELSE {})
           /\ QueuedOnce(q) => /\ QueuedOnce(r)
                               /\ e.kind = "node" => e.node \notin QueuedIn(r)
<1>1. e \in TaskSet /\ r \in Seq(TaskSet) /\ q = <<e>> \o r
  BY HeadAndTail
<1>2. /\ DOMAIN q = 1..(1 + Len(r)) /\ DOMAIN r = 1..Len(r) /\ Len(r) \in Nat
      /\ q[1] = e /\ 1 \in DOMAIN q
      /\ \A i \in DOMAIN r : i + 1 \in DOMAIN q /\ q[i + 1] = r[i]
      /\ \A i \in DOMAIN q : i = 1 \/ (i - 1 \in DOMAIN r /\ q[i] = r[i - 1])
  BY <1>1, ConsIndices
<1>3. QueuedIn(q) = QueuedIn(r) \cup (IF e.kind = "node" THEN {e.node} ELSE {})
  <2>1. ASSUME NEW i \in DOMAIN q, q[i].kind = "node"
        PROVE  q[i].node \in QueuedIn(r) \cup (IF e.kind = "node" THEN {e.node} ELSE {})
    <3>1. i = 1 \/ (i - 1 \in DOMAIN r /\ q[i] = r[i - 1])
      BY <1>2
    <3> QED
      BY <1>2, <2>1, <3>1 DEF QueuedIn
  <2>2. ASSUME NEW j \in DOMAIN r, r[j].kind = "node" PROVE r[j].node \in QueuedIn(q)
    <3>1. j + 1 \in DOMAIN q /\ q[j + 1] = r[j]
      BY <1>2
    <3> QED
      BY <2>2, <3>1 DEF QueuedIn
  <2>3. e.kind = "node" => e.node \in QueuedIn(q)
    BY <1>2 DEF QueuedIn
  <2>4. QueuedIn(q) \subseteq QueuedIn(r) \cup (IF e.kind = "node" THEN {e.node} ELSE {})
    BY <2>1 DEF QueuedIn
  <2>5. QueuedIn(r) \subseteq QueuedIn(q)
    <3>1. \A x \in QueuedIn(r) : \E j \in DOMAIN r : r[j].kind = "node" /\ x = r[j].node
      BY DEF QueuedIn
    <3> QED
      BY <2>2, <3>1
  <2> QED
    BY <2>3, <2>4, <2>5
<1>4. ASSUME QueuedOnce(q)
      PROVE  QueuedOnce(r) /\ (e.kind = "node" => e.node \notin QueuedIn(r))
  <2>1. ASSUME NEW i \in DOMAIN r, NEW j \in DOMAIN r, r[i].kind = "node", r[j].kind = "node",
               r[i].node = r[j].node
        PROVE  i = j
    <3>1. i + 1 \in DOMAIN q /\ q[i + 1] = r[i] /\ j + 1 \in DOMAIN q /\ q[j + 1] = r[j]
      BY <1>2
    <3>2. i + 1 = j + 1
      BY <1>4, <2>1, <3>1 DEF QueuedOnce
    <3> QED
      BY <1>2, <3>2
  <2>2. ASSUME NEW i \in DOMAIN r, e.kind = "node", r[i].kind = "node", r[i].node = e.node
        PROVE  FALSE
    <3>1. i + 1 \in DOMAIN q /\ q[i + 1] = r[i] /\ 1 \in DOMAIN q /\ q[1] = e
      BY <1>2
    <3>2. i + 1 = 1
      BY <1>4, <2>2, <3>1 DEF QueuedOnce
    <3> QED
      BY <1>2, <3>2
  <2> QED
    BY <2>1, <2>2 DEF QueuedOnce, QueuedIn
<1> QED
  BY <1>1, <1>3, <1>4

LEMMA ChunksAreShifted ==
    ASSUME NEW q \in Seq(TaskSet), q # <<>>, NEW e, e = Head(q), NEW r, r = Tail(q), NEW n
    PROVE  /\ ChunksIn(q, n) = Shifted(ChunksIn(r, n)) \cup ChunkAt(e, n, 1)
           /\ ChunksIn(r, n) \subseteq Nat \ {0}
<1>1. e \in TaskSet /\ r \in Seq(TaskSet) /\ q = <<e>> \o r
  BY HeadAndTail
<1>2. /\ DOMAIN q = 1..(1 + Len(r)) /\ DOMAIN r = 1..Len(r) /\ Len(r) \in Nat
      /\ q[1] = e /\ 1 \in DOMAIN q
      /\ \A i \in DOMAIN r : i + 1 \in DOMAIN q /\ q[i + 1] = r[i]
      /\ \A i \in DOMAIN q : i = 1 \/ (i - 1 \in DOMAIN r /\ q[i] = r[i - 1])
  BY <1>1, ConsIndices
<1>3. ASSUME NEW i \in ChunksIn(q, n)
      PROVE  i \in Shifted(ChunksIn(r, n)) \cup ChunkAt(e, n, 1)
  <2>1. i \in DOMAIN q /\ q[i] = ChunkTask(n)
    BY DEF ChunksIn
  <2>2. CASE i = 1
    BY <1>2, <2>1, <2>2 DEF ChunkAt
  <2>3. CASE i # 1
    <3>1. i - 1 \in ChunksIn(r, n) /\ i = (i - 1) + 1
      BY <1>2, <2>1, <2>3 DEF ChunksIn
    <3> QED
      BY <3>1 DEF Shifted
  <2> QED
    BY <2>2, <2>3
<1>4. ASSUME NEW k \in ChunksIn(r, n) PROVE k + 1 \in ChunksIn(q, n)
  BY <1>2 DEF ChunksIn
<1>5. e = ChunkTask(n) => 1 \in ChunksIn(q, n)
  BY <1>2 DEF ChunksIn
<1>6. ChunksIn(r, n) \subseteq Nat \ {0}
  BY <1>2 DEF ChunksIn
<1> QED
  BY <1>3, <1>4, <1>5, <1>6 DEF Shifted, ChunkAt

LEMMA QueueTypes ==
    ASSUME NEW q \in Seq(TaskSet)
    PROVE  /\ QueuedIn(q) \subseteq Nodes
           /\ \A n : IsFiniteSet(ChunksIn(q, n)) /\ Cardinality(ChunksIn(q, n)) \in Nat
<1>1. DOMAIN q = 1..Len(q) /\ Len(q) \in Nat /\ \A i \in DOMAIN q : q[i] \in TaskSet
  BY LenProperties
<1>2. QueuedIn(q) \subseteq Nodes
  BY <1>1 DEF QueuedIn, TaskSet
<1>3. IsFiniteSet(1..Len(q))
  BY <1>1, FS_Interval
<1>4. \A n : ChunksIn(q, n) \subseteq 1..Len(q)
  BY <1>1 DEF ChunksIn
<1> QED
  BY <1>2, <1>3, <1>4, FS_Subset, FS_CardinalityType

\* Each chunk that is added, or taken, is one.
LEMMA ChunksGrow ==
    ASSUME NEW q \in Seq(TaskSet), NEW e \in TaskSet, NEW r, r = Append(q, e), NEW n \in Nodes
    PROVE  /\ e = ChunkTask(n) => Cardinality(ChunksIn(r, n)) = Cardinality(ChunksIn(q, n)) + 1
           /\ e # ChunkTask(n) => Cardinality(ChunksIn(r, n)) = Cardinality(ChunksIn(q, n))
<1>1. ChunksIn(r, n) = ChunksIn(q, n) \cup ChunkAt(e, n, Len(q) + 1)
  BY QueueGrows
<1>2. IsFiniteSet(ChunksIn(q, n)) /\ Cardinality(ChunksIn(q, n)) \in Nat
  BY QueueTypes
<1>3. CASE e = ChunkTask(n)
  <2>1. PICK P, x : P = ChunksIn(q, n) /\ x = Len(q) + 1
    OBVIOUS
  <2>2. x \notin P
    BY <2>1, QueueGrows DEF ChunksIn
  <2>3. Cardinality(P \cup {x}) = Cardinality(P) + 1
    BY <1>2, <2>1, <2>2, FS_AddElement
  <2>4. ChunksIn(r, n) = P \cup {x}
    BY <1>1, <1>3, <2>1 DEF ChunkAt
  <2> QED
    BY <1>3, <2>1, <2>3, <2>4
<1>4. CASE e # ChunkTask(n)
  BY <1>1, <1>2, <1>4 DEF ChunkAt
<1> QED
  BY <1>3, <1>4

\* {i + 1 : i \in P} has as many elements as P.
LEMMA ShiftedSet ==
    ASSUME NEW P \in SUBSET (Nat \ {0}), NEW S, S = {i + 1 : i \in P}, IsFiniteSet(P)
    PROVE  IsFiniteSet(S) /\ Cardinality(S) = Cardinality(P) /\ 1 \notin S
<1> DEFINE f == [i \in P |-> i + 1]
<1>1. /\ f \in [P -> S] /\ \A i, j \in P : f[i] = f[j] => i = j
      /\ \A x \in S : \E i \in P : f[i] = x
  OBVIOUS
<1>2. f \in Bijection(P, S)
  BY <1>1 DEF Bijection, Injection, Surjection, IsInjective
<1> HIDE DEF f
<1>3. IsFiniteSet(S) /\ Cardinality(S) = Cardinality(P)
  BY <1>2, FS_Bijection DEF ExistsBijection
<1>4. 1 \notin S
  <2>1. \A i \in P : i + 1 # 1
    <3> TAKE i \in P
    <3>1. i \in Nat /\ i # 0
      OBVIOUS
    <3> QED
      BY <3>1
  <2> QED
    BY <2>1
<1> QED
  BY <1>3, <1>4

LEMMA ChunksShrink ==
    ASSUME NEW q \in Seq(TaskSet), q # <<>>, NEW e, e = Head(q), NEW r, r = Tail(q),
           NEW n \in Nodes
    PROVE  /\ e = ChunkTask(n) => Cardinality(ChunksIn(q, n)) = Cardinality(ChunksIn(r, n)) + 1
           /\ e # ChunkTask(n) => Cardinality(ChunksIn(q, n)) = Cardinality(ChunksIn(r, n))
<1>1. PICK P, S : P = ChunksIn(r, n) /\ S = Shifted(P)
  OBVIOUS
<1>2. /\ r \in Seq(TaskSet) /\ P \in SUBSET (Nat \ {0})
      /\ ChunksIn(q, n) = S \cup ChunkAt(e, n, 1)
  BY <1>1, HeadAndTail, ChunksAreShifted
<1>3. IsFiniteSet(P) /\ Cardinality(P) \in Nat
  BY <1>1, <1>2, QueueTypes
<1>4. IsFiniteSet(S) /\ Cardinality(S) = Cardinality(P) /\ 1 \notin S
  BY <1>1, <1>2, <1>3, ShiftedSet DEF Shifted
<1>5. Cardinality(S \cup {1}) = Cardinality(S) + 1
  BY <1>4, FS_AddElement
<1>6. CASE e = ChunkTask(n)
  <2>1. ChunksIn(q, n) = S \cup {1}
    BY <1>2, <1>6 DEF ChunkAt
  <2> QED
    BY <1>1, <1>4, <1>5, <1>6, <2>1
<1>7. CASE e # ChunkTask(n)
  <2>1. ChunksIn(q, n) = S
    BY <1>2, <1>7 DEF ChunkAt
  <2> QED
    BY <1>1, <1>3, <1>4, <1>7, <2>1
<1> QED
  BY <1>6, <1>7

-----------------------------------------------------------------------------
(* The phase of a node, and the calls and tasks it stands for.             *)

PhasesAre(p) ==
    /\ p \in [Nodes -> Phases]
    /\ \A n \in Nodes :
          /\ p[n] = "queued" <=> n \in QueuedIn(tasks)
          /\ \A stage \in Stages : p[n] = stage <=> InStage(n, stage)

LEMMA StagesAreNoOtherPhases ==
    "queued" \notin Stages /\ "none" \notin Stages /\ Stages \subseteq Phases
    /\ "queued" \in Phases /\ "none" \in Phases
BY DEF Stages, Phases

\* A node is in one stage of one call.
LEMMA OneStage ==
    ASSUME TypeOK, HeldOnce, NEW n \in Nodes, NEW st \in Stages, NEW t \in Threads,
           On(stack[t], n, st)
    PROVE  /\ n \in NodesOf(stack[t])
           /\ n \notin QueuedIn(tasks)
           /\ \A u \in Threads \ {t} : n \notin NodesOf(stack[u])
           /\ \A su \in Stages : InStage(n, su) => su = st
<1>1. \A u \in Threads : stack[u] \in Seq(Frames)
  BY DEF TypeOK
<1>2. n \in NodesOf(stack[t])
  BY <1>1, NodesAreInStages
<1>3. n \notin QueuedIn(tasks) /\ \A u \in Threads \ {t} : n \notin NodesOf(stack[u])
  BY <1>2 DEF HeldOnce
<1>4. ASSUME NEW su \in Stages, InStage(n, su) PROVE su = st
  <2>1. PICK u \in Threads : On(stack[u], n, su)
    BY <1>4 DEF InStage
  <2>2. n \in NodesOf(stack[u])
    BY <1>1, <2>1, NodesAreInStages
  <2>3. u = t
    BY <1>3, <2>2
  <2>4. Distinct(stack[t])
    BY DEF HeldOnce
  <2> QED
    BY <1>1, <2>1, <2>3, <2>4, NodesAreInStages
<1> QED
  BY <1>2, <1>3, <1>4

LEMMA PhaseIsRight == TypeOK /\ HeldOnce => PhasesAre(phase)
<1> SUFFICES ASSUME TypeOK, HeldOnce PROVE PhasesAre(phase)
  OBVIOUS
<1>1. ASSUME NEW n \in Nodes
      PROVE  /\ phase[n] \in Phases
             /\ phase[n] = "queued" <=> n \in QueuedIn(tasks)
             /\ \A stage \in Stages : phase[n] = stage <=> InStage(n, stage)
  <2>1. phase[n] = IF n \in QueuedIn(tasks) THEN "queued"
                   ELSE IF \E stage \in Stages : InStage(n, stage)
                        THEN CHOOSE stage \in Stages : InStage(n, stage)
                        ELSE "none"
    BY DEF phase
  <2>2. CASE \E stage \in Stages : InStage(n, stage)
    <3>1. PICK st \in Stages, t \in Threads : On(stack[t], n, st)
      BY <2>2 DEF InStage
    <3>2. InStage(n, st) /\ n \notin QueuedIn(tasks) /\ \A su \in Stages : InStage(n, su) => su = st
      BY <3>1, OneStage DEF InStage
    <3>3. phase[n] = st
      BY <2>1, <3>2
    <3> QED
      BY <3>2, <3>3, StagesAreNoOtherPhases
  <2>3. CASE ~\E stage \in Stages : InStage(n, stage)
    BY <2>1, <2>3, StagesAreNoOtherPhases
  <2> QED
    BY <2>2, <2>3
<1>2. phase \in [Nodes -> Phases]
  <2>1. phase = [n \in Nodes |-> phase[n]]
    BY DEF phase
  <2> QED
    BY <1>1, <2>1
<1> QED
  BY <1>1, <1>2 DEF PhasesAre

LEMMA OnePhase == \A p, q : PhasesAre(p) /\ PhasesAre(q) => p = q
<1> SUFFICES ASSUME NEW p, NEW q, PhasesAre(p), PhasesAre(q) PROVE p = q
  OBVIOUS
<1>1. ASSUME NEW n \in Nodes PROVE p[n] = q[n]
  <2>1. p[n] \in Phases /\ q[n] \in Phases
    BY DEF PhasesAre
  <2>2. CASE p[n] \in Stages
    BY <2>2 DEF PhasesAre
  <2>3. CASE q[n] \in Stages
    BY <2>3 DEF PhasesAre
  <2>4. CASE p[n] \notin Stages /\ q[n] \notin Stages
    <3>1. p[n] \in {"queued", "none"} /\ q[n] \in {"queued", "none"}
      BY <2>1, <2>4 DEF Phases
    <3>2. p[n] = "queued" <=> q[n] = "queued"
      BY DEF PhasesAre
    <3> QED
      BY <3>1, <3>2
  <2> QED
    BY <2>2, <2>3, <2>4
<1> QED
  BY <1>1 DEF PhasesAre

LEMMA PhaseIs == TypeOK /\ HeldOnce => \A p : PhasesAre(p) => phase = p
BY PhaseIsRight, OnePhase

\* What the phase of a node in a call of t says.
LEMMA PhaseOnStack ==
    ASSUME TypeOK, HeldOnce, NEW t \in Threads
    PROVE  /\ \A n \in NodesOf(stack[t]) : phase[n] \in Stages /\ On(stack[t], n, phase[n])
           /\ \A n \in Nodes, st \in Stages : On(stack[t], n, st) => phase[n] = st
<1>1. PhasesAre(phase)
  BY PhaseIsRight
<1>2. ASSUME NEW n \in Nodes, NEW st \in Stages, On(stack[t], n, st) PROVE phase[n] = st
  BY <1>1, <1>2 DEF PhasesAre, InStage
<1>3. ASSUME NEW n \in NodesOf(stack[t])
      PROVE  phase[n] \in Stages /\ On(stack[t], n, phase[n])
  <2>1. stack[t] \in Seq(Frames)
    BY DEF TypeOK
  <2>2. n \in Nodes /\ \E stage \in Stages : On(stack[t], n, stage)
    BY <2>1, NodesAreInStages
  <2> QED
    BY <1>2, <2>2
<1> QED
  BY <1>2, <1>3
-----------------------------------------------------------------------------
(* How the tree grows: what each step makes of the phases of the nodes.    *)

LEMMA ChildrenAreNodes ==
    \A n \in Nodes : MaySplit(n) =>
        /\ 2 * n \in Nodes /\ 2 * n + 1 \in Nodes
        /\ 2 * n # n /\ 2 * n + 1 # n /\ 2 * n # 2 * n + 1
        /\ 2 * n # 1 /\ 2 * n + 1 # 1
BY NodesAssumption DEF MaySplit

LEMMA ChildrenDiffer ==
    \A m, n \in Nodes : /\ 2 * m # 2 * n + 1
                        /\ 2 * m = 2 * n => m = n
                        /\ 2 * m + 1 = 2 * n + 1 => m = n
BY NodesAssumption

\* A node that is as far as it was for the node it is a half of.
Kept(p, b, q, c, n) ==
    /\ Untouched(q, c, n) <=> Untouched(p, b, n)
    /\ Finished(p, b, n) => Finished(q, c, n)

LEMMA NodeUnchanged ==
    ASSUME NEW p, NEW b, NEW q, NEW c, NEW m, NodeIsRight(p, b, m),
           q[m] = p[m], c[m] = b[m],
           MaySplit(m) => Kept(p, b, q, c, 2 * m) /\ Kept(p, b, q, c, 2 * m + 1)
    PROVE  NodeIsRight(q, c, m)
BY DEF NodeIsRight, HalvesAreRight, BeforeHalves, RoundStages, Kept, Untouched, Finished

\* Steps change the phases of the nodes in X only, which are right afterwards,
\* and are kept unless the node they are halves of is in X.
GrowsAt(X, p, b, q, c, d) ==
    /\ \A m \in Nodes \ X :
          /\ q[m] = p[m] /\ c[m] = b[m]
          /\ 2 * m \in X => Kept(p, b, q, c, 2 * m)
          /\ 2 * m + 1 \in X => Kept(p, b, q, c, 2 * m + 1)
    /\ \A m \in X : NodeIsRight(q, c, m) /\ (m \in d => Finished(q, c, m))

LEMMA TreeGrows ==
    ASSUME NEW p, NEW b, NEW q, NEW c, NEW d \in SUBSET Nodes, TreeIsRight(p, b, d),
           NEW X \in SUBSET Nodes, GrowsAt(X, p, b, q, c, d)
    PROVE  TreeIsRight(q, c, d)
<1>1. ASSUME NEW m \in Nodes \ X PROVE NodeIsRight(q, c, m)
  <2>1. NodeIsRight(p, b, m)
    BY DEF TreeIsRight
  <2>2. \A k \in Nodes \ X : Kept(p, b, q, c, k)
    BY DEF GrowsAt, Kept, Untouched, Finished
  <2>3. MaySplit(m) => Kept(p, b, q, c, 2 * m) /\ Kept(p, b, q, c, 2 * m + 1)
    BY <2>2, ChildrenAreNodes DEF GrowsAt
  <2> QED
    BY <2>1, <2>3, NodeUnchanged DEF GrowsAt
<1>2. ASSUME NEW m \in d PROVE Finished(q, c, m)
  BY DEF TreeIsRight, Finished, GrowsAt
<1> QED
  BY <1>1, <1>2 DEF TreeIsRight, GrowsAt

\* create_leaf(), begin_horizontally() and decide_fork() with a thread for the
\* right half
LEMMA NodeCreated ==
    ASSUME NEW p \in [Nodes -> Phases], NEW b \in [Nodes -> Nat], NEW d \in SUBSET Nodes,
           TreeIsRight(p, b, d), NEW n \in Nodes, p[n] = "create",
           NEW to \in {"done", "fork", "chunks1"}, to = "fork" => MaySplit(n),
           NEW q, q = [p EXCEPT ![n] = to], NEW c, c = [b EXCEPT ![n] = @ + 1]
    PROVE  TreeIsRight(q, c, d)
<1>1. ASSUME NEW m \in Nodes
      PROVE  /\ q[m] = IF m = n THEN to ELSE p[m]
             /\ c[m] = IF m = n THEN 1 ELSE b[m]
  BY DEF TreeIsRight, NodeIsRight
<1>2. \A m \in Nodes : Kept(p, b, q, c, m)
  BY <1>1 DEF Kept, Untouched, Finished
<1>3. NodeIsRight(p, b, n) /\ n \notin d
  BY DEF TreeIsRight, Finished
<1>4. NodeIsRight(q, c, n)
  BY <1>1, <1>2, <1>3, ChildrenAreNodes
     DEF NodeIsRight, HalvesAreRight, BeforeHalves, RoundStages, Kept, Stages, Untouched, Finished
<1> QED
  <2>1. GrowsAt({n}, p, b, q, c, d)
    BY <1>1, <1>2, <1>3, <1>4 DEF GrowsAt
  <2> QED
    BY <2>1, TreeGrows

\* decide_fork() without one: the left half is begun
LEMMA LeftBegun ==
    ASSUME NEW p \in [Nodes -> Phases], NEW b \in [Nodes -> Nat], NEW d \in SUBSET Nodes,
           TreeIsRight(p, b, d), NEW n \in Nodes, p[n] = "create", MaySplit(n),
           NEW q, q = [p EXCEPT ![n] = "left", ![2 * n] = "create"],
           NEW c, c = [b EXCEPT ![n] = @ + 1]
    PROVE  TreeIsRight(q, c, d)
<1>1. PICK l \in Nodes : l = 2 * n /\ l # n /\ 2 * n + 1 \in Nodes /\ 2 * n + 1 # n /\ 2 * n + 1 # l
  BY ChildrenAreNodes
<1>2. ASSUME NEW m \in Nodes
      PROVE  /\ q[m] = IF m = n THEN "left" ELSE IF m = l THEN "create" ELSE p[m]
             /\ c[m] = IF m = n THEN 1 ELSE b[m]
  BY <1>1 DEF TreeIsRight, NodeIsRight
<1>3. \A m \in Nodes \ {l} : Kept(p, b, q, c, m)
  BY <1>1, <1>2 DEF Kept, Untouched, Finished
<1>4. NodeIsRight(p, b, n) /\ NodeIsRight(p, b, l)
  BY DEF TreeIsRight
<1>5. Untouched(p, b, l) /\ Untouched(p, b, 2 * n + 1)
  BY <1>1, <1>4 DEF NodeIsRight, HalvesAreRight, BeforeHalves
<1>6. n \notin d /\ l \notin d
  BY <1>5 DEF TreeIsRight, Finished, Untouched
<1>7. NodeIsRight(q, c, n)
  BY <1>1, <1>2, <1>3, <1>5
     DEF NodeIsRight, HalvesAreRight, BeforeHalves, RoundStages, Kept, Stages, Untouched, Finished
<1>8. NodeIsRight(q, c, l)
  <2>1. 2 * l # l /\ 2 * l + 1 # l
    BY NodesAssumption
  <2> QED
    BY <1>1, <1>2, <1>3, <1>4, <1>5, <2>1, ChildrenAreNodes
     DEF NodeIsRight, HalvesAreRight, BeforeHalves, RoundStages, Kept, Stages, Untouched, Finished
<1> QED
  <2>1. GrowsAt({n, l}, p, b, q, c, d)
    BY <1>1, <1>2, <1>3, <1>6, <1>7, <1>8, ChildrenDiffer DEF GrowsAt
  <2> QED
    BY <2>1, TreeGrows

\* async_right() and async_right_half(): the right half is queued and the left one begun
LEMMA BothBegun ==
    ASSUME NEW p \in [Nodes -> Phases], NEW b \in [Nodes -> Nat], NEW d \in SUBSET Nodes,
           TreeIsRight(p, b, d), NEW n \in Nodes, p[n] \in {"fork", "async"},
           NEW q, q = [p EXCEPT ![n] = "forked", ![2 * n] = "create", ![2 * n + 1] = "queued"]
    PROVE  TreeIsRight(q, b, d)
<1>1. PICK l \in Nodes, r \in Nodes : /\ l = 2 * n /\ r = 2 * n + 1 /\ MaySplit(n)
                                      /\ l # n /\ r # n /\ r # l
  <2>1. MaySplit(n)
    BY DEF TreeIsRight, NodeIsRight
  <2> QED
    BY <2>1, ChildrenAreNodes
<1>2. ASSUME NEW m \in Nodes
      PROVE  q[m] = IF m = n THEN "forked" ELSE IF m = l THEN "create"
                    ELSE IF m = r THEN "queued" ELSE p[m]
  BY <1>1
<1>3. \A m \in Nodes \ {l, r} : Kept(p, b, q, b, m)
  BY <1>1, <1>2 DEF Kept, Untouched, Finished
<1>4. NodeIsRight(p, b, n) /\ NodeIsRight(p, b, l) /\ NodeIsRight(p, b, r)
  BY DEF TreeIsRight
<1>5. Untouched(p, b, l) /\ Untouched(p, b, r)
  BY <1>1, <1>4 DEF NodeIsRight, HalvesAreRight, BeforeHalves
<1>6. n \notin d /\ l \notin d /\ r \notin d
  BY <1>5 DEF TreeIsRight, Finished, Untouched
<1>7. NodeIsRight(q, b, n)
  BY <1>1, <1>2, <1>4, <1>5
     DEF NodeIsRight, HalvesAreRight, BeforeHalves, RoundStages, Stages, Untouched, Finished
<1>8. ASSUME NEW k \in {l, r} PROVE NodeIsRight(q, b, k)
  <2>1. /\ 2 * k # l /\ 2 * k # r /\ 2 * k + 1 # l /\ 2 * k + 1 # r
    BY <1>1, NodesAssumption
  <2> QED
    BY <1>1, <1>2, <1>3, <1>4, <1>5, <2>1, ChildrenAreNodes
     DEF NodeIsRight, HalvesAreRight, BeforeHalves, RoundStages, Kept, Stages, Untouched, Finished
<1> QED
  <2>1. \A m \in Nodes \ {n, l, r} : 2 * m \notin {l, r} /\ 2 * m + 1 \notin {l, r}
    BY <1>1, ChildrenDiffer
  <2>2. GrowsAt({n, l, r}, p, b, q, b, d)
    BY <1>2, <1>3, <1>6, <1>7, <1>8, <2>1 DEF GrowsAt
  <2> QED
    BY <2>2, TreeGrows

\* return_left() to a call without a thread for the right half
LEMMA RightBegun ==
    ASSUME NEW p \in [Nodes -> Phases], NEW b \in [Nodes -> Nat], NEW d \in SUBSET Nodes,
           TreeIsRight(p, b, d), NEW n \in Nodes, p[n] = "left", p[2 * n] = "done",
           NEW q, q = [p EXCEPT ![n] = "right", ![2 * n] = "none", ![2 * n + 1] = "create"]
    PROVE  TreeIsRight(q, b, d)
<1>1. PICK l \in Nodes, r \in Nodes : /\ l = 2 * n /\ r = 2 * n + 1 /\ MaySplit(n)
                                      /\ l # n /\ r # n /\ r # l
  <2>1. MaySplit(n)
    BY DEF TreeIsRight, NodeIsRight
  <2> QED
    BY <2>1, ChildrenAreNodes
<1>2. ASSUME NEW m \in Nodes
      PROVE  q[m] = IF m = n THEN "right" ELSE IF m = l THEN "none"
                    ELSE IF m = r THEN "create" ELSE p[m]
  BY <1>1
<1>3. \A m \in Nodes \ {l, r} : Kept(p, b, q, b, m)
  BY <1>1, <1>2 DEF Kept, Untouched, Finished
<1>4. NodeIsRight(p, b, n) /\ NodeIsRight(p, b, l) /\ NodeIsRight(p, b, r)
  BY DEF TreeIsRight
<1>5. Untouched(p, b, r) /\ b[l] = 1
  BY <1>1, <1>4 DEF NodeIsRight, HalvesAreRight, BeforeHalves, RoundStages, Stages
<1>6. n \notin d /\ l \notin d /\ r \notin d
  BY <1>1, <1>5 DEF TreeIsRight, Finished, Untouched
<1>7. NodeIsRight(q, b, n)
  BY <1>1, <1>2, <1>4, <1>5
     DEF NodeIsRight, HalvesAreRight, BeforeHalves, RoundStages, Stages, Untouched, Finished
<1>8. ASSUME NEW k \in {l, r} PROVE NodeIsRight(q, b, k)
  <2>1. /\ 2 * k # l /\ 2 * k # r /\ 2 * k + 1 # l /\ 2 * k + 1 # r
    BY <1>1, NodesAssumption
  <2> QED
    BY <1>1, <1>2, <1>3, <1>4, <1>5, <2>1, ChildrenAreNodes
     DEF NodeIsRight, HalvesAreRight, BeforeHalves, RoundStages, Kept, Stages, Untouched, Finished
<1> QED
  <2>1. \A m \in Nodes \ {n, l, r} : 2 * m \notin {l, r} /\ 2 * m + 1 \notin {l, r}
    BY <1>1, ChildrenDiffer
  <2>2. GrowsAt({n, l, r}, p, b, q, b, d)
    BY <1>2, <1>3, <1>6, <1>7, <1>8, <2>1 DEF GrowsAt
  <2> QED
    BY <2>2, TreeGrows

\* return_left() of one half to a call that the other half is left to wait for
\* or is done: k is the half that returns
LEMMA HalfReturns ==
    ASSUME NEW p \in [Nodes -> Phases], NEW b \in [Nodes -> Nat], NEW d \in SUBSET Nodes,
           TreeIsRight(p, b, d), NEW n \in Nodes, NEW k, p[k] = "done",
           NEW to \in {"get", "done"},
           \/ p[n] = "forked" /\ k = 2 * n /\ to = "get"
           \/ p[n] = "right" /\ k = 2 * n + 1 /\ to = "done",
           NEW q, q = [p EXCEPT ![n] = to, ![k] = "none"]
    PROVE  TreeIsRight(q, b, d)
<1>1. /\ k \in Nodes /\ k # n /\ MaySplit(n) /\ 2 * n \in Nodes /\ 2 * n + 1 \in Nodes
      /\ 2 * n # n /\ 2 * n + 1 # n /\ 2 * n # 2 * n + 1
  <2>1. MaySplit(n)
    BY DEF TreeIsRight, NodeIsRight
  <2> QED
    BY <2>1, ChildrenAreNodes
<1>2. ASSUME NEW m \in Nodes
      PROVE  q[m] = IF m = n THEN to ELSE IF m = k THEN "none" ELSE p[m]
  BY <1>1
<1>3. NodeIsRight(p, b, n) /\ NodeIsRight(p, b, k)
  BY <1>1 DEF TreeIsRight
<1>4. b[k] = 1 /\ b[n] = 1
  BY <1>1, <1>3 DEF NodeIsRight, Stages
<1>5. \A m \in Nodes : Kept(p, b, q, b, m)
  BY <1>1, <1>2, <1>4 DEF Kept, Untouched, Finished
<1>6. n \notin d /\ k \notin d
  BY <1>1 DEF TreeIsRight, Finished, Untouched
<1>7. NodeIsRight(q, b, n)
  <2>1. Finished(q, b, k)
    BY <1>1, <1>2, <1>4 DEF Finished
  <2> QED
    BY <1>1, <1>2, <1>3, <1>4, <1>5, <2>1
       DEF NodeIsRight, HalvesAreRight, BeforeHalves, RoundStages, Kept, Stages, Untouched, Finished
<1>8. NodeIsRight(q, b, k)
  BY <1>1, <1>2, <1>3, <1>4, <1>5, ChildrenAreNodes
     DEF NodeIsRight, HalvesAreRight, BeforeHalves, RoundStages, Kept, Stages, Untouched, Finished
<1> QED
  <2>1. GrowsAt({n, k}, p, b, q, b, d)
    BY <1>1, <1>2, <1>5, <1>6, <1>7, <1>8 DEF GrowsAt
  <2> QED
    BY <1>1, <2>1, TreeGrows

\* take_task(), get_right(), and the end of the outermost call
LEMMA NodeGoesOn ==
    ASSUME NEW p \in [Nodes -> Phases], NEW b \in [Nodes -> Nat], NEW d \in SUBSET Nodes,
           TreeIsRight(p, b, d), NEW n \in Nodes, NEW to \in {"create", "done", "none"},
           \/ p[n] = "queued" /\ to = "create"
           \/ p[n] = "get" /\ to = "done" /\ 2 * n + 1 \in d
           \/ p[n] = "done" /\ to = "none",
           NEW q, q = [p EXCEPT ![n] = to]
    PROVE  TreeIsRight(q, b, d) /\ (to = "none" => TreeIsRight(q, b, d \cup {n}))
<1>1. ASSUME NEW m \in Nodes PROVE q[m] = IF m = n THEN to ELSE p[m]
  OBVIOUS
<1>2. NodeIsRight(p, b, n) /\ n \notin d
  BY DEF TreeIsRight, Finished
<1>3. b[n] = IF to = "create" THEN 0 ELSE 1
  BY <1>2 DEF NodeIsRight, Stages
<1>4. \A m \in Nodes : Kept(p, b, q, b, m)
  BY <1>1, <1>3 DEF Kept, Untouched, Finished
<1>5. NodeIsRight(q, b, n)
  <2>1. to = "done" => Finished(p, b, 2 * n + 1)
    BY DEF TreeIsRight
  <2> QED
    BY <1>1, <1>2, <1>3, <1>4, <2>1, ChildrenAreNodes
       DEF NodeIsRight, HalvesAreRight, BeforeHalves, RoundStages, Kept, Stages, Untouched, Finished
<1>6. TreeIsRight(q, b, d)
  <2>1. GrowsAt({n}, p, b, q, b, d)
    BY <1>1, <1>2, <1>4, <1>5 DEF GrowsAt
  <2> QED
    BY <2>1, TreeGrows
<1> QED
  BY <1>1, <1>3, <1>6 DEF TreeIsRight, Finished

\* The rounds of a node, and their end
LEMMA RoundGoesOn ==
    ASSUME NEW p \in [Nodes -> Phases], NEW b \in [Nodes -> Nat], NEW d \in SUBSET Nodes,
           TreeIsRight(p, b, d), NEW n \in Nodes, p[n] \in RoundStages,
           NEW to \in RoundStages \cup {"async", "done"},
           MaySplit(n) \/ to \in {p[n], "barrier1", "done"},
           NEW q, q = [p EXCEPT ![n] = to]
    PROVE  TreeIsRight(q, b, d)
<1>1. ASSUME NEW m \in Nodes PROVE q[m] = IF m = n THEN to ELSE p[m]
  OBVIOUS
<1>2. NodeIsRight(p, b, n) /\ n \notin d
  BY DEF TreeIsRight, Finished, RoundStages
<1>3. b[n] = 1
  BY <1>2 DEF NodeIsRight, Stages, RoundStages
<1>4. \A m \in Nodes : Kept(p, b, q, b, m)
  BY <1>1, <1>3 DEF Kept, Untouched, Finished, RoundStages
<1>5. NodeIsRight(q, b, n)
  BY <1>1, <1>2, <1>3, <1>4, ChildrenAreNodes
     DEF NodeIsRight, HalvesAreRight, BeforeHalves, RoundStages, Kept, Stages, Untouched, Finished
<1> QED
  <2>1. GrowsAt({n}, p, b, q, b, d)
    BY <1>1, <1>2, <1>4, <1>5 DEF GrowsAt
  <2> QED
    BY <2>1, TreeGrows

-----------------------------------------------------------------------------
(* A step that changes the calls of one thread, and the queue.             *)

\* t goes on with the calls s; q is what becomes of the phases.
MovesTo(t, s, q) ==
    \A n \in Nodes :
        /\ n \in NodesOf(s) =>
              /\ On(s, n, q[n])
              /\ n \notin QueuedIn(tasks')
              /\ n \in NodesOf(stack[t]) \/ phase[n] \in {"none", "queued"}
        /\ n \notin NodesOf(s) =>
              /\ q[n] = "queued" <=> n \in QueuedIn(tasks')
              /\ n \in NodesOf(stack[t]) => q[n] \in {"none", "queued"}
              /\ n \notin NodesOf(stack[t]) =>
                    q[n] = phase[n] \/ {q[n], phase[n]} \subseteq {"none", "queued"}

LEMMA ThreadStep ==
    ASSUME TypeOK, HeldOnce, TypeOK',
           NEW t \in Threads, NEW s \in Seq(Frames), stack' = [stack EXCEPT ![t] = s],
           Distinct(s), QueuedOnce(tasks'),
           NEW q \in [Nodes -> Phases], MovesTo(t, s, q)
    PROVE  HeldOnce' /\ phase' = q
<1>1. ASSUME NEW u \in Threads
      PROVE  /\ stack'[u] = IF u = t THEN s ELSE stack[u]
             /\ stack[u] \in Seq(Frames)
  BY DEF TypeOK
<1>2. PhasesAre(phase)
  BY PhaseIsRight
<1>3. ASSUME NEW u \in Threads \ {t}, NEW n \in NodesOf(stack[u])
      PROVE  n \in Nodes /\ n \notin NodesOf(s) /\ n \notin QueuedIn(tasks')
  <2>1. n \in Nodes /\ phase[n] \in Stages
    BY <1>1, NodesAreInStages, PhaseOnStack
  <2>2. n \notin NodesOf(stack[t])
    BY DEF HeldOnce
  <2>3. phase[n] \notin {"none", "queued"}
    BY <2>1, StagesAreNoOtherPhases
  <2> QED
    BY <2>1, <2>2, <2>3 DEF MovesTo
<1>4. NodesOf(s) \subseteq Nodes /\ NodesOf(s) \cap QueuedIn(tasks') = {}
  BY NodesAreInStages DEF MovesTo
<1>5. ASSUME NEW u \in Threads
      PROVE  /\ Distinct(stack'[u])
             /\ NodesOf(stack'[u]) \cap QueuedIn(tasks') = {}
             /\ \A v \in Threads \ {u} : NodesOf(stack'[u]) \cap NodesOf(stack'[v]) = {}
  <2>1. Distinct(stack[u]) /\ \A v \in Threads \ {u} : NodesOf(stack[u]) \cap NodesOf(stack[v]) = {}
    BY DEF HeldOnce
  <2>2. CASE u = t
    BY <1>1, <1>3, <1>4, <2>2
  <2>3. CASE u # t
    BY <1>1, <1>3, <2>1, <2>3
  <2> QED
    BY <2>2, <2>3
<1>6. HeldOnce'
  BY <1>5 DEF HeldOnce
<1>7. ASSUME NEW n \in Nodes
      PROVE  q[n] = "queued" <=> n \in QueuedIn(tasks')
  <2>1. CASE n \in NodesOf(s)
    BY <2>1, NodesAreInStages, StagesAreNoOtherPhases DEF MovesTo
  <2>2. CASE n \notin NodesOf(s)
    BY <2>2 DEF MovesTo
  <2> QED
    BY <2>1, <2>2
<1>8. ASSUME NEW n \in Nodes, NEW stage \in Stages
      PROVE  q[n] = stage <=> \E u \in Threads : On(stack'[u], n, stage)
  <2>1. CASE n \in NodesOf(s)
    <3>1. On(s, n, q[n])
      BY <2>1 DEF MovesTo
    <3>2. \A u \in Threads \ {t} : ~On(stack'[u], n, stage)
      BY <1>1, <1>3, <2>1, NodesAreInStages
    <3>3. On(s, n, stage) <=> q[n] = stage
      BY <3>1, NodesAreInStages
    <3> QED
      BY <1>1, <3>2, <3>3
  <2>2. CASE n \notin NodesOf(s) /\ n \in NodesOf(stack[t])
    <3>1. q[n] # stage
      BY <2>2, StagesAreNoOtherPhases DEF MovesTo
    <3>2. \A u \in Threads \ {t} : n \notin NodesOf(stack[u])
      BY <2>2 DEF HeldOnce
    <3>3. \A u \in Threads : ~On(stack'[u], n, stage)
      BY <1>1, <2>2, <3>2, NodesAreInStages
    <3> QED
      BY <3>1, <3>3
  <2>3. CASE n \notin NodesOf(s) /\ n \notin NodesOf(stack[t])
    <3>1. q[n] = stage <=> phase[n] = stage
      BY <2>3, StagesAreNoOtherPhases DEF MovesTo
    <3>2. phase[n] = stage <=> \E u \in Threads : On(stack[u], n, stage)
      BY <1>2 DEF PhasesAre, InStage
    <3>3. ~On(s, n, stage) /\ ~On(stack[t], n, stage)
      BY <1>1, <2>3, NodesAreInStages
    <3> QED
      BY <1>1, <3>1, <3>2, <3>3
  <2> QED
    BY <2>1, <2>2, <2>3
<1>9. PhasesAre(q)'
  BY <1>7, <1>8 DEF PhasesAre, InStage
<1>10. (TypeOK /\ HeldOnce => \A p : PhasesAre(p) => phase = p)'
  BY PhaseIs, PTL
<1> QED
  BY <1>6, <1>9, <1>10

LEMMA SamePhase ==
    ASSUME UNCHANGED stack, QueuedIn(tasks') = QueuedIn(tasks)
    PROVE  phase' = phase
<1>1. \A n, stage : InStage(n, stage)' <=> InStage(n, stage)
  BY DEF InStage
<1> QED
  BY <1>1 DEF phase

-----------------------------------------------------------------------------
(* The calls of a thread, as create_build_node() changes them.             *)

\* The parts of the invariant that say where the nodes are.
Structure ==
    /\ TypeOK
    /\ \A w \in Workers : job[w] = "node" <=> stack[w] # <<>>
    /\ HeldOnce
    /\ \A t \in Threads : Linked(stack[t])

\* The types of what is not a call.
RestOK ==
    /\ tasks \in Seq(TaskSet)
    /\ job \in [Workers -> {"none", "node", "chunk", "returned"}]
    /\ chunk_of \in [Workers -> Nodes]
    /\ arrived \in [Nodes -> 0..MaxArrived]
    /\ ready \subseteq Nodes
    /\ built \in [Nodes -> Nat]
    /\ done \in BOOLEAN

\* f and the calls c around it are the calls of t.
Innermost(t, f, c) ==
    /\ f \in Frames /\ c \in Seq(Frames)
    /\ stack[t] = <<f>> \o c /\ stack[t] # <<>>
    /\ f = Head(stack[t]) /\ c = Tail(stack[t])
    /\ NodesOf(stack[t]) = {f.node} \cup NodesOf(c)
    /\ f.node \in Nodes /\ f.node \notin NodesOf(c)
    /\ f.stage \in Stages /\ phase[f.node] = f.stage
    /\ Distinct(c) /\ Linked(c)
    /\ c # <<>> => CallOf(Head(c), f.node)
    /\ \A m \in NodesOf(c) : m \in Nodes /\ phase[m] \in Stages /\ On(c, m, phase[m])

LEMMA InnermostCall ==
    ASSUME Structure, NEW t \in Threads, stack[t] # <<>>
    PROVE  Innermost(t, Head(stack[t]), Tail(stack[t]))
<1>1. PICK s : s = stack[t]
  OBVIOUS
<1>2. s \in Seq(Frames) /\ s # <<>> /\ Distinct(s) /\ Linked(s)
  BY <1>1 DEF Structure, TypeOK, HeldOnce
<1>3. PICK f, c : f = Head(s) /\ c = Tail(s)
  OBVIOUS
<1>4. f \in Frames /\ c \in Seq(Frames) /\ s = <<f>> \o c
  BY <1>2, <1>3, HeadAndTail
<1>5. /\ NodesOf(s) = {f.node} \cup NodesOf(c)
      /\ \A n, stage : On(s, n, stage) <=>
            (f.node = n /\ f.stage = stage) \/ On(c, n, stage)
      /\ Distinct(c) /\ f.node \notin NodesOf(c)
      /\ Linked(c) /\ (c # <<>> => CallOf(Head(c), f.node))
  BY <1>2, <1>4, ConsStack
<1>6. f.node \in Nodes /\ f.stage \in Stages
  BY <1>4 DEF Frames
<1>7. TypeOK /\ HeldOnce
  BY DEF Structure
<1>8. phase[f.node] = f.stage
  BY <1>1, <1>5, <1>6, <1>7, PhaseOnStack
<1>9. ASSUME NEW m \in NodesOf(c)
      PROVE  m \in Nodes /\ phase[m] \in Stages /\ On(c, m, phase[m])
  <2>1. m \in NodesOf(s) /\ m # f.node
    BY <1>5
  <2>2. m \in Nodes
    BY <1>2, <2>1, NodesAreInStages
  <2>3. phase[m] \in Stages /\ On(s, m, phase[m])
    BY <1>1, <1>7, <2>1, PhaseOnStack
  <2> QED
    BY <1>5, <2>1, <2>2, <2>3
<1> QED
  BY <1>1, <1>2, <1>3, <1>4, <1>5, <1>6, <1>8, <1>9 DEF Innermost

\* The calls c with the call f within them.
IsWithCall(s, f, c) ==
    /\ s \in Seq(Frames) /\ s # <<>> /\ Distinct(s) /\ Linked(s)
    /\ NodesOf(s) = {f.node} \cup NodesOf(c) /\ Head(s) = f
    /\ \A m, st : On(s, m, st) <=> (m = f.node /\ st = f.stage) \/ On(c, m, st)

LEMMA WithCall ==
    ASSUME NEW c \in Seq(Frames), Distinct(c), Linked(c), NEW f \in Frames,
           f.node \notin NodesOf(c), c # <<>> => CallOf(Head(c), f.node),
           NEW s, s = <<f>> \o c
    PROVE  IsWithCall(s, f, c)
BY ConsStack DEF IsWithCall

LEMMA JobsAreKept ==
    ASSUME Structure, job' = job, NEW t \in Threads, stack[t] # <<>>, NEW s, s # <<>>,
           stack' = [stack EXCEPT ![t] = s]
    PROVE  \A w \in Workers : job'[w] = "node" <=> stack'[w] # <<>>
<1>1. \A w \in Workers : stack'[w] = IF w = t THEN s ELSE stack[w]
  BY DEF Structure, TypeOK, Threads
<1> QED
  BY <1>1 DEF Structure

LEMMA StructureIsKept ==
    ASSUME Structure, RestOK',
           NEW t \in Threads, NEW s \in Seq(Frames), stack' = [stack EXCEPT ![t] = s],
           Distinct(s), Linked(s), QueuedOnce(tasks'),
           \A w \in Workers : job'[w] = "node" <=> stack'[w] # <<>>,
           NEW q \in [Nodes -> Phases], MovesTo(t, s, q)
    PROVE  Structure' /\ phase' = q
<1>0. TypeOK'
  <2>1. stack' \in [Threads -> Seq(Frames)]
    BY DEF Structure, TypeOK
  <2> QED
    BY <2>1 DEF RestOK, TypeOK
<1>1. HeldOnce' /\ phase' = q
  BY <1>0, ThreadStep DEF Structure
<1>2. \A u \in Threads : stack'[u] = IF u = t THEN s ELSE stack[u]
  BY DEF Structure, TypeOK
<1>3. \A u \in Threads : Linked(stack'[u])
  BY <1>2 DEF Structure
<1> QED
  BY <1>0, <1>1, <1>3 DEF Structure

\* The innermost call goes on as h.
GoesOn(t, h, n, q) ==
    /\ h \in Frames /\ h.node = n /\ q = [phase EXCEPT ![n] = h.stage]
    /\ stack' = [stack EXCEPT ![t] = <<h>> \o Tail(stack[t])]
    /\ job' = job /\ QueuedIn(tasks') = QueuedIn(tasks) /\ QueuedOnce(tasks')

LEMMA StageStep ==
    ASSUME Structure, RestOK', NEW t \in Threads, NEW f, NEW c, Innermost(t, f, c),
           NEW n, n = f.node, NEW h, NEW q, GoesOn(t, h, n, q)
    PROVE  Structure' /\ phase' = q /\ Head(stack'[t]) = h
<1> USE DEF GoesOn
<1>1. n = f.node /\ h.node = n /\ h.stage \in Stages
  BY FrameFields
<1>2. PICK s : s = <<h>> \o c
  OBVIOUS
<1>3. stack[t] \in Seq(Frames)
  BY DEF Structure, TypeOK
<1>4. stack' = [stack EXCEPT ![t] = s]
  BY <1>2 DEF Innermost
<1>5. /\ c \in Seq(Frames) /\ Distinct(c) /\ Linked(c)
      /\ n \in Nodes \ NodesOf(c) /\ (c # <<>> => CallOf(Head(c), n))
  BY <1>1 DEF Innermost
<1>6. IsWithCall(s, h, c)
  BY <1>1, <1>2, <1>5, WithCall
<1>7. q = [phase EXCEPT ![n] = h.stage]
  OBVIOUS
<1>8. phase \in [Nodes -> Phases] /\ PhasesAre(phase)
  BY PhaseIsRight DEF Structure, PhasesAre
<1>9. q \in [Nodes -> Phases] /\ \A m \in Nodes : q[m] = IF m = n THEN h.stage ELSE phase[m]
  BY <1>1, <1>7, <1>8, StagesAreNoOtherPhases
<1>10. \A m \in Nodes : phase[m] = "queued" <=> m \in QueuedIn(tasks)
  BY <1>8 DEF PhasesAre
<1>11. NodesOf(stack[t]) = {n} \cup NodesOf(c) /\ phase[n] \in Stages
       /\ \A m \in NodesOf(c) : m \in Nodes /\ phase[m] \in Stages /\ On(c, m, phase[m])
  BY <1>1 DEF Innermost
<1>12. NodesOf(s) = {n} \cup NodesOf(c)
       /\ \A m, st : On(s, m, st) <=> (m = n /\ st = h.stage) \/ On(c, m, st)
  BY <1>1, <1>6 DEF IsWithCall
<1>13. MovesTo(t, s, q)
  BY <1>1, <1>5, <1>9, <1>10, <1>11, <1>12, StagesAreNoOtherPhases DEF MovesTo
<1>14. \A w \in Workers : job'[w] = "node" <=> stack'[w] # <<>>
  <2>1. stack[t] # <<>>
    BY DEF Innermost
  <2> QED
    BY <1>4, <1>6, <2>1, JobsAreKept DEF IsWithCall
<1>15. stack'[t] = s
  BY <1>4 DEF Structure, TypeOK
<1>16. s \in Seq(Frames) /\ Distinct(s) /\ Linked(s) /\ Head(s) = h
  BY <1>6 DEF IsWithCall
<1> QED
  BY <1>4, <1>9, <1>13, <1>14, <1>15, <1>16, StructureIsKept

\* What is around the call g in the calls c: g and d, the calls around it.
IsAround(c, g, d) ==
    /\ g \in Frames /\ d \in Seq(Frames)
    /\ NodesOf(c) = {g.node} \cup NodesOf(d) /\ Distinct(d) /\ Linked(d)
    /\ g.node \notin NodesOf(d) /\ (d # <<>> => CallOf(Head(d), g.node))
    /\ \A m, sm : On(c, m, sm) <=> (g.node = m /\ g.stage = sm) \/ On(d, m, sm)

LEMMA AroundHead ==
    ASSUME NEW c \in Seq(Frames), c # <<>>, Distinct(c), Linked(c)
    PROVE  IsAround(c, Head(c), Tail(c))
<1>1. Head(c) \in Frames /\ Tail(c) \in Seq(Frames) /\ c = <<Head(c)>> \o Tail(c)
  BY HeadAndTail
<1>2. PICK g, d : g = Head(c) /\ d = Tail(c)
  OBVIOUS
<1>3. IsAround(c, g, d)
  BY <1>1, <1>2, ConsStack DEF IsAround
<1> QED
  BY <1>2, <1>3

\* The innermost call goes on as g and calls itself as h; the nodes in Q are
\* given to the pool.
Begins(t, g, h, Q, q) ==
    /\ g \in Frames /\ h \in Frames /\ h.stage = "create" /\ CallOf(g, h.node)
    /\ h.node # g.node /\ phase[h.node] = "none" /\ q \in [Nodes -> Phases]
    /\ stack' = [stack EXCEPT ![t] = <<h>> \o (<<g>> \o Tail(stack[t]))] /\ job' = job
    /\ Q \subseteq Nodes \ {g.node, h.node} /\ \A m \in Q : phase[m] = "none"
    /\ QueuedIn(tasks') = QueuedIn(tasks) \cup Q /\ QueuedOnce(tasks')
    /\ \A m \in Nodes : q[m] = IF m = g.node THEN g.stage ELSE IF m = h.node THEN "create"
                                ELSE IF m \in Q THEN "queued" ELSE phase[m]

LEMMA BeginStep ==
    ASSUME Structure, RestOK', NEW t \in Threads, NEW f, NEW c, Innermost(t, f, c),
           NEW g, g.node = f.node, NEW h, NEW Q, NEW q, Begins(t, g, h, Q, q)
    PROVE  Structure' /\ phase' = q /\ Head(stack'[t]) = h
<1> USE DEF Begins
<1>1. PICK n, k, st : n = g.node /\ k = h.node /\ st = g.stage
  OBVIOUS
<1>2. PICK s1 : s1 = <<g>> \o c
  OBVIOUS
<1>3. PICK s : s = <<h>> \o s1
  OBVIOUS
<1>4. stack[t] \in Seq(Frames)
  BY DEF Structure, TypeOK
<1>5. stack' = [stack EXCEPT ![t] = s]
  BY <1>2, <1>3 DEF Innermost
<1>6. /\ c \in Seq(Frames) /\ Distinct(c) /\ Linked(c)
      /\ n \in Nodes \ NodesOf(c) /\ (c # <<>> => CallOf(Head(c), n))
  BY <1>1 DEF Innermost
<1>7. IsWithCall(s1, g, c)
  BY <1>1, <1>2, <1>6, WithCall
<1>8. PhasesAre(phase)
  BY PhaseIsRight DEF Structure
<1>9. NodesOf(stack[t]) = {n} \cup NodesOf(c) /\ phase[n] \in Stages
      /\ \A m \in NodesOf(c) : m \in Nodes /\ phase[m] \in Stages /\ On(c, m, phase[m])
  BY <1>1 DEF Innermost
<1>10. k \in Nodes /\ k # n /\ k \notin NodesOf(c) /\ st \in Stages
  BY <1>1, <1>9, FrameFields, StagesAreNoOtherPhases
<1>11. IsWithCall(s, h, s1)
  <2>1. h.node \notin NodesOf(s1)
    BY <1>1, <1>7, <1>10 DEF IsWithCall
  <2>2. s1 \in Seq(Frames) /\ Distinct(s1) /\ Linked(s1) /\ CallOf(Head(s1), h.node)
    BY <1>7 DEF IsWithCall
  <2> QED
    BY <1>3, <2>1, <2>2, WithCall
<1>12. \A m \in Nodes : phase[m] = "queued" <=> m \in QueuedIn(tasks)
  BY <1>8 DEF PhasesAre
<1>13. /\ NodesOf(s) = {k, n} \cup NodesOf(c)
       /\ \A m, sm : On(s, m, sm) <=> \/ m = k /\ sm = "create"
                                      \/ m = n /\ sm = st
                                      \/ On(c, m, sm)
  BY <1>1, <1>7, <1>11 DEF IsWithCall
<1>14. MovesTo(t, s, q)
  BY <1>1, <1>6, <1>9, <1>10, <1>12, <1>13, StagesAreNoOtherPhases DEF MovesTo
<1>15. \A w \in Workers : job'[w] = "node" <=> stack'[w] # <<>>
  <2>1. stack[t] # <<>> /\ s # <<>>
    BY <1>11 DEF Innermost, IsWithCall
  <2> QED
    BY <1>5, <2>1, JobsAreKept
<1>16. s \in Seq(Frames) /\ Distinct(s) /\ Linked(s) /\ Head(s) = h
  BY <1>11 DEF IsWithCall
<1>17. stack'[t] = s
  BY <1>5 DEF Structure, TypeOK
<1>18. q \in [Nodes -> Phases] /\ QueuedOnce(tasks')
  OBVIOUS
<1> HIDE DEF Begins
<1>19. Structure' /\ phase' = q
  BY <1>5, <1>14, <1>15, <1>16, <1>18, StructureIsKept
<1> QED
  BY <1>16, <1>17, <1>19

\* The innermost call f returns to g, which goes on as h.
Returns(t, f, c, g, h, q) ==
    /\ c # <<>> /\ g = Head(c) /\ h \in Frames /\ h.node = g.node /\ q \in [Nodes -> Phases]
    /\ stack' = [stack EXCEPT ![t] = <<h>> \o Tail(c)] /\ job' = job /\ tasks' = tasks
    /\ \A m \in Nodes : q[m] = IF m = g.node THEN h.stage ELSE IF m = f.node THEN "none"
                                ELSE phase[m]

LEMMA ReturnStep ==
    ASSUME Structure, RestOK', NEW t \in Threads, NEW f, NEW c, Innermost(t, f, c),
           NEW g, NEW h, NEW q, Returns(t, f, c, g, h, q)
    PROVE  Structure' /\ phase' = q /\ Head(stack'[t]) = h
<1> USE DEF Returns
<1>1. PICK n, k, d, st : n = g.node /\ k = f.node /\ d = Tail(c) /\ st = h.stage
  OBVIOUS
<1>2. PICK s : s = <<h>> \o d
  OBVIOUS
<1>3. /\ c \in Seq(Frames) /\ Distinct(c) /\ Linked(c) /\ k \in Nodes \ NodesOf(c)
      /\ NodesOf(stack[t]) = {k} \cup NodesOf(c)
      /\ \A m \in NodesOf(c) : m \in Nodes /\ phase[m] \in Stages /\ On(c, m, phase[m])
  BY <1>1 DEF Innermost
<1>4. stack' = [stack EXCEPT ![t] = s]
  BY <1>1, <1>2
<1>5. g \in Frames /\ d \in Seq(Frames) /\ c = <<g>> \o d
  BY <1>1, <1>3, HeadAndTail
<1>6. /\ NodesOf(c) = {n} \cup NodesOf(d) /\ Distinct(d) /\ Linked(d)
      /\ n \notin NodesOf(d) /\ (d # <<>> => CallOf(Head(d), n))
      /\ \A m, sm : On(c, m, sm) <=> (n = m /\ g.stage = sm) \/ On(d, m, sm)
  BY <1>1, <1>3, AroundHead DEF IsAround
<1>7. n \in Nodes /\ st \in Stages
  BY <1>1, <1>3, <1>6, FrameFields
<1>8. IsWithCall(s, h, d)
  BY <1>1, <1>2, <1>5, <1>6, <1>7, WithCall
<1>9. \A m \in Nodes : phase[m] = "queued" <=> m \in QueuedIn(tasks)
  BY PhaseIsRight DEF Structure, PhasesAre
<1>10. \A m \in NodesOf(d) : On(d, m, phase[m])
  BY <1>3, <1>6
<1>11. phase[k] \in Stages
  BY <1>1 DEF Innermost
<1>12. /\ NodesOf(s) = {n} \cup NodesOf(d)
       /\ \A m, sm : On(s, m, sm) <=> (m = n /\ sm = st) \/ On(d, m, sm)
  BY <1>1, <1>8 DEF IsWithCall
<1>13. MovesTo(t, s, q)
  BY <1>1, <1>3, <1>6, <1>7, <1>9, <1>10, <1>11, <1>12, StagesAreNoOtherPhases DEF MovesTo
<1>14. \A w \in Workers : job'[w] = "node" <=> stack'[w] # <<>>
  <2>1. stack[t] # <<>> /\ s # <<>>
    BY <1>8 DEF Innermost, IsWithCall
  <2> QED
    BY <1>4, <2>1, JobsAreKept
<1>15. QueuedOnce(tasks')
  BY DEF Structure, HeldOnce
<1>16. s \in Seq(Frames) /\ Distinct(s) /\ Linked(s) /\ Head(s) = h
  BY <1>8 DEF IsWithCall
<1>17. stack'[t] = s
  BY <1>4 DEF Structure, TypeOK
<1> QED
  BY <1>4, <1>13, <1>14, <1>15, <1>16, <1>17, StructureIsKept

\* The same, and h calls itself as e.
ReturnsToRight(t, f, c, g, h, e, q) ==
    /\ c # <<>> /\ g = Head(c) /\ h \in Frames /\ h.node = g.node
    /\ e \in Frames /\ e.stage = "create" /\ e.node # g.node /\ e.node # f.node
    /\ CallOf(h, e.node) /\ phase[e.node] = "none"
    /\ stack' = [stack EXCEPT ![t] = <<e>> \o (<<h>> \o Tail(c))]
    /\ job' = job /\ tasks' = tasks /\ q \in [Nodes -> Phases]
    /\ \A m \in Nodes : q[m] = IF m = g.node THEN h.stage
                                ELSE IF m = f.node THEN "none"
                                ELSE IF m = e.node THEN "create" ELSE phase[m]

LEMMA RightStep ==
    ASSUME Structure, RestOK', NEW t \in Threads, NEW f, NEW c, Innermost(t, f, c),
           NEW g, NEW h, NEW e, NEW q, ReturnsToRight(t, f, c, g, h, e, q)
    PROVE  Structure' /\ phase' = q /\ Head(stack'[t]) = e
<1> USE DEF ReturnsToRight
<1>1. PICK n, k, r, d, st : /\ n = g.node /\ k = f.node /\ r = e.node
                            /\ d = Tail(c) /\ st = h.stage
  OBVIOUS
<1>2. PICK s1 : s1 = <<h>> \o d
  OBVIOUS
<1>3. PICK s : s = <<e>> \o s1
  OBVIOUS
<1>4. /\ c \in Seq(Frames) /\ Distinct(c) /\ Linked(c) /\ k \in Nodes \ NodesOf(c)
      /\ NodesOf(stack[t]) = {k} \cup NodesOf(c)
      /\ \A m \in NodesOf(c) : m \in Nodes /\ phase[m] \in Stages /\ On(c, m, phase[m])
  BY <1>1 DEF Innermost
<1>5. stack' = [stack EXCEPT ![t] = s]
  BY <1>1, <1>2, <1>3
<1>6. g \in Frames /\ d \in Seq(Frames) /\ c = <<g>> \o d
  BY <1>1, <1>4, HeadAndTail
<1>7. /\ NodesOf(c) = {n} \cup NodesOf(d) /\ Distinct(d) /\ Linked(d)
      /\ n \notin NodesOf(d) /\ (d # <<>> => CallOf(Head(d), n))
      /\ \A m, sm : On(c, m, sm) <=> (n = m /\ g.stage = sm) \/ On(d, m, sm)
  BY <1>1, <1>4, AroundHead DEF IsAround
<1>8. n \in Nodes /\ r \in Nodes /\ st \in Stages /\ r # n /\ r # k
  BY <1>1, <1>4, <1>7, FrameFields
<1>9. IsWithCall(s1, h, d)
  BY <1>1, <1>2, <1>6, <1>7, <1>8, WithCall
<1>10. r \notin NodesOf(d)
  BY <1>1, <1>4, <1>7, StagesAreNoOtherPhases
<1>11. IsWithCall(s, e, s1)
  <2>1. e.node \notin NodesOf(s1)
    BY <1>1, <1>8, <1>9, <1>10 DEF IsWithCall
  <2>2. s1 \in Seq(Frames) /\ Distinct(s1) /\ Linked(s1) /\ CallOf(Head(s1), e.node)
    BY <1>1, <1>9 DEF IsWithCall
  <2> QED
    BY <1>3, <2>1, <2>2, WithCall
<1>12. \A m \in Nodes : phase[m] = "queued" <=> m \in QueuedIn(tasks)
  BY PhaseIsRight DEF Structure, PhasesAre
<1>13. \A m \in NodesOf(d) : On(d, m, phase[m])
  BY <1>4, <1>7
<1>14. phase[k] \in Stages /\ "create" \in Stages
  BY <1>1 DEF Innermost, Stages
<1>15. /\ NodesOf(s) = {r, n} \cup NodesOf(d)
       /\ \A m, sm : On(s, m, sm) <=> \/ m = r /\ sm = "create"
                                      \/ m = n /\ sm = st
                                      \/ On(d, m, sm)
  BY <1>1, <1>9, <1>11 DEF IsWithCall
<1>16. MovesTo(t, s, q)
  BY <1>1, <1>4, <1>7, <1>8, <1>10, <1>12, <1>13, <1>14, <1>15, StagesAreNoOtherPhases
     DEF MovesTo
<1>17. \A w \in Workers : job'[w] = "node" <=> stack'[w] # <<>>
  <2>1. stack[t] # <<>> /\ s # <<>>
    BY <1>11 DEF Innermost, IsWithCall
  <2> QED
    BY <1>5, <2>1, JobsAreKept
<1>18. QueuedOnce(tasks')
  BY DEF Structure, HeldOnce
<1>19. s \in Seq(Frames) /\ Distinct(s) /\ Linked(s) /\ Head(s) = e
  BY <1>11 DEF IsWithCall
<1>20. stack'[t] = s
  BY <1>5 DEF Structure, TypeOK
<1> QED
  BY <1>5, <1>16, <1>17, <1>18, <1>19, <1>20, StructureIsKept

\* The outermost call returns.
Leaves(t, n, q) ==
    /\ q = [phase EXCEPT ![n] = "none"]
    /\ stack' = [stack EXCEPT ![t] = <<>>] /\ tasks' = tasks
    /\ \A w \in Workers : job'[w] = "node" <=> stack'[w] # <<>>

LEMMA LastStep ==
    ASSUME Structure, RestOK', NEW t \in Threads, NEW f, NEW c, Innermost(t, f, c), c = <<>>,
           NEW n, n = f.node, NEW q, Leaves(t, n, q)
    PROVE  Structure' /\ phase' = q
<1> USE DEF Leaves
<1>1. n = f.node
  OBVIOUS
<1>2. n \in Nodes /\ phase[n] \in Stages /\ NodesOf(stack[t]) = {n}
  BY <1>1, EmptyStack DEF Innermost
<1>3. phase \in [Nodes -> Phases] /\ \A m \in Nodes : phase[m] = "queued" <=> m \in QueuedIn(tasks)
  BY PhaseIsRight DEF Structure, PhasesAre
<1>4. q = [phase EXCEPT ![n] = "none"]
  OBVIOUS
<1>5. q \in [Nodes -> Phases] /\ \A m \in Nodes : q[m] = IF m = n THEN "none" ELSE phase[m]
  BY <1>3, <1>4, StagesAreNoOtherPhases
<1>6. MovesTo(t, <<>>, q)
  BY <1>2, <1>3, <1>5, EmptyStack, StagesAreNoOtherPhases DEF MovesTo
<1>7. QueuedOnce(tasks')
  BY DEF Structure, HeldOnce
<1> QED
  BY <1>1, <1>4, <1>5, <1>6, <1>7, EmptyStack, StructureIsKept

\* The first call of a thread, for a node that was queued.
StartsAt(t, e, n, q) ==
    /\ e \in Frames /\ e.stage = "create" /\ n = e.node
    /\ q = [phase EXCEPT ![n] = "create"]
    /\ stack[t] = <<>> /\ stack' = [stack EXCEPT ![t] = <<e>>]
    /\ phase[n] \in {"none", "queued"} /\ n \notin QueuedIn(tasks')
    /\ QueuedIn(tasks) \ {n} = QueuedIn(tasks') /\ QueuedOnce(tasks')
    /\ \A w \in Workers : job'[w] = "node" <=> stack'[w] # <<>>

LEMMA FirstStep ==
    ASSUME Structure, RestOK', NEW t \in Threads, NEW e, NEW n, NEW q, StartsAt(t, e, n, q)
    PROVE  Structure' /\ phase' = q /\ Head(stack'[t]) = e
<1> USE DEF StartsAt
<1>1. PICK s : s = <<e>> \o <<>>
  OBVIOUS
<1>2. s = <<e>>
  BY <1>1
<1>3. n \in Nodes
  BY FrameFields
<1>4. IsWithCall(s, e, <<>>)
  BY <1>1, EmptyStack, WithCall
<1>5. phase \in [Nodes -> Phases] /\ \A m \in Nodes : phase[m] = "queued" <=> m \in QueuedIn(tasks)
  BY PhaseIsRight DEF Structure, PhasesAre
<1>6. q = [phase EXCEPT ![n] = "create"]
  OBVIOUS
<1>7. q \in [Nodes -> Phases] /\ \A m \in Nodes : q[m] = IF m = n THEN "create" ELSE phase[m]
  BY <1>5, <1>6 DEF Phases, Stages
<1>8. /\ NodesOf(s) = {n} /\ NodesOf(stack[t]) = {}
      /\ \A m, sm : On(s, m, sm) <=> m = n /\ sm = "create"
  BY <1>4, EmptyStack DEF IsWithCall
<1>9. MovesTo(t, s, q)
  BY <1>3, <1>5, <1>7, <1>8 DEF MovesTo
<1>10. s \in Seq(Frames) /\ Distinct(s) /\ Linked(s) /\ Head(s) = e
  BY <1>4 DEF IsWithCall
<1>11. stack' = [stack EXCEPT ![t] = s] /\ stack'[t] = s
  BY <1>2 DEF Structure, TypeOK
<1>12. QueuedOnce(tasks') /\ \A w \in Workers : job'[w] = "node" <=> stack'[w] # <<>>
  OBVIOUS
<1> HIDE DEF StartsAt
<1>13. Structure' /\ phase' = q
  BY <1>7, <1>9, <1>10, <1>11, <1>12, StructureIsKept
<1> QED
  BY <1>10, <1>11, <1>13

-----------------------------------------------------------------------------
(* The chunks of the nodes.                                                *)

QueuedChunks(n) == Cardinality(ChunksIn(tasks, n))
NumRunning(n)   == Cardinality(RunningChunks(n))

LEMMA ChunkCounts ==
    TypeOK => \A n \in Nodes :
        /\ chunks[n] = arrived[n] + QueuedChunks(n) + NumRunning(n)
        /\ arrived[n] \in Nat /\ QueuedChunks(n) \in Nat /\ NumRunning(n) \in Nat
        /\ IsFiniteSet(ChunksIn(tasks, n)) /\ IsFiniteSet(RunningChunks(n))
        /\ chunks[n] \in Nat
<1> SUFFICES ASSUME TypeOK, NEW n \in Nodes
             PROVE  /\ chunks[n] = arrived[n] + QueuedChunks(n) + NumRunning(n)
                    /\ arrived[n] \in Nat /\ QueuedChunks(n) \in Nat /\ NumRunning(n) \in Nat
                    /\ IsFiniteSet(ChunksIn(tasks, n)) /\ IsFiniteSet(RunningChunks(n))
                    /\ chunks[n] \in Nat
  OBVIOUS
<1>1. chunks[n] = arrived[n] + QueuedChunks(n) + NumRunning(n)
  BY DEF chunks, ChunksOf, QueuedChunks, NumRunning
<1>2. arrived[n] \in Nat
  <2>1. arrived[n] \in 0..MaxArrived
    BY DEF TypeOK
  <2> QED
    BY <2>1, NumThreadsIsNat
<1>3. IsFiniteSet(ChunksIn(tasks, n)) /\ QueuedChunks(n) \in Nat
  <2>1. PICK q \in Seq(TaskSet) : q = tasks
    BY DEF TypeOK
  <2>2. IsFiniteSet(ChunksIn(q, n)) /\ Cardinality(ChunksIn(q, n)) \in Nat
    BY QueueTypes
  <2> QED
    BY <2>1, <2>2 DEF QueuedChunks
<1>4. IsFiniteSet(RunningChunks(n)) /\ NumRunning(n) \in Nat
  <2>1. RunningChunks(n) \subseteq Workers
    BY DEF RunningChunks
  <2>2. IsFiniteSet(RunningChunks(n))
    BY <2>1, WorkersAssumption, FS_Subset
  <2> QED
    BY <2>2, FS_CardinalityType DEF NumRunning
<1> QED
  BY <1>1, <1>2, <1>3, <1>4

LEMMA SameRunning ==
    ASSUME \A w \in Workers : /\ job'[w] = "chunk" <=> job[w] = "chunk"
                              /\ job[w] = "chunk" => chunk_of'[w] = chunk_of[w]
    PROVE  \A n \in Nodes : RunningChunks(n)' = RunningChunks(n)
BY DEF RunningChunks

\* A step that leaves all chunks where they are.
LEMMA SameChunks ==
    ASSUME \A n \in Nodes : RunningChunks(n)' = RunningChunks(n), arrived' = arrived,
           \A n \in Nodes : Cardinality(ChunksIn(tasks', n)) = Cardinality(ChunksIn(tasks, n))
    PROVE  chunks' = chunks
<1>1. \A n \in Nodes : ChunksOf(n)' = ChunksOf(n)
  BY DEF ChunksOf
<1> QED
  BY <1>1 DEF chunks

\* add_chunk()
LEMMA ChunkIsAdded ==
    ASSUME TypeOK, NEW n \in Nodes, tasks' = Append(tasks, ChunkTask(n)),
           UNCHANGED <<job, chunk_of, arrived>>
    PROVE  /\ \A m \in Nodes : chunks'[m] = IF m = n THEN chunks[m] + 1 ELSE chunks[m]
           /\ tasks' \in Seq(TaskSet) /\ QueuedIn(tasks') = QueuedIn(tasks)
           /\ QueuedOnce(tasks) => QueuedOnce(tasks')
<1>1. PICK q, e, r : q \in Seq(TaskSet) /\ q = tasks /\ e = ChunkTask(n) /\ r = tasks'
  BY DEF TypeOK
<1>2. q \in Seq(TaskSet) /\ e \in TaskSet /\ e.kind = "chunk" /\ r = Append(q, e)
      /\ \A m : e = ChunkTask(m) <=> m = n
  BY <1>1 DEF ChunkTask, TaskSet
<1>3. r \in Seq(TaskSet) /\ QueuedIn(r) = QueuedIn(q) /\ (QueuedOnce(q) => QueuedOnce(r))
  BY <1>2, QueueGrows
<1>4. ASSUME NEW m \in Nodes
      PROVE  chunks'[m] = IF m = n THEN chunks[m] + 1 ELSE chunks[m]
  <2>1. /\ e = ChunkTask(m) => Cardinality(ChunksIn(r, m)) = Cardinality(ChunksIn(q, m)) + 1
        /\ e # ChunkTask(m) => Cardinality(ChunksIn(r, m)) = Cardinality(ChunksIn(q, m))
    BY <1>2, ChunksGrow
  <2>2. RunningChunks(m)' = RunningChunks(m)
    BY SameRunning
  <2>3. chunks'[m] = arrived'[m] + Cardinality(ChunksIn(tasks', m)) + Cardinality(RunningChunks(m)')
    BY DEF chunks, ChunksOf
  <2>4. PICK a \in Nat, b \in Nat, c \in Nat :
            a = arrived[m] /\ b = Cardinality(ChunksIn(q, m)) /\ c = Cardinality(RunningChunks(m))
    BY <1>1, ChunkCounts DEF QueuedChunks, NumRunning
  <2>5. chunks[m] = a + b + c
    BY <1>1, <2>4, ChunkCounts DEF QueuedChunks, NumRunning
  <2>6. chunks'[m] = a + (b + (IF m = n THEN 1 ELSE 0)) + c
    BY <1>1, <1>2, <2>1, <2>2, <2>3, <2>4
  <2> QED
    BY <2>5, <2>6
<1> QED
  BY <1>1, <1>3, <1>4

\* take_task() of a chunk
LEMMA ChunkIsTaken ==
    ASSUME TypeOK, NEW n \in Nodes, NEW w \in Workers, tasks # <<>>,
           Head(tasks) = ChunkTask(n), tasks' = Tail(tasks), job[w] # "chunk",
           job' = [job EXCEPT ![w] = "chunk"], chunk_of' = [chunk_of EXCEPT ![w] = n],
           arrived' = arrived
    PROVE  /\ \A m \in Nodes : chunks'[m] = chunks[m]
           /\ tasks' \in Seq(TaskSet) /\ QueuedIn(tasks') = QueuedIn(tasks)
           /\ QueuedOnce(tasks) => QueuedOnce(tasks')
<1>1. PICK q, e, r : q \in Seq(TaskSet) /\ q = tasks /\ e = ChunkTask(n) /\ r = tasks'
  BY DEF TypeOK
<1>2. q \in Seq(TaskSet) /\ q # <<>> /\ e = Head(q) /\ r = Tail(q) /\ e.kind # "node"
      /\ \A m : e = ChunkTask(m) <=> m = n
  BY <1>1 DEF ChunkTask
<1>3. r \in Seq(TaskSet) /\ QueuedIn(r) = QueuedIn(q) /\ (QueuedOnce(q) => QueuedOnce(r))
  <2>1. QueuedIn(q) = QueuedIn(r) \cup (IF e.kind = "node" THEN {e.node} ELSE {})
    BY <1>2, QueueShrinks
  <2>2. r \in Seq(TaskSet) /\ (QueuedOnce(q) => QueuedOnce(r))
    BY <1>2, QueueShrinks
  <2> QED
    BY <1>2, <2>1, <2>2
<1>4. ASSUME NEW m \in Nodes PROVE chunks'[m] = chunks[m]
  <2>1. /\ e = ChunkTask(m) => Cardinality(ChunksIn(q, m)) = Cardinality(ChunksIn(r, m)) + 1
        /\ e # ChunkTask(m) => Cardinality(ChunksIn(q, m)) = Cardinality(ChunksIn(r, m))
    BY <1>2, ChunksShrink
  <2>2. RunningChunks(m)' = IF m = n THEN RunningChunks(m) \cup {w} ELSE RunningChunks(m)
    BY DEF RunningChunks, TypeOK
  <2>3. w \notin RunningChunks(m)
    BY DEF RunningChunks
  <2>4. PICK R : R = RunningChunks(m)
    OBVIOUS
  <2>5. IsFiniteSet(R)
    BY <2>4, ChunkCounts
  <2>6. Cardinality(R \cup {w}) = Cardinality(R) + 1
    BY <2>3, <2>4, <2>5, FS_AddElement
  <2>7. Cardinality(RunningChunks(m)') = Cardinality(R) + (IF m = n THEN 1 ELSE 0)
    <3>1. Cardinality(R) \in Nat
      BY <2>5, FS_CardinalityType
    <3> QED
      BY <2>2, <2>4, <2>6, <3>1
  <2>8. PICK a \in Nat, b \in Nat, c \in Nat :
            a = arrived[m] /\ b = Cardinality(ChunksIn(r, m)) /\ c = Cardinality(R)
    BY <1>3, <2>4, ChunkCounts, QueueTypes DEF NumRunning
  <2>9. chunks[m] = a + (b + (IF m = n THEN 1 ELSE 0)) + c
    BY <1>1, <1>2, <2>1, <2>4, <2>8, ChunkCounts DEF QueuedChunks, NumRunning
  <2>10. chunks'[m] = arrived'[m] + Cardinality(ChunksIn(tasks', m)) + Cardinality(RunningChunks(m)')
    BY DEF chunks, ChunksOf
  <2>11. chunks'[m] = a + b + (c + (IF m = n THEN 1 ELSE 0))
    BY <1>1, <2>7, <2>8, <2>10
  <2>12. PICK d \in Nat : d = IF m = n THEN 1 ELSE 0
    OBVIOUS
  <2>13. chunks[m] = a + (b + d) + c
    BY <2>9, <2>12
  <2>14. chunks'[m] = a + b + (c + d)
    BY <2>11, <2>12
  <2> QED
    BY <2>13, <2>14
<1> QED
  BY <1>1, <1>3, <1>4

\* chunk_returns()
LEMMA ChunkArrives ==
    ASSUME TypeOK, NEW w \in Workers, chunk_returns(w)
    PROVE  /\ \A m \in Nodes : chunks'[m] = chunks[m]
           /\ chunk_of[w] \in Nodes
           /\ arrived[chunk_of[w]] + 1 <= chunks[chunk_of[w]]
<1>1. PICK n \in Nodes : n = chunk_of[w]
  BY DEF TypeOK
<1>2. /\ tasks' = tasks /\ job[w] = "chunk" /\ job' = [job EXCEPT ![w] = "returned"]
      /\ arrived' = [arrived EXCEPT ![n] = @ + 1]
      /\ \A v \in Workers \ {w} : chunk_of'[v] = chunk_of[v]
  BY <1>1 DEF chunk_returns, TypeOK
<1>3. ASSUME NEW m \in Nodes
      PROVE  /\ chunks'[m] = chunks[m]
             /\ m = n => arrived[n] + 1 <= chunks[n]
  <2>1. PICK R : R = RunningChunks(m)'
    OBVIOUS
  <2>2. RunningChunks(m) = IF m = n THEN R \cup {w} ELSE R
    BY <1>1, <1>2, <2>1 DEF RunningChunks, TypeOK
  <2>3. w \notin R
    BY <1>2, <2>1 DEF RunningChunks, TypeOK
  <2>4. IsFiniteSet(R) /\ Cardinality(R) \in Nat
    BY <2>2, ChunkCounts, FS_Subset, FS_CardinalityType
  <2>5. Cardinality(R \cup {w}) = Cardinality(R) + 1
    BY <2>3, <2>4, FS_AddElement
  <2>6. Cardinality(RunningChunks(m)) = Cardinality(R) + (IF m = n THEN 1 ELSE 0)
    BY <2>2, <2>4, <2>5
  <2>7. PICK a \in Nat, b \in Nat, c \in Nat :
            a = arrived[m] /\ b = Cardinality(ChunksIn(tasks, m)) /\ c = Cardinality(R)
    BY <2>4, ChunkCounts DEF QueuedChunks
  <2>8. chunks[m] = a + b + (c + (IF m = n THEN 1 ELSE 0))
    BY <2>6, <2>7, ChunkCounts DEF QueuedChunks, NumRunning
  <2>9. arrived'[m] = a + (IF m = n THEN 1 ELSE 0)
    BY <1>2, <2>7 DEF TypeOK
  <2>10. chunks'[m] = arrived'[m] + Cardinality(ChunksIn(tasks', m)) + Cardinality(RunningChunks(m)')
    BY DEF chunks, ChunksOf
  <2>11. chunks'[m] = (a + (IF m = n THEN 1 ELSE 0)) + b + c
    BY <1>2, <2>1, <2>7, <2>9, <2>10
  <2> QED
    BY <2>7, <2>8, <2>11
<1> QED
  BY <1>1, <1>3

\* leave_barrier1() and leave_barrier2(): all chunks have arrived.
LEMMA ChunksAreGone ==
    ASSUME TypeOK, NEW n \in Nodes, arrived[n] = chunks[n],
           arrived' = [arrived EXCEPT ![n] = 0], UNCHANGED <<tasks, job, chunk_of>>
    PROVE  \A m \in Nodes : chunks'[m] = IF m = n THEN 0 ELSE chunks[m]
<1> TAKE m \in Nodes
<1>1. PICK a \in Nat, b \in Nat, c \in Nat :
          a = arrived[m] /\ b = Cardinality(ChunksIn(tasks, m)) /\ c = Cardinality(RunningChunks(m))
  BY ChunkCounts DEF QueuedChunks, NumRunning
<1>2. chunks[m] = a + b + c
  BY <1>1, ChunkCounts DEF QueuedChunks, NumRunning
<1>3. RunningChunks(m)' = RunningChunks(m)
  BY SameRunning
<1>4. chunks'[m] = arrived'[m] + Cardinality(ChunksIn(tasks', m)) + Cardinality(RunningChunks(m)')
  BY DEF chunks, ChunksOf
<1>5. arrived'[m] = IF m = n THEN 0 ELSE a
  BY <1>1 DEF TypeOK
<1>6. chunks'[m] = (IF m = n THEN 0 ELSE a) + b + c
  BY <1>1, <1>3, <1>4, <1>5
<1> QED
  BY <1>1, <1>2, <1>6

\* A step of t that goes on with the round of n, or ends it.
LEMMA RoundsKept ==
    ASSUME NEW s, NEW p, NEW c, RoundsAreRight(s, p, c), NEW s2, NEW p2, NEW c2,
           NEW t \in Threads, NEW n \in Nodes,
           \A u \in Threads \ {t} :
               s2[u] = s[u] /\ (s[u] # <<>> => Head(s[u]).node \in Nodes \ {n}),
           \A m \in Nodes \ {n} : c2[m] = c[m] /\ (p[m] \in RoundStages => p2[m] \in RoundStages),
           s2[t] # <<>> => RoundIsRight(Head(s2[t]), c2),
           p2[n] \notin RoundStages => c2[n] = 0
    PROVE  RoundsAreRight(s2, p2, c2)
<1>1. ASSUME NEW u \in Threads, s2[u] # <<>> PROVE RoundIsRight(Head(s2[u]), c2)
  <2>1. CASE u = t
    BY <1>1, <2>1
  <2>2. CASE u # t
    <3>1. RoundIsRight(Head(s[u]), c) /\ s2[u] = s[u] /\ c2[Head(s[u]).node] = c[Head(s[u]).node]
      BY <1>1, <2>2 DEF RoundsAreRight
    <3> QED
      BY <3>1 DEF RoundIsRight
  <2> QED
    BY <2>1, <2>2
<1>2. ASSUME NEW m \in Nodes, p2[m] \notin RoundStages PROVE c2[m] = 0
  BY <1>2 DEF RoundsAreRight
<1> QED
  BY <1>1, <1>2 DEF RoundsAreRight

\* A step of t that ends no round and is in none.
LEMMA NoRound ==
    ASSUME NEW s, NEW p, NEW c, RoundsAreRight(s, p, c), NEW s2, NEW p2,
           NEW t \in Threads, \A u \in Threads \ {t} : s2[u] = s[u],
           \A m \in Nodes : p[m] \in RoundStages => p2[m] \in RoundStages,
           s2[t] # <<>> => Head(s2[t]).stage \notin RoundStages
    PROVE  RoundsAreRight(s2, p2, c)
<1>1. ASSUME NEW u \in Threads, s2[u] # <<>> PROVE RoundIsRight(Head(s2[u]), c)
  <2>1. CASE u = t
    BY <1>1, <2>1 DEF RoundIsRight, RoundStages
  <2>2. CASE u # t
    BY <1>1, <2>2 DEF RoundsAreRight
  <2> QED
    BY <2>1, <2>2
<1> QED
  BY <1>1 DEF RoundsAreRight

\* Only the innermost call of a thread is in a round.
LEMMA RoundIsInnermost ==
    ASSUME NEW s \in Seq(Frames), Linked(s), NEW i \in DOMAIN s, s[i].stage \in RoundStages
    PROVE  s # <<>> /\ s[i] = Head(s) /\ Head(s) \in Frames
<1>1. DOMAIN s = 1..Len(s) /\ Len(s) \in Nat
  BY LenProperties
<1>2. s # <<>> /\ Head(s) = s[1] /\ Head(s) \in Frames
  BY <1>1, EmptySeq, HeadTailProperties
<1>3. CASE i # 1
  <2>1. i - 1 \in DOMAIN s /\ (i - 1) + 1 \in DOMAIN s /\ s[(i - 1) + 1] = s[i]
    BY <1>1, <1>3
  <2>2. CallOf(s[i], s[i - 1].node)
    BY <2>1 DEF Linked
  <2> QED
    BY <2>2 DEF CallOf, RoundStages
<1> QED
  BY <1>2, <1>3

-----------------------------------------------------------------------------
(* The steps of create_build_node(), the tree and the rounds.              *)

\* A task for a node is added; the chunks are where they were.
LEMMA NodeIsAdded ==
    ASSUME TypeOK, QueuedOnce(tasks), NEW r \in Nodes, NEW k \in ThreadCounts,
           r \notin QueuedIn(tasks), tasks' = Append(tasks, NodeTask(r, k)),
           UNCHANGED <<job, chunk_of, arrived>>
    PROVE  /\ chunks' = chunks
           /\ tasks' \in Seq(TaskSet) /\ QueuedIn(tasks') = QueuedIn(tasks) \cup {r}
           /\ QueuedOnce(tasks')
<1>1. PICK q, e, z : q \in Seq(TaskSet) /\ q = tasks /\ e = NodeTask(r, k) /\ z = tasks'
  BY DEF TypeOK
<1>2. q \in Seq(TaskSet) /\ e \in TaskSet /\ e.kind = "node" /\ e.node = r /\ z = Append(q, e)
      /\ \A m \in Nodes : e # ChunkTask(m)
  BY <1>1 DEF ChunkTask, NodeTask, TaskSet
<1>3. QueuedIn(z) = QueuedIn(q) \cup {r}
  BY <1>2, QueueGrows
<1>4. z \in Seq(TaskSet) /\ QueuedOnce(z)
  <2>1. QueuedOnce(q) /\ e.node \notin QueuedIn(q)
    BY <1>1, <1>2
  <2> QED
    BY <1>2, <2>1, QueueGrows
<1>5. \A m \in Nodes : Cardinality(ChunksIn(z, m)) = Cardinality(ChunksIn(q, m))
  <2> TAKE m \in Nodes
  <2>1. e # ChunkTask(m)
    BY <1>2
  <2> QED
    BY <1>2, <2>1, ChunksGrow
<1>6. \A m \in Nodes : RunningChunks(m)' = RunningChunks(m)
  BY SameRunning
<1>7. chunks' = chunks
  BY <1>1, <1>5, <1>6, SameChunks
<1> QED
  BY <1>1, <1>3, <1>4, <1>7

LEMMA QuietChunks == UNCHANGED <<tasks, job, chunk_of, arrived>> => chunks' = chunks
<1> SUFFICES ASSUME UNCHANGED <<tasks, job, chunk_of, arrived>> PROVE chunks' = chunks
  OBVIOUS
<1>1. \A m \in Nodes : RunningChunks(m)' = RunningChunks(m)
  BY SameRunning
<1> QED
  BY <1>1, SameChunks

\* What each step leads to.
Grown ==
    /\ Structure'
    /\ TreeIsRight(phase', built', ready')
    /\ RoundsAreRight(stack', phase', chunks')
    /\ phase[1] \in Stages => phase'[1] \in Stages

LEMMA IInvSays ==
    ASSUME IInv
    PROVE  /\ Structure /\ TypeOK /\ HeldOnce /\ RestOK
           /\ TreeIsRight(phase, built, ready)
           /\ RoundsAreRight(stack, phase, chunks)
           /\ phase \in [Nodes -> Phases] /\ built \in [Nodes -> Nat]
           /\ ready \in SUBSET Nodes
           /\ 1 \in Nodes
           /\ QueuedOnce(tasks) /\ tasks \in Seq(TaskSet)
           /\ \A n \in Nodes : phase[n] = "queued" <=> n \in QueuedIn(tasks)
<1>1. Structure /\ TypeOK /\ HeldOnce /\ TreeIsRight(phase, built, ready)
      /\ RoundsAreRight(stack, phase, chunks)
  BY DEF IInv, Structure
<1>2. RestOK
  BY <1>1 DEF TypeOK, RestOK
<1>3. PhasesAre(phase)
  BY <1>1, PhaseIsRight
<1>4. 1 \in Nodes
  BY NodesAssumption
<1> QED
  BY <1>1, <1>2, <1>3, <1>4 DEF RestOK, PhasesAre, HeldOnce

\* The call a thread is at.
LEMMA AtCall ==
    ASSUME IInv, NEW t \in Threads, NEW stage, At(t, stage)
    PROVE  \E f, c, n : /\ Innermost(t, f, c) /\ stack[t] # <<>>
                        /\ f = Head(stack[t]) /\ c = Tail(stack[t]) /\ f \in Frames
                        /\ n = f.node /\ n = Node(t) /\ f.stage = stage
                        /\ n \in Nodes /\ phase[n] = stage
<1>1. stack[t] # <<>> /\ Head(stack[t]).stage = stage
  BY DEF At
<1>2. PICK f, c : f = Head(stack[t]) /\ c = Tail(stack[t])
  OBVIOUS
<1>3. Innermost(t, f, c)
  BY <1>1, <1>2, InnermostCall, IInvSays
<1>4. f.node \in Nodes /\ phase[f.node] = f.stage /\ f \in Frames
  BY <1>3 DEF Innermost
<1> QED
  BY <1>1, <1>2, <1>3, <1>4 DEF Node

\* The innermost call goes on, in a round or not.
LEMMA RoundStep ==
    ASSUME IInv, RestOK', NEW t \in Threads, NEW f, NEW c, Innermost(t, f, c),
           NEW n, n = f.node, NEW h, NEW q, GoesOn(t, h, n, q),
           \A m \in Nodes \ {n} : chunks'[m] = chunks[m],
           RoundIsRight(h, chunks'), h.stage \notin RoundStages => chunks'[n] = 0,
           TreeIsRight(q, built', ready')
    PROVE  Grown
<1>1. Structure' /\ phase' = q /\ Head(stack'[t]) = h
  BY IInvSays, StageStep
<1>2. n \in Nodes /\ n \in NodesOf(stack[t])
  BY DEF Innermost
<1>3. h.stage \in Stages /\ \A m \in Nodes : q[m] = IF m = n THEN h.stage ELSE phase[m]
  BY <1>2, IInvSays, FrameFields DEF GoesOn
<1>4. ASSUME NEW u \in Threads \ {t}
      PROVE  stack'[u] = stack[u] /\ (stack[u] # <<>> => Head(stack[u]).node \in Nodes \ {n})
  <2>1. stack'[u] = stack[u]
    BY IInvSays DEF GoesOn, TypeOK
  <2>2. ASSUME stack[u] # <<>> PROVE Head(stack[u]).node \in Nodes \ {n}
    <3>1. Innermost(u, Head(stack[u]), Tail(stack[u]))
      BY <2>2, IInvSays, InnermostCall
    <3>2. Head(stack[u]).node \in NodesOf(stack[u]) /\ Head(stack[u]).node \in Nodes
      BY <3>1 DEF Innermost
    <3> QED
      BY <1>2, <3>2, IInvSays DEF HeldOnce
  <2> QED
    BY <2>1, <2>2
<1>5. RoundsAreRight(stack', phase', chunks')
  <2>1. PICK s, p, d, s2, p2, d2 : /\ s = stack /\ p = phase /\ d = chunks
                                   /\ s2 = stack' /\ p2 = phase' /\ d2 = chunks'
    OBVIOUS
  <2>2. \A m \in Nodes \ {n} : d2[m] = d[m] /\ (p[m] \in RoundStages => p2[m] \in RoundStages)
    BY <1>1, <1>3, <2>1
  <2>3. s2[t] # <<>> => RoundIsRight(Head(s2[t]), d2)
    BY <1>1, <2>1
  <2>4. p2[n] \notin RoundStages => d2[n] = 0
    BY <1>1, <1>2, <1>3, <2>1
  <2>5. \A u \in Threads \ {t} :
            s2[u] = s[u] /\ (s[u] # <<>> => Head(s[u]).node \in Nodes \ {n})
    BY <1>4, <2>1
  <2>6. RoundsAreRight(s, p, d) /\ n \in Nodes
    BY <1>2, <2>1, IInvSays
  <2>7. RoundsAreRight(s2, p2, d2)
    BY <2>2, <2>3, <2>4, <2>5, <2>6, RoundsKept
  <2> QED
    BY <2>1, <2>7
<1>6. phase[1] \in Stages => phase'[1] \in Stages
  BY <1>1, <1>3, IInvSays
<1> QED
  BY <1>1, <1>5, <1>6 DEF Grown

\* The same, without a round.
LEMMA QuietStep ==
    ASSUME IInv, RestOK', NEW t \in Threads, NEW f, NEW c, Innermost(t, f, c),
           NEW n, n = f.node, NEW h, NEW q, GoesOn(t, h, n, q), chunks' = chunks,
           phase[n] \notin RoundStages, h.stage \notin RoundStages,
           TreeIsRight(q, built', ready')
    PROVE  Grown
<1>1. n \in Nodes
  BY DEF Innermost
<1>2. chunks[n] = 0
  BY <1>1, IInvSays DEF RoundsAreRight
<1>3. RoundIsRight(h, chunks')
  BY DEF RoundIsRight, RoundStages
<1> QED
  BY <1>2, <1>3, RoundStep

\* The innermost call calls itself.
LEMMA CallStep ==
    ASSUME IInv, RestOK', NEW t \in Threads, NEW f, NEW c, Innermost(t, f, c),
           NEW g, g.node = f.node, NEW h, NEW Q, NEW q, Begins(t, g, h, Q, q),
           chunks' = chunks, phase[f.node] \notin RoundStages,
           TreeIsRight(q, built', ready')
    PROVE  Grown
<1>1. Structure' /\ phase' = q /\ Head(stack'[t]) = h
  BY IInvSays, BeginStep
<1>2. PICK n, k : n = g.node /\ k = h.node
  OBVIOUS
<1>3. /\ h.stage = "create" /\ g.stage \in Stages /\ phase[k] = "none"
      /\ \A m \in Q : phase[m] = "none"
      /\ \A m \in Nodes : q[m] = IF m = n THEN g.stage ELSE IF m = k THEN "create"
                                 ELSE IF m \in Q THEN "queued" ELSE phase[m]
  BY <1>2, FrameFields DEF Begins
<1>4. \A u \in Threads \ {t} : stack'[u] = stack[u]
  BY IInvSays DEF Begins, TypeOK
<1>5. \A m \in Nodes : phase[m] \in RoundStages => phase'[m] \in RoundStages
  BY <1>1, <1>2, <1>3 DEF RoundStages
<1>6. RoundsAreRight(stack', phase', chunks')
  <2>1. stack'[t] # <<>> => Head(stack'[t]).stage \notin RoundStages
    BY <1>1, <1>3 DEF RoundStages
  <2>2. RoundsAreRight(stack', phase', chunks)
    BY <1>4, <1>5, <2>1, IInvSays, NoRound
  <2> QED
    BY <2>2
<1>7. phase[1] \in Stages => phase'[1] \in Stages
  BY <1>1, <1>3, IInvSays, StagesAreNoOtherPhases DEF Stages
<1> QED
  BY <1>1, <1>6, <1>7 DEF Grown

-----------------------------------------------------------------------------
(* The calls for one thread.                                               *)

LEMMA CreateLeafStep ==
    ASSUME IInv, NEW t \in Threads, create_leaf(t)
    PROVE  Grown
<1>1. At(t, "create")
  BY DEF create_leaf
<1>2. PICK f, c, n : /\ Innermost(t, f, c) /\ f = Head(stack[t]) /\ f \in Frames
                     /\ n = f.node /\ n = Node(t) /\ n \in Nodes /\ phase[n] = "create"
  BY <1>1, AtCall
<1>3. /\ stack' = [stack EXCEPT ![t] = SetStage(@, "done")]
      /\ built' = [built EXCEPT ![n] = @ + 1]
      /\ UNCHANGED <<tasks, job, chunk_of, arrived, ready, done>>
  BY <1>2 DEF create_leaf, NextNode
<1>4. RestOK'
  <2>1. built' \in [Nodes -> Nat]
    BY <1>2, <1>3, IInvSays
  <2> QED
    BY <1>3, <2>1, IInvSays DEF RestOK
<1>5. PICK h, q : h = [f EXCEPT !.stage = "done"] /\ q = [phase EXCEPT ![n] = "done"]
  OBVIOUS
<1>6. h \in Frames /\ h.node = n /\ h.stage = "done"
  BY <1>2, <1>5, FrameAt DEF Stages
<1>7. GoesOn(t, h, n, q)
  <2>1. stack' = [stack EXCEPT ![t] = <<h>> \o Tail(stack[t])]
    BY <1>2, <1>3, <1>5 DEF SetStage
  <2> QED
    BY <1>3, <1>5, <1>6, <2>1, IInvSays DEF GoesOn
<1>8. TreeIsRight(q, built', ready')
  BY <1>2, <1>3, <1>5, IInvSays, NodeCreated
<1>9. phase[n] \notin RoundStages /\ h.stage \notin RoundStages /\ chunks' = chunks
  BY <1>2, <1>3, <1>6, QuietChunks DEF RoundStages
<1> QED
  BY <1>2, <1>4, <1>7, <1>8, <1>9, QuietStep

\* The halves of a node before any of them is begun.
LEMMA HalvesAreUntouched ==
    ASSUME IInv, NEW n \in Nodes, MaySplit(n), phase[n] \in {"create", "fork", "async"}
    PROVE  /\ phase[2 * n] = "none" /\ phase[2 * n + 1] = "none"
           /\ 2 * n \in Nodes /\ 2 * n + 1 \in Nodes
           /\ 2 * n # n /\ 2 * n + 1 # n /\ 2 * n # 2 * n + 1
           /\ 2 * n # 1 /\ 2 * n + 1 # 1
<1>1. NodeIsRight(phase, built, n)
  BY DEF IInv, TreeIsRight
<1> QED
  BY <1>1, ChildrenAreNodes DEF NodeIsRight, HalvesAreRight, BeforeHalves, Untouched

LEMMA DecideForkStep ==
    ASSUME IInv, NEW t \in Threads, decide_fork(t)
    PROVE  Grown
<1>1. At(t, "create")
  BY DEF decide_fork
<1>2. PICK f, c, n : /\ Innermost(t, f, c) /\ f = Head(stack[t]) /\ f \in Frames
                     /\ n = f.node /\ n = Node(t) /\ n \in Nodes /\ phase[n] = "create"
  BY <1>1, AtCall
<1>3. /\ built' = [built EXCEPT ![n] = @ + 1] /\ MaySplit(n)
      /\ UNCHANGED <<tasks, job, chunk_of, arrived, ready, done>>
  BY <1>2 DEF decide_fork, NextNode
<1>4. RestOK'
  <2>1. built' \in [Nodes -> Nat]
    BY <1>2, <1>3, IInvSays
  <2> QED
    BY <1>3, <2>1, IInvSays DEF RestOK
<1>5. phase[n] \notin RoundStages /\ chunks' = chunks
  BY <1>2, <1>3, QuietChunks DEF RoundStages
<1>6. CASE stack' = [stack EXCEPT ![t] = SetStage(@, "fork")]
  <2>1. PICK h, q : h = [f EXCEPT !.stage = "fork"] /\ q = [phase EXCEPT ![n] = "fork"]
    OBVIOUS
  <2>2. h \in Frames /\ h.node = n /\ h.stage = "fork"
    BY <1>2, <2>1, FrameAt DEF Stages
  <2>3. GoesOn(t, h, n, q)
    <3>1. stack' = [stack EXCEPT ![t] = <<h>> \o Tail(stack[t])]
      BY <1>2, <1>6, <2>1 DEF SetStage
    <3> QED
      BY <1>3, <2>1, <2>2, <3>1, IInvSays DEF GoesOn
  <2>4. TreeIsRight(q, built', ready')
    BY <1>2, <1>3, <2>1, IInvSays, NodeCreated
  <2>5. h.stage \notin RoundStages
    BY <2>2 DEF RoundStages
  <2> QED
    BY <1>2, <1>4, <1>5, <2>3, <2>4, <2>5, QuietStep
<1>7. CASE stack' = [stack EXCEPT ![t] = Call(SetStage(@, "left"), 2 * Node(t), 1)]
  <2>1. PICK k : k = 2 * n
    OBVIOUS
  <2>2. k \in Nodes /\ k # n /\ phase[k] = "none"
    BY <1>2, <1>3, <2>1, HalvesAreUntouched
  <2>3. PICK g, h, q : /\ g = [f EXCEPT !.stage = "left"] /\ h = Frame(k, 1)
                       /\ q = [phase EXCEPT ![n] = "left", ![k] = "create"]
    OBVIOUS
  <2>4. g \in Frames /\ g.node = n /\ g.stage = "left"
    BY <1>2, <2>3, FrameAt DEF Stages
  <2>5. h \in Frames /\ h.node = k /\ h.stage = "create"
    <3>1. 1 \in ThreadCounts
      BY NumThreadsIsNat
    <3> QED
      BY <2>2, <2>3, <3>1, NewFrame
  <2>6. /\ q \in [Nodes -> Phases]
        /\ \A m \in Nodes : q[m] = IF m = n THEN "left" ELSE IF m = k THEN "create"
                                   ELSE IF m \in {} THEN "queued" ELSE phase[m]
    BY <1>2, <2>2, <2>3, IInvSays DEF Phases, Stages
  <2>7. CallOf(g, k)
    BY <2>1, <2>4 DEF CallOf
  <2>8. Begins(t, g, h, {}, q)
    <3>1. stack' = [stack EXCEPT ![t] = <<h>> \o (<<g>> \o Tail(stack[t]))]
      BY <1>2, <1>7, <2>1, <2>3 DEF SetStage, Call
    <3>2. QueuedIn(tasks') = QueuedIn(tasks) \cup {} /\ QueuedOnce(tasks')
          /\ {} \subseteq Nodes \ {n, k} /\ \A m \in {} : phase[m] = "none"
      BY <1>3, IInvSays
    <3> QED
      BY <1>3, <2>2, <2>4, <2>5, <2>6, <2>7, <3>1, <3>2 DEF Begins
  <2>9. TreeIsRight(q, built', ready')
    BY <1>2, <1>3, <2>1, <2>3, IInvSays, LeftBegun
  <2> QED
    BY <1>2, <1>4, <1>5, <2>4, <2>8, <2>9, CallStep
<1> QED
  BY <1>6, <1>7 DEF decide_fork

\* async_right() and async_right_half(): the right half is queued.
LEMMA AsyncStep ==
    ASSUME IInv, NEW t \in Threads, NEW stage \in {"fork", "async"}, At(t, stage),
           NEW k1 \in ThreadCounts, NEW k2 \in ThreadCounts,
           tasks' = Append(tasks, NodeTask(2 * Node(t) + 1, k2)),
           stack' = [stack EXCEPT ![t] = Call(SetStage(@, "forked"), 2 * Node(t), k1)],
           UNCHANGED <<job, chunk_of, arrived, ready, built, done>>
    PROVE  Grown
<1>1. PICK f, c, n : /\ Innermost(t, f, c) /\ f = Head(stack[t]) /\ f \in Frames
                     /\ n = f.node /\ n = Node(t) /\ n \in Nodes /\ phase[n] = stage
  BY AtCall
<1>2. MaySplit(n)
  BY <1>1 DEF IInv, TreeIsRight, NodeIsRight
<1>3. PICK k, r : k = 2 * n /\ r = 2 * n + 1
  OBVIOUS
<1>4. /\ k \in Nodes /\ r \in Nodes /\ k # n /\ r # n /\ k # r
      /\ phase[k] = "none" /\ phase[r] = "none"
  BY <1>1, <1>2, <1>3, HalvesAreUntouched
<1>5. r \notin QueuedIn(tasks)
  BY <1>4, IInvSays
<1>6. /\ chunks' = chunks /\ tasks' \in Seq(TaskSet)
      /\ QueuedIn(tasks') = QueuedIn(tasks) \cup {r} /\ QueuedOnce(tasks')
  BY <1>1, <1>3, <1>4, <1>5, IInvSays, NodeIsAdded
<1>7. RestOK'
  BY <1>6, IInvSays DEF RestOK
<1>8. PICK g, h, q : /\ g = [f EXCEPT !.stage = "forked"] /\ h = Frame(k, k1)
                     /\ q = [phase EXCEPT ![n] = "forked", ![k] = "create", ![r] = "queued"]
  OBVIOUS
<1>9. g \in Frames /\ g.node = n /\ g.stage = "forked"
  BY <1>1, <1>8, FrameAt DEF Stages
<1>10. h \in Frames /\ h.node = k /\ h.stage = "create"
  BY <1>4, <1>8, NewFrame
<1>11. /\ q \in [Nodes -> Phases]
       /\ \A m \in Nodes : q[m] = IF m = n THEN "forked" ELSE IF m = k THEN "create"
                                  ELSE IF m \in {r} THEN "queued" ELSE phase[m]
  BY <1>1, <1>4, <1>8, IInvSays DEF Phases, Stages
<1>12. CallOf(g, k)
  BY <1>3, <1>9 DEF CallOf
<1>13. Begins(t, g, h, {r}, q)
  <2>1. stack' = [stack EXCEPT ![t] = <<h>> \o (<<g>> \o Tail(stack[t]))]
    BY <1>1, <1>3, <1>8 DEF SetStage, Call
  <2>2. {r} \subseteq Nodes \ {n, k} /\ \A m \in {r} : phase[m] = "none"
    BY <1>4
  <2> QED
    BY <1>4, <1>6, <1>9, <1>10, <1>11, <1>12, <2>1, <2>2 DEF Begins
<1>14. TreeIsRight(q, built', ready')
  <2>1. TreeIsRight(q, built, ready)
    BY <1>1, <1>3, <1>8, IInvSays, BothBegun
  <2> QED
    BY <2>1
<1>15. phase[f.node] \notin RoundStages
  BY <1>1 DEF RoundStages
<1> QED
  BY <1>1, <1>6, <1>7, <1>9, <1>13, <1>14, <1>15, CallStep

LEMMA AsyncRightStep ==
    ASSUME IInv, NEW t \in Threads, async_right(t)
    PROVE  Grown
<1>1. 1 \in ThreadCounts
  BY NumThreadsIsNat
<1> QED
  BY <1>1, AsyncStep DEF async_right, add_task

LEMMA GetRightStep ==
    ASSUME IInv, NEW t \in Threads, get_right(t)
    PROVE  Grown
<1>1. At(t, "get")
  BY DEF get_right
<1>2. PICK f, c, n : /\ Innermost(t, f, c) /\ f = Head(stack[t]) /\ f \in Frames
                     /\ n = f.node /\ n = Node(t) /\ n \in Nodes /\ phase[n] = "get"
  BY <1>1, AtCall
<1>3. /\ stack' = [stack EXCEPT ![t] = SetStage(@, "done")]
      /\ 2 * n + 1 \in ready
      /\ UNCHANGED <<tasks, job, chunk_of, arrived, ready, built, done>>
  BY <1>2 DEF get_right, RightSideReady
<1>4. RestOK'
  BY <1>3, IInvSays DEF RestOK
<1>5. PICK h, q : h = [f EXCEPT !.stage = "done"] /\ q = [phase EXCEPT ![n] = "done"]
  OBVIOUS
<1>6. h \in Frames /\ h.node = n /\ h.stage = "done"
  BY <1>2, <1>5, FrameAt DEF Stages
<1>7. GoesOn(t, h, n, q)
  <2>1. stack' = [stack EXCEPT ![t] = <<h>> \o Tail(stack[t])]
    BY <1>2, <1>3, <1>5 DEF SetStage
  <2> QED
    BY <1>3, <1>5, <1>6, <2>1, IInvSays DEF GoesOn
<1>8. TreeIsRight(q, built', ready')
  <2>1. TreeIsRight(q, built, ready)
    BY <1>2, <1>3, <1>5, IInvSays, NodeGoesOn
  <2> QED
    BY <1>3, <2>1
<1>9. phase[n] \notin RoundStages /\ h.stage \notin RoundStages /\ chunks' = chunks
  BY <1>2, <1>3, <1>6, QuietChunks DEF RoundStages
<1> QED
  BY <1>2, <1>4, <1>7, <1>8, <1>9, QuietStep

\* The innermost call returns to the one around it, which goes on.
LEMMA BackStep ==
    ASSUME IInv, RestOK', NEW t \in Threads, NEW f, NEW c, Innermost(t, f, c),
           NEW g, NEW h, NEW q, Returns(t, f, c, g, h, q), chunks' = chunks,
           f.stage = "done", g.stage \notin RoundStages, phase[g.node] = g.stage,
           h.stage \notin RoundStages, f.node # 1, TreeIsRight(q, built', ready')
    PROVE  Grown
<1>1. Structure' /\ phase' = q /\ Head(stack'[t]) = h
  BY IInvSays, ReturnStep
<1>2. PICK n, k : n = g.node /\ k = f.node
  OBVIOUS
<1>3. /\ h.stage \in Stages /\ phase[k] = "done" /\ phase[n] \notin RoundStages
      /\ \A m \in Nodes : q[m] = IF m = n THEN h.stage ELSE IF m = k THEN "none" ELSE phase[m]
  BY <1>2, FrameFields DEF Returns, Innermost
<1>4. \A u \in Threads \ {t} : stack'[u] = stack[u]
  BY IInvSays DEF Returns, TypeOK
<1>5. \A m \in Nodes : phase[m] \in RoundStages => phase'[m] \in RoundStages
  BY <1>1, <1>3 DEF RoundStages
<1>6. RoundsAreRight(stack', phase', chunks)
  <2>1. stack'[t] # <<>> => Head(stack'[t]).stage \notin RoundStages
    BY <1>1
  <2> QED
    BY <1>4, <1>5, <2>1, IInvSays, NoRound
<1>7. phase[1] \in Stages => phase'[1] \in Stages
  BY <1>1, <1>2, <1>3, IInvSays
<1> QED
  BY <1>1, <1>6, <1>7 DEF Grown

LEMMA BackToRightStep ==
    ASSUME IInv, RestOK', NEW t \in Threads, NEW f, NEW c, Innermost(t, f, c),
           NEW g, NEW h, NEW e, NEW q, ReturnsToRight(t, f, c, g, h, e, q), chunks' = chunks,
           f.stage = "done", g.stage \notin RoundStages, phase[g.node] = g.stage,
           f.node # 1, TreeIsRight(q, built', ready')
    PROVE  Grown
<1>1. Structure' /\ phase' = q /\ Head(stack'[t]) = e
  BY IInvSays, RightStep
<1>2. PICK n, k, r : n = g.node /\ k = f.node /\ r = e.node
  OBVIOUS
<1>3. /\ h.stage \in Stages /\ e.stage = "create"
      /\ phase[k] = "done" /\ phase[n] \notin RoundStages /\ phase[r] = "none"
      /\ \A m \in Nodes : q[m] = IF m = n THEN h.stage ELSE IF m = k THEN "none"
                                 ELSE IF m = r THEN "create" ELSE phase[m]
  BY <1>2, FrameFields DEF ReturnsToRight, Innermost
<1>4. \A u \in Threads \ {t} : stack'[u] = stack[u]
  BY IInvSays DEF ReturnsToRight, TypeOK
<1>5. \A m \in Nodes : phase[m] \in RoundStages => phase'[m] \in RoundStages
  BY <1>1, <1>3 DEF RoundStages
<1>6. RoundsAreRight(stack', phase', chunks)
  <2>1. stack'[t] # <<>> => Head(stack'[t]).stage \notin RoundStages
    BY <1>1, <1>3 DEF RoundStages
  <2> QED
    BY <1>4, <1>5, <2>1, IInvSays, NoRound
<1>7. phase[1] \in Stages => phase'[1] \in Stages
  BY <1>1, <1>2, <1>3, IInvSays, StagesAreNoOtherPhases
<1> QED
  BY <1>1, <1>6, <1>7 DEF Grown

LEMMA ReturnLeftStep ==
    ASSUME IInv, NEW t \in Threads, return_left(t)
    PROVE  Grown
<1>1. At(t, "done")
  BY DEF return_left
<1>2. PICK f, c, k : /\ Innermost(t, f, c) /\ stack[t] # <<>> /\ c = Tail(stack[t])
                     /\ f.stage = "done" /\ k = f.node /\ k \in Nodes /\ phase[k] = "done"
  BY <1>1, AtCall
<1>3. c # <<>> /\ UNCHANGED <<tasks, job, chunk_of, arrived, ready, built, done>>
  BY <1>2 DEF return_left
<1>4. RestOK' /\ chunks' = chunks
  <2>1. RestOK'
    BY <1>3, IInvSays DEF RestOK
  <2> QED
    BY <1>3, <2>1, QuietChunks
<1>5. PICK g, n : g = Head(c) /\ n = g.node
  OBVIOUS
<1>6. CallOf(g, k)
  BY <1>2, <1>3, <1>5 DEF Innermost
<1>7. n \in Nodes /\ phase[n] = g.stage /\ g \in Frames
  <2>1. c \in Seq(Frames) /\ Distinct(c) /\ Linked(c)
    BY <1>2 DEF Innermost
  <2>2. IsAround(c, g, Tail(c))
    BY <1>3, <1>5, <2>1, AroundHead
  <2>3. n \in NodesOf(c) /\ On(c, n, g.stage)
    BY <1>5, <2>2 DEF IsAround
  <2>4. n \in Nodes /\ On(c, n, phase[n])
    BY <1>2, <2>3 DEF Innermost
  <2>5. g \in Frames
    BY <1>3, <1>5, <2>1, HeadTailProperties
  <2> QED
    BY <2>1, <2>3, <2>4, <2>5, NodesAreInStages
<1>8. NodeIsRight(phase, built, n)
  BY <1>7, IInvSays DEF TreeIsRight
<1>9. MaySplit(n)
  BY <1>6, <1>7, <1>8 DEF CallOf, NodeIsRight
<1>10. /\ 2 * n \in Nodes /\ 2 * n + 1 \in Nodes /\ 2 * n # n /\ 2 * n + 1 # n
       /\ 2 * n # 2 * n + 1 /\ 2 * n # 1 /\ 2 * n + 1 # 1
  BY <1>7, <1>9, ChildrenAreNodes
<1>11. k \in {2 * n, 2 * n + 1} /\ k # 1 /\ k # n
  BY <1>5, <1>6, <1>10 DEF CallOf
<1>12. g.stage \notin RoundStages /\ phase[g.node] = g.stage /\ f.node # 1
  BY <1>2, <1>5, <1>6, <1>7, <1>11 DEF CallOf, RoundStages
<1>13. CASE g.stage = "left"
  <2>1. k = 2 * n
    BY <1>5, <1>6, <1>13 DEF CallOf
  <2>2. PICK r : r = 2 * n + 1
    OBVIOUS
  <2>3. phase[r] = "none"
    BY <1>7, <1>8, <1>9, <1>13, <2>2 DEF NodeIsRight, HalvesAreRight, Untouched
  <2>4. PICK h, e, q : /\ h = [g EXCEPT !.stage = "right"] /\ e = Frame(r, 1)
                       /\ q = [phase EXCEPT ![n] = "right", ![k] = "none", ![r] = "create"]
    OBVIOUS
  <2>5. h \in Frames /\ h.node = n /\ h.stage = "right"
    BY <1>5, <1>7, <2>4, FrameAt DEF Stages
  <2>6. e \in Frames /\ e.node = r /\ e.stage = "create"
    <3>1. 1 \in ThreadCounts
      BY NumThreadsIsNat
    <3> QED
      BY <1>10, <2>2, <2>4, <3>1, NewFrame
  <2>7. /\ q \in [Nodes -> Phases]
        /\ \A m \in Nodes : q[m] = IF m = n THEN "right" ELSE IF m = k THEN "none"
                                   ELSE IF m = r THEN "create" ELSE phase[m]
    BY <1>7, <1>10, <1>11, <2>1, <2>2, <2>4, IInvSays DEF Phases, Stages
  <2>8. CallOf(h, r)
    BY <2>2, <2>5 DEF CallOf
  <2>9. ReturnsToRight(t, f, c, g, h, e, q)
    <3>1. stack' = [stack EXCEPT ![t] = Call(SetStage(c, "right"), r, 1)]
      BY <1>2, <1>5, <1>13, <2>2 DEF return_left
    <3>2. stack' = [stack EXCEPT ![t] = <<e>> \o (<<h>> \o Tail(c))]
      BY <1>5, <2>4, <3>1 DEF Call, SetStage
    <3>3. r # n /\ r # k
      BY <1>10, <2>1, <2>2
    <3> QED
      BY <1>2, <1>3, <1>5, <2>3, <2>5, <2>6, <2>7, <2>8, <3>2, <3>3 DEF ReturnsToRight
  <2>10. TreeIsRight(q, built', ready')
    <3>1. TreeIsRight(q, built, ready)
      BY <1>2, <1>7, <1>13, <2>1, <2>2, <2>4, IInvSays, RightBegun
    <3> QED
      BY <1>3, <3>1
  <2> QED
    BY <1>2, <1>4, <1>12, <2>9, <2>10, BackToRightStep
<1>14. CASE g.stage # "left"
  <2>1. PICK st : st = IF g.stage = "forked" THEN "get" ELSE "done"
    OBVIOUS
  <2>2. stack' = [stack EXCEPT ![t] = SetStage(c, st)]
    <3>1. CASE g.stage = "forked"
      BY <1>2, <1>5, <1>14, <2>1, <3>1 DEF return_left
    <3>2. CASE g.stage # "forked"
      BY <1>2, <1>5, <1>14, <2>1, <3>2 DEF return_left
    <3> QED
      BY <3>1, <3>2
  <2>3. \/ g.stage = "forked" /\ k = 2 * n /\ st = "get"
        \/ g.stage = "right" /\ k = 2 * n + 1 /\ st = "done"
    BY <1>5, <1>6, <1>14, <2>1 DEF CallOf
  <2>4. st \in {"get", "done"} /\ st \in Stages /\ st \notin RoundStages
    BY <2>3 DEF Stages, RoundStages
  <2>5. PICK h, q : h = [g EXCEPT !.stage = st] /\ q = [phase EXCEPT ![n] = st, ![k] = "none"]
    OBVIOUS
  <2>6. h \in Frames /\ h.node = n /\ h.stage = st
    BY <1>5, <1>7, <2>4, <2>5, FrameAt
  <2>7. /\ q \in [Nodes -> Phases]
        /\ \A m \in Nodes : q[m] = IF m = n THEN st ELSE IF m = k THEN "none" ELSE phase[m]
    BY <1>2, <1>7, <1>11, <2>4, <2>5, IInvSays DEF Phases, Stages
  <2>8. Returns(t, f, c, g, h, q)
    <3>1. stack' = [stack EXCEPT ![t] = <<h>> \o Tail(c)]
      BY <1>5, <2>2, <2>5 DEF SetStage
    <3> QED
      BY <1>2, <1>3, <1>5, <2>6, <2>7, <3>1 DEF Returns
  <2>9. TreeIsRight(q, built', ready')
    <3>1. \/ phase[n] = "forked" /\ k = 2 * n /\ st = "get"
          \/ phase[n] = "right" /\ k = 2 * n + 1 /\ st = "done"
      BY <1>7, <2>3
    <3>2. TreeIsRight(q, built, ready)
      BY <1>2, <1>7, <2>4, <2>5, <3>1, IInvSays, HalfReturns
    <3> QED
      BY <1>3, <3>2
  <2> QED
    BY <1>2, <1>4, <1>12, <2>4, <2>6, <2>8, <2>9, BackStep
<1> QED
  BY <1>13, <1>14

LEMMA AsyncRightHalfStep ==
    ASSUME IInv, NEW t \in Threads, async_right_half(t)
    PROVE  Grown
<1>1. At(t, "async")
  BY DEF async_right_half
<1>2. PICK f : f = Head(stack[t]) /\ f \in Frames
  BY <1>1, AtCall
<1>3. PICK k \in Shares \cap 1..(NumFor(t) - 1) :
          /\ tasks' = Append(tasks, NodeTask(2 * Node(t) + 1, NumFor(t) - k))
          /\ stack' = [stack EXCEPT ![t] = Call(SetStage(@, "forked"), 2 * Node(t), k)]
          /\ UNCHANGED <<job, chunk_of, arrived, ready, built, done>>
  BY DEF async_right_half, add_task
<1>4. PICK l : l = NumFor(t)
  OBVIOUS
<1>5. l \in ThreadCounts /\ k \in 1..(l - 1)
  BY <1>2, <1>3, <1>4, FrameFields DEF NumFor
<1>6. k \in ThreadCounts /\ l - k \in ThreadCounts
  BY <1>5, NumThreadsIsNat DEF ThreadCounts
<1> QED
  BY <1>1, <1>3, <1>4, <1>6, AsyncStep

-----------------------------------------------------------------------------
(* The rounds.                                                             *)

\* The call f at the head of a parallel_for, and after it has added a chunk.
InRound(f, stage) == [f EXCEPT !.stage = stage, !.todo = f.threads - 1]
OneLess(f) == [f EXCEPT !.todo = @ - 1]

LEMMA ChunksFrame ==
    ASSUME NEW f \in Frames, f.threads >= 1, NEW stage \in Stages,
           NEW h, h = InRound(f, stage)
    PROVE  /\ h \in Frames /\ h.node = f.node /\ h.stage = stage
           /\ h.threads = f.threads /\ h.todo = f.threads - 1
<1>1. f.threads - 1 \in 0..NumThreads
  BY NumThreadsIsNat, FrameFields DEF ThreadCounts
<1> QED
  BY <1>1 DEF Frames, InRound

LEMMA TodoFrame ==
    ASSUME NEW f \in Frames, f.todo > 0, NEW h, h = OneLess(f)
    PROVE  /\ h \in Frames /\ h.node = f.node /\ h.stage = f.stage
           /\ h.threads = f.threads /\ h.todo = f.todo - 1
<1>1. f.todo - 1 \in 0..NumThreads
  BY NumThreadsIsNat, FrameFields
<1> QED
  BY <1>1 DEF Frames, OneLess

\* A call that is in a round.
LEMMA AtRound ==
    ASSUME IInv, NEW t \in Threads, NEW stage \in RoundStages, At(t, stage)
    PROVE  \E f, c, n : /\ Innermost(t, f, c) /\ f = Head(stack[t]) /\ f \in Frames
                        /\ n = f.node /\ n = Node(t) /\ f.stage = stage
                        /\ n \in Nodes /\ phase[n] = stage
                        /\ f.threads - 1 = f.todo + chunks[n] /\ f.threads >= 1
                        /\ f.threads \in Nat /\ f.todo \in Nat /\ chunks[n] \in Nat
                        /\ stage \in {"barrier1", "barrier2"} => f.todo = 0
                        /\ stage \in {"chunks2", "barrier2"} => MaySplit(n)
<1>1. PICK f, c, n : /\ Innermost(t, f, c) /\ stack[t] # <<>> /\ f = Head(stack[t])
                     /\ f \in Frames /\ n = f.node /\ n = Node(t) /\ f.stage = stage
                     /\ n \in Nodes /\ phase[n] = stage
  BY AtCall
<1>2. RoundIsRight(f, chunks)
  BY <1>1, IInvSays DEF RoundsAreRight
<1>3. f.threads \in Nat /\ f.todo \in Nat
  BY <1>1, FrameFields, NumThreadsIsNat DEF ThreadCounts
<1>4. chunks[n] \in Nat
  BY <1>1, IInvSays, ChunkCounts
<1>5. f.threads - 1 = f.todo + chunks[n] /\ (stage \in {"barrier1", "barrier2"} => f.todo = 0)
  BY <1>1, <1>2 DEF RoundIsRight
<1>6. f.threads >= 1
  BY <1>3, <1>4, <1>5
<1>7. stage \in {"chunks2", "barrier2"} => MaySplit(n)
  BY <1>1, IInvSays DEF TreeIsRight, NodeIsRight
<1> QED
  BY <1>1, <1>3, <1>4, <1>5, <1>6, <1>7

LEMMA BeginHorizontallyStep ==
    ASSUME IInv, NEW t \in Threads, begin_horizontally(t)
    PROVE  Grown
<1>1. At(t, "create")
  BY DEF begin_horizontally
<1>2. PICK f, c, n : /\ Innermost(t, f, c) /\ f = Head(stack[t]) /\ f \in Frames
                     /\ n = f.node /\ n = Node(t) /\ n \in Nodes /\ phase[n] = "create"
  BY <1>1, AtCall
<1>3. /\ stack' = [stack EXCEPT ![t] = Chunks(@, "chunks1")]
      /\ built' = [built EXCEPT ![n] = @ + 1] /\ f.threads >= 2
      /\ UNCHANGED <<tasks, job, chunk_of, arrived, ready, done>>
  BY <1>2 DEF begin_horizontally, NextNode, Horizontally, NumFor
<1>4. RestOK'
  <2>1. built' \in [Nodes -> Nat]
    BY <1>2, <1>3, IInvSays
  <2> QED
    BY <1>3, <2>1, IInvSays DEF RestOK
<1>5. PICK h, q : /\ h = InRound(f, "chunks1")
                  /\ q = [phase EXCEPT ![n] = "chunks1"]
  OBVIOUS
<1>6. f.threads \in Nat /\ f.threads >= 1
  BY <1>2, <1>3, FrameFields, NumThreadsIsNat DEF ThreadCounts
<1>7. /\ h \in Frames /\ h.node = n /\ h.stage = "chunks1"
      /\ h.threads = f.threads /\ h.todo = f.threads - 1
  BY <1>2, <1>5, <1>6, ChunksFrame DEF Stages
<1>8. GoesOn(t, h, n, q)
  <2>1. stack' = [stack EXCEPT ![t] = <<h>> \o Tail(stack[t])]
    BY <1>2, <1>3, <1>5 DEF Chunks, InRound
  <2> QED
    BY <1>3, <1>5, <1>7, <2>1, IInvSays DEF GoesOn
<1>9. TreeIsRight(q, built', ready')
  BY <1>2, <1>3, <1>5, IInvSays, NodeCreated
<1>10. chunks' = chunks /\ chunks[n] = 0
  <2>1. phase[n] \notin RoundStages
    BY <1>2 DEF RoundStages
  <2> QED
    BY <1>2, <1>3, <2>1, IInvSays, QuietChunks DEF RoundsAreRight
<1>11. RoundIsRight(h, chunks') /\ h.stage \in RoundStages
  BY <1>6, <1>7, <1>10 DEF RoundIsRight, RoundStages
<1> QED
  BY <1>2, <1>4, <1>8, <1>9, <1>10, <1>11, RoundStep

LEMMA AddChunkStep ==
    ASSUME IInv, NEW t \in Threads, add_chunk(t)
    PROVE  Grown
<1>1. PICK stage \in {"chunks1", "chunks2"} : At(t, stage)
  BY DEF add_chunk
<1>2. stage \in RoundStages
  BY DEF RoundStages
<1>3. PICK f, c, n : /\ Innermost(t, f, c) /\ f = Head(stack[t]) /\ f \in Frames
                     /\ n = f.node /\ n = Node(t) /\ f.stage = stage
                     /\ n \in Nodes /\ phase[n] = stage
                     /\ f.threads - 1 = f.todo + chunks[n]
                     /\ f.threads \in Nat /\ f.todo \in Nat /\ chunks[n] \in Nat
  BY <1>1, <1>2, AtRound
<1>4. /\ f.todo > 0 /\ tasks' = Append(tasks, ChunkTask(n))
      /\ stack' = [stack EXCEPT ![t] = OneChunkLess(@)]
      /\ UNCHANGED <<job, chunk_of, arrived, ready, built, done>>
  BY <1>3 DEF add_chunk, add_task
<1>5. /\ \A m \in Nodes : chunks'[m] = IF m = n THEN chunks[m] + 1 ELSE chunks[m]
      /\ tasks' \in Seq(TaskSet) /\ QueuedIn(tasks') = QueuedIn(tasks)
      /\ QueuedOnce(tasks')
  BY <1>3, <1>4, IInvSays, ChunkIsAdded
<1>6. RestOK'
  BY <1>4, <1>5, IInvSays DEF RestOK
<1>7. PICK h, q : h = OneLess(f) /\ q = [phase EXCEPT ![n] = stage]
  OBVIOUS
<1>8. /\ h \in Frames /\ h.node = n /\ h.stage = stage
      /\ h.threads = f.threads /\ h.todo = f.todo - 1
  BY <1>3, <1>4, <1>7, TodoFrame
<1>9. GoesOn(t, h, n, q)
  <2>1. stack' = [stack EXCEPT ![t] = <<h>> \o Tail(stack[t])]
    BY <1>3, <1>4, <1>7 DEF OneLess, OneChunkLess
  <2> QED
    BY <1>4, <1>5, <1>7, <1>8, <2>1 DEF GoesOn
<1>10. TreeIsRight(q, built', ready')
  <2>1. phase[n] \in RoundStages /\ stage \in {phase[n], "barrier1", "done"}
    BY <1>2, <1>3
  <2>2. TreeIsRight(q, built, ready)
    BY <1>2, <1>3, <1>7, <2>1, IInvSays, RoundGoesOn
  <2> QED
    BY <1>4, <2>2
<1>11. chunks'[n] = chunks[n] + 1 /\ \A m \in Nodes \ {n} : chunks'[m] = chunks[m]
  BY <1>3, <1>5
<1>12. RoundIsRight(h, chunks') /\ h.stage \in RoundStages
  <2>1. PICK a, d, e \in Nat : a = f.threads /\ d = f.todo /\ e = chunks[n]
    BY <1>3
  <2>2. h.threads - 1 = h.todo + chunks'[n]
    BY <1>3, <1>8, <1>11, <2>1
  <2>3. h.stage \in RoundStages /\ h.stage \notin {"barrier1", "barrier2"}
    BY <1>2, <1>8
  <2> QED
    BY <1>8, <2>2, <2>3 DEF RoundIsRight
<1> QED
  BY <1>3, <1>6, <1>9, <1>10, <1>11, <1>12, RoundStep

LEMMA OwnChunkStep ==
    ASSUME IInv, NEW t \in Threads, own_chunk(t)
    PROVE  Grown
<1>1. PICK stage, to : /\ \/ stage = "chunks1" /\ to = "barrier1"
                          \/ stage = "chunks2" /\ to = "barrier2"
                       /\ At(t, stage) /\ stack' = [stack EXCEPT ![t] = SetStage(@, to)]
                       /\ Head(stack[t]).todo = 0
                       /\ UNCHANGED <<tasks, job, chunk_of, arrived, ready, built, done>>
  BY DEF own_chunk
<1>2. stage \in RoundStages /\ to \in RoundStages /\ to \in Stages
  BY <1>1 DEF RoundStages, Stages
<1>3. PICK f, c, n : /\ Innermost(t, f, c) /\ f = Head(stack[t]) /\ f \in Frames
                     /\ n = f.node /\ n = Node(t) /\ f.stage = stage
                     /\ n \in Nodes /\ phase[n] = stage
                     /\ f.threads - 1 = f.todo + chunks[n]
                     /\ stage \in {"chunks2", "barrier2"} => MaySplit(n)
  BY <1>1, <1>2, AtRound
<1>4. f.todo = 0
  BY <1>1, <1>3
<1>5. chunks' = chunks
  BY <1>1, QuietChunks
<1>6. RestOK'
  BY <1>1, IInvSays DEF RestOK
<1>7. PICK h, q : h = [f EXCEPT !.stage = to] /\ q = [phase EXCEPT ![n] = to]
  OBVIOUS
<1>8. /\ h \in Frames /\ h.node = n /\ h.stage = to
      /\ h.threads = f.threads /\ h.todo = f.todo
  BY <1>2, <1>3, <1>7, FrameAt
<1>9. GoesOn(t, h, n, q)
  <2>1. stack' = [stack EXCEPT ![t] = <<h>> \o Tail(stack[t])]
    BY <1>1, <1>3, <1>7 DEF SetStage
  <2> QED
    BY <1>1, <1>7, <1>8, <2>1, IInvSays DEF GoesOn
<1>10. TreeIsRight(q, built', ready')
  <2>1. phase[n] \in RoundStages /\ (MaySplit(n) \/ to \in {phase[n], "barrier1", "done"})
    BY <1>1, <1>2, <1>3
  <2>2. TreeIsRight(q, built, ready)
    BY <1>2, <1>3, <1>7, <2>1, IInvSays, RoundGoesOn
  <2> QED
    BY <1>1, <2>2
<1>11. RoundIsRight(h, chunks')
  BY <1>3, <1>4, <1>5, <1>8 DEF RoundIsRight
<1> QED
  BY <1>2, <1>3, <1>5, <1>6, <1>8, <1>9, <1>10, <1>11, RoundStep

\* The barrier opens: no chunk of the round is left.
LEMMA RoundIsOver ==
    ASSUME IInv, NEW t \in Threads, NEW stage \in {"barrier1", "barrier2"}, At(t, stage),
           AllChunksArrived(t), arrived' = [arrived EXCEPT ![Node(t)] = 0],
           UNCHANGED <<tasks, job, chunk_of, ready, built, done>>
    PROVE  \E f, c, n : /\ Innermost(t, f, c) /\ f = Head(stack[t]) /\ f \in Frames
                        /\ n = f.node /\ n = Node(t) /\ f.threads \in Nat /\ f.threads >= 1
                        /\ n \in Nodes /\ phase[n] = stage
                        /\ stage = "barrier2" => MaySplit(n)
                        /\ chunks'[n] = 0 /\ \A m \in Nodes \ {n} : chunks'[m] = chunks[m]
                        /\ RestOK' /\ phase[n] \in RoundStages
<1>1. stage \in RoundStages
  BY DEF RoundStages
<1>2. PICK f, c, n : /\ Innermost(t, f, c) /\ f = Head(stack[t]) /\ f \in Frames
                     /\ n = f.node /\ n = Node(t)
                     /\ n \in Nodes /\ phase[n] = stage
                     /\ f.threads - 1 = f.todo + chunks[n] /\ f.threads >= 1
                     /\ f.threads \in Nat /\ chunks[n] \in Nat /\ f.todo = 0
                     /\ stage = "barrier2" => MaySplit(n)
  BY <1>1, AtRound
<1>3. arrived[n] = f.threads - 1
  BY <1>2 DEF AllChunksArrived, NumFor
<1>4. arrived[n] = chunks[n]
  BY <1>2, <1>3
<1>5. \A m \in Nodes : chunks'[m] = IF m = n THEN 0 ELSE chunks[m]
  BY <1>2, <1>4, IInvSays, ChunksAreGone
<1>6. arrived' \in [Nodes -> 0..MaxArrived]
  BY <1>2, IInvSays, NumThreadsIsNat DEF TypeOK
<1>7. RestOK'
  BY <1>6, IInvSays DEF RestOK
<1>8. chunks'[n] = 0 /\ \A m \in Nodes \ {n} : chunks'[m] = chunks[m]
  BY <1>2, <1>5
<1> QED
  BY <1>1, <1>2, <1>7, <1>8

\* The step after the round, to a stage that is in no round.
LEMMA LeaveStep ==
    ASSUME IInv, RestOK', NEW t \in Threads, NEW f, NEW c, Innermost(t, f, c),
           f = Head(stack[t]), f \in Frames, NEW n, n = f.node, n \in Nodes,
           phase[n] \in RoundStages, NEW to \in {"async", "done"}, MaySplit(n) \/ to = "done",
           chunks'[n] = 0, \A m \in Nodes \ {n} : chunks'[m] = chunks[m],
           stack' = [stack EXCEPT ![t] = SetStage(@, to)],
           UNCHANGED <<tasks, job, ready, built>>
    PROVE  Grown
<1>1. PICK h, q : h = [f EXCEPT !.stage = to] /\ q = [phase EXCEPT ![n] = to]
  OBVIOUS
<1>2. h \in Frames /\ h.node = n /\ h.stage = to
  BY <1>1, FrameAt DEF Stages
<1>3. GoesOn(t, h, n, q)
  <2>1. stack' = [stack EXCEPT ![t] = <<h>> \o Tail(stack[t])]
    BY <1>1 DEF SetStage
  <2> QED
    BY <1>1, <1>2, <2>1, IInvSays DEF GoesOn
<1>4. TreeIsRight(q, built', ready')
  <2>1. TreeIsRight(q, built, ready)
    BY <1>1, IInvSays, RoundGoesOn
  <2> QED
    BY <2>1
<1>5. RoundIsRight(h, chunks')
  BY <1>2 DEF RoundIsRight, RoundStages
<1> QED
  BY <1>3, <1>4, <1>5, RoundStep

LEMMA LeaveBarrier1Step ==
    ASSUME IInv, NEW t \in Threads, leave_barrier1(t)
    PROVE  Grown
<1>1. /\ At(t, "barrier1") /\ AllChunksArrived(t)
      /\ arrived' = [arrived EXCEPT ![Node(t)] = 0]
      /\ UNCHANGED <<tasks, job, chunk_of, ready, built, done>>
  BY DEF leave_barrier1
<1>2. PICK f, c, n : /\ Innermost(t, f, c) /\ f = Head(stack[t]) /\ f \in Frames
                     /\ n = f.node /\ n = Node(t) /\ f.threads \in Nat /\ f.threads >= 1
                     /\ n \in Nodes /\ phase[n] = "barrier1"
                     /\ chunks'[n] = 0 /\ \A m \in Nodes \ {n} : chunks'[m] = chunks[m]
                     /\ RestOK' /\ phase[n] \in RoundStages
  BY <1>1, RoundIsOver
<1>3. CASE stack' = [stack EXCEPT ![t] = SetStage(@, "done")]
  BY <1>1, <1>2, <1>3, LeaveStep
<1>4. CASE MaySplit(n) /\ stack' = [stack EXCEPT ![t] = Chunks(@, "chunks2")]
  <2>1. PICK h, q : /\ h = InRound(f, "chunks2")
                    /\ q = [phase EXCEPT ![n] = "chunks2"]
    OBVIOUS
  <2>2. /\ h \in Frames /\ h.node = n /\ h.stage = "chunks2"
        /\ h.threads = f.threads /\ h.todo = f.threads - 1
    BY <1>2, <2>1, ChunksFrame DEF Stages
  <2>3. GoesOn(t, h, n, q)
    <3>1. stack' = [stack EXCEPT ![t] = <<h>> \o Tail(stack[t])]
      BY <1>2, <1>4, <2>1 DEF Chunks, InRound
    <3> QED
      BY <1>1, <2>1, <2>2, <3>1, IInvSays DEF GoesOn
  <2>4. TreeIsRight(q, built', ready')
    <3>1. "chunks2" \in RoundStages
      BY DEF RoundStages
    <3>2. TreeIsRight(q, built, ready)
      BY <1>2, <1>4, <2>1, <3>1, IInvSays, RoundGoesOn
    <3> QED
      BY <1>1, <3>2
  <2>5. RoundIsRight(h, chunks') /\ h.stage \in RoundStages
    BY <1>2, <2>2 DEF RoundIsRight, RoundStages
  <2> QED
    BY <1>2, <2>3, <2>4, <2>5, RoundStep
<1> QED
  BY <1>2, <1>3, <1>4 DEF leave_barrier1

LEMMA LeaveBarrier2Step ==
    ASSUME IInv, NEW t \in Threads, leave_barrier2(t)
    PROVE  Grown
<1>1. /\ At(t, "barrier2") /\ AllChunksArrived(t)
      /\ arrived' = [arrived EXCEPT ![Node(t)] = 0]
      /\ stack' = [stack EXCEPT ![t] = SetStage(@, "async")]
      /\ UNCHANGED <<tasks, job, chunk_of, ready, built, done>>
  BY DEF leave_barrier2
<1>2. PICK f, c, n : /\ Innermost(t, f, c) /\ f = Head(stack[t]) /\ f \in Frames
                     /\ n = f.node /\ n \in Nodes /\ MaySplit(n)
                     /\ chunks'[n] = 0 /\ \A m \in Nodes \ {n} : chunks'[m] = chunks[m]
                     /\ RestOK' /\ phase[n] \in RoundStages
  BY <1>1, RoundIsOver
<1> QED
  BY <1>1, <1>2, LeaveStep

-----------------------------------------------------------------------------
(* The caller, which stays at the root until the tree is built.            *)

LEMMA BuildingInCall ==
    ASSUME IInv, NEW t \in Threads, stack[t] # <<>>
    PROVE  ~done /\ phase[1] \in Stages
<1>1. Innermost(t, Head(stack[t]), Tail(stack[t]))
  BY InnermostCall, IInvSays
<1>2. Head(stack[t]).node \in Nodes /\ phase[Head(stack[t]).node] # "none"
  BY <1>1, StagesAreNoOtherPhases DEF Innermost
<1>3. ~done
  BY <1>2 DEF IInv, CallerIsAtRoot
<1>4. Main \in Threads /\ 1 \in NodesOf(stack[Main])
  BY <1>3 DEF IInv, CallerIsAtRoot, Threads
<1> QED
  BY <1>3, <1>4, IInvSays, PhaseOnStack

\* The node of the caller's outermost call stays with the caller.
LEMMA RootIsKept ==
    ASSUME IInv, NEW t \in Threads, stack[t] # <<>>,
           \A u \in Threads \ {t} : stack'[u] = stack[u],
           Grown
    PROVE  1 \in NodesOf(stack'[Main])
<1>1. phase[1] \in Stages /\ phase'[1] \in Stages /\ ~done
  BY BuildingInCall DEF Grown
<1>2. (TypeOK /\ HeldOnce => PhasesAre(phase))'
  BY PhaseIsRight, PTL
<1>3. PhasesAre(phase)' /\ TypeOK'
  BY <1>2 DEF Grown, Structure
<1>4. PICK u \in Threads : On(stack'[u], 1, phase'[1])
  BY <1>1, <1>3, IInvSays DEF PhasesAre, InStage
<1>5. stack'[u] \in Seq(Frames)
  BY <1>3 DEF TypeOK
<1>6. 1 \in NodesOf(stack'[u])
  BY <1>4, <1>5, NodesAreInStages
<1>7. Main \in Threads /\ 1 \in NodesOf(stack[Main])
  BY <1>1 DEF IInv, CallerIsAtRoot, Threads
<1>8. \A v \in Threads \ {Main} : 1 \notin NodesOf(stack[v])
  BY <1>7 DEF IInv, HeldOnce
<1>9. CASE t = Main
  BY <1>6, <1>8, <1>9
<1>10. CASE t # Main
  BY <1>7, <1>10
<1> QED
  BY <1>9, <1>10

\* A step of create_build_node().
LEMMA GrownIsRight ==
    ASSUME IInv, NEW t \in Threads, stack[t] # <<>>,
           \A u \in Threads \ {t} : stack'[u] = stack[u],
           Grown, done' = done
    PROVE  IInv'
<1>1. ~done' /\ 1 \in NodesOf(stack'[Main])
  BY BuildingInCall, RootIsKept
<1>2. CallerIsAtRoot'
  BY <1>1 DEF CallerIsAtRoot
<1> QED
  BY <1>2 DEF IInv, Grown, Structure

LEMMA CallKeepsIInv ==
    ASSUME IInv, NEW t \in Threads, Create(t), ~return_node(t)
    PROVE  IInv'
<1>1. Grown
  BY CreateLeafStep, BeginHorizontallyStep, AddChunkStep, OwnChunkStep, LeaveBarrier1Step,
     LeaveBarrier2Step, AsyncRightHalfStep, DecideForkStep, AsyncRightStep, ReturnLeftStep,
     GetRightStep
     DEF Create
<1>2. stack[t] # <<>> /\ done' = done
  BY DEF Create, create_leaf, begin_horizontally, add_chunk, own_chunk, leave_barrier1,
         leave_barrier2, async_right_half, decide_fork, async_right, return_left, get_right, At
<1>3. \E s : stack' = [stack EXCEPT ![t] = s]
  BY DEF Create, create_leaf, begin_horizontally, add_chunk, own_chunk, leave_barrier1,
         leave_barrier2, async_right_half, decide_fork, async_right, return_left, get_right
<1>4. \A u \in Threads \ {t} : stack'[u] = stack[u]
  BY <1>3, IInvSays DEF TypeOK
<1> QED
  BY <1>1, <1>2, <1>4, GrownIsRight

\* A step of t that is in no round.
LEMMA NoRoundStep ==
    ASSUME IInv, NEW t \in Threads, \A u \in Threads \ {t} : stack'[u] = stack[u],
           \A m \in Nodes : phase[m] \in RoundStages => phase'[m] \in RoundStages,
           stack'[t] # <<>> => Head(stack'[t]).stage \notin RoundStages
    PROVE  RoundsAreRight(stack', phase', chunks)
<1>1. PICK s, p, d, s2, p2 : /\ s = stack /\ p = phase /\ d = chunks
                             /\ s2 = stack' /\ p2 = phase'
  OBVIOUS
<1>2. RoundsAreRight(s, p, d)
  BY <1>1, IInvSays
<1>3. \A u \in Threads \ {t} : s2[u] = s[u]
  BY <1>1
<1>4. \A m \in Nodes : p[m] \in RoundStages => p2[m] \in RoundStages
  BY <1>1
<1>5. s2[t] # <<>> => Head(s2[t]).stage \notin RoundStages
  BY <1>1
<1>6. RoundsAreRight(s2, p2, d)
  <2>1. ASSUME NEW u \in Threads, s2[u] # <<>> PROVE RoundIsRight(Head(s2[u]), d)
    <3>1. CASE u = t
      BY <1>5, <2>1, <3>1 DEF RoundIsRight, RoundStages
    <3>2. CASE u # t
      BY <1>2, <1>3, <2>1, <3>2 DEF RoundsAreRight
    <3> QED
      BY <3>1, <3>2
  <2>2. \A m \in Nodes : p2[m] \notin RoundStages => d[m] = 0
    BY <1>2, <1>4 DEF RoundsAreRight
  <2> QED
    BY <2>1, <2>2 DEF RoundsAreRight
<1> QED
  BY <1>1, <1>6

LEMMA ReturnNodeKeepsIInv ==
    ASSUME IInv, NEW t \in Threads, return_node(t)
    PROVE  IInv'
<1>1. At(t, "done") /\ t \in Workers
  BY DEF return_node
<1>2. PICK f, c, n : /\ Innermost(t, f, c) /\ stack[t] # <<>> /\ c = Tail(stack[t])
                     /\ n = f.node /\ n = Node(t)
                     /\ n \in Nodes /\ phase[n] = "done"
  BY <1>1, AtCall
<1>3. /\ c = <<>> /\ ready' = ready \cup {n}
      /\ stack' = [stack EXCEPT ![t] = <<>>]
      /\ job' = [job EXCEPT ![t] = "returned"]
      /\ UNCHANGED <<tasks, chunk_of, arrived, built, done>>
  BY <1>2 DEF return_node
<1>4. RestOK'
  <2>1. ready' \subseteq Nodes
    BY <1>2, <1>3, IInvSays
  <2>2. job' \in [Workers -> {"none", "node", "chunk", "returned"}]
    BY <1>3, IInvSays DEF RestOK
  <2> QED
    BY <1>3, <2>1, <2>2, IInvSays DEF RestOK
<1>5. /\ \A w \in Workers : job'[w] = "node" <=> stack'[w] # <<>>
      /\ chunks' = chunks
  <2>1. \A w \in Workers : /\ job'[w] = IF w = t THEN "returned" ELSE job[w]
                           /\ stack'[w] = IF w = t THEN <<>> ELSE stack[w]
    BY <1>3, IInvSays DEF TypeOK, Threads
  <2>2. job[t] = "node"
    BY <1>1, <1>2 DEF IInv
  <2>3. \A w \in Workers : job'[w] = "chunk" <=> job[w] = "chunk"
    BY <2>1, <2>2
  <2>4. \A m \in Nodes : RunningChunks(m)' = RunningChunks(m)
    BY <1>3, <2>3, SameRunning
  <2>5. \A w \in Workers : job'[w] = "node" <=> stack'[w] # <<>>
    BY <2>1 DEF IInv
  <2> QED
    BY <1>3, <2>4, <2>5, SameChunks
<1>6. PICK q : q = [phase EXCEPT ![n] = "none"]
  OBVIOUS
<1>7. Leaves(t, n, q)
  BY <1>3, <1>5, <1>6 DEF Leaves
<1>8. Structure' /\ phase' = q
  BY <1>2, <1>3, <1>4, <1>7, IInvSays, LastStep
<1>9. TreeIsRight(q, built, ready \cup {n})
  BY <1>2, <1>6, IInvSays, NodeGoesOn
<1>10. \A u \in Threads \ {t} : stack'[u] = stack[u]
  BY <1>3, IInvSays DEF TypeOK
<1>11. RoundsAreRight(stack', phase', chunks)
  <2>1. stack'[t] = <<>>
    BY <1>3, IInvSays DEF TypeOK
  <2>2. \A m \in Nodes : phase[m] \in RoundStages => phase'[m] \in RoundStages
    BY <1>2, <1>6, <1>8, IInvSays DEF RoundStages
  <2>3. stack'[t] # <<>> => Head(stack'[t]).stage \notin RoundStages
    BY <2>1
  <2> QED
    BY <1>10, <2>2, <2>3, NoRoundStep
<1>12. phase'[1] \in Stages
  <2>1. Main \in Threads /\ Main # t /\ 1 \in NodesOf(stack[Main])
    <3>1. ~done
      BY <1>2, BuildingInCall
    <3> QED
      BY <1>1, <3>1, MainAssumption DEF IInv, CallerIsAtRoot, Threads
  <2>2. 1 # n
    <3>1. n \in NodesOf(stack[t])
      BY <1>2 DEF Innermost
    <3> QED
      BY <2>1, <3>1 DEF IInv, HeldOnce
  <2>3. phase[1] \in Stages
    BY <1>2, BuildingInCall
  <2> QED
    BY <1>6, <1>8, <2>2, <2>3, IInvSays
<1>13. Grown
  BY <1>3, <1>5, <1>8, <1>9, <1>11, <1>12 DEF Grown
<1> QED
  BY <1>2, <1>3, <1>10, <1>13, GrownIsRight

-----------------------------------------------------------------------------
(* The end of the build: when the root is done every other node is.        *)

\* A set of nodes has a least one: the intervals up to its elements cannot get
\* smaller forever.
LEMMA LeastNode ==
    ASSUME NEW S, S \subseteq Nat, S # {}
    PROVE  \E m \in S : \A n \in S : m <= n
<1> DEFINE T == {1..n : n \in S}
           R == StrictSubsetOrdering(Nat)
<1>1. T \subseteq FiniteSubsetsOf(Nat) /\ T # {}
  <2>1. \A n \in S : IsFiniteSet(1..n) /\ 1..n \subseteq Nat
    BY FS_Interval
  <2> QED
    BY <2>1 DEF FiniteSubsetsOf
<1>2. PICK x \in T : \A y \in T : ~ (<<y, x>> \in R)
  <2>1. IsWellFoundedOn(R, FiniteSubsetsOf(Nat))
    BY FS_StrictSubsetOrderingWellFounded
  <2> HIDE DEF T, R
  <2> QED
    BY <1>1, <2>1, WFMin
<1>3. PICK m \in S : x = 1..m
  BY <1>2
<1>4. ASSUME NEW n \in S, n < m PROVE FALSE
  <2>1. 1..n \subseteq 1..m /\ m \in 1..m /\ m \notin 1..n
    BY <1>4
  <2>2. <<1..n, x>> \in R
    BY <1>3, <2>1, <1>4 DEF StrictSubsetOrdering
  <2> QED
    BY <1>2, <2>2
<1> QED
  BY <1>4

\* Every node but the root is half of a node with a smaller number.
LEMMA ParentOf ==
    ASSUME NEW m \in Nodes, m # 1
    PROVE  \E n \in Nodes : n < m /\ (m = 2 * n \/ m = 2 * n + 1) /\ MaySplit(n)
<1>1. PICK n \in Nodes : m = 2 * n \/ m = 2 * n + 1
  BY NodesAssumption
<1>2. n \in Nat /\ n >= 1
  BY NodesAssumption
<1>3. MaySplit(n)
  BY <1>1, NodesAssumption DEF MaySplit
<1> QED
  BY <1>1, <1>2, <1>3

\* The phases of a tree whose root is done.
LEMMA OnlyRootIsLeft ==
    ASSUME NEW p \in [Nodes -> Phases], NEW b, NEW d, TreeIsRight(p, b, d),
           p[1] = "done"
    PROVE  /\ \A n \in Nodes \ {1} : p[n] = "none"
           /\ b[1] = 1
<1>1. \A n \in Nodes : NodeIsRight(p, b, n)
  BY DEF TreeIsRight
<1>2. 1 \in Nodes
  BY NodesAssumption
<1>3. b[1] = 1
  BY <1>1, <1>2 DEF NodeIsRight, Stages
<1>4. ASSUME \E n \in Nodes \ {1} : p[n] # "none" PROVE FALSE
  <2> DEFINE S == {n \in Nodes \ {1} : p[n] # "none"}
  <2>1. S \subseteq Nat /\ S # {}
    BY <1>4, NodesAssumption
  <2>2. PICK m \in S : \A n \in S : m <= n
    BY <2>1, LeastNode
  <2>3. PICK n \in Nodes : n < m /\ (m = 2 * n \/ m = 2 * n + 1) /\ MaySplit(n)
    BY <2>2, ParentOf
  <2>4. n \notin S
    BY <2>1, <2>2, <2>3, NodesAssumption
  <2>5. p[n] = "none" \/ p[n] = "done"
    BY <2>4
  <2>6. NodeIsRight(p, b, n) /\ m \in Nodes
    BY <1>1, <2>2
  <2>7. p[n] = "done" \/ Untouched(p, b, n) \/ Finished(p, b, n)
    BY <2>5, <2>6 DEF NodeIsRight, Untouched, Finished
  <2>8. p[m] = "none"
    BY <2>3, <2>6, <2>7 DEF NodeIsRight, HalvesAreRight, Untouched, Finished
  <2> QED
    BY <2>2, <2>8
<1> QED
  BY <1>3, <1>4

LEMMA ReturnRootKeepsIInv ==
    ASSUME IInv, return_root
    PROVE  IInv'
<1>1. At(Main, "done") /\ Main \in Threads
  BY DEF return_root, Threads
<1>2. PICK f, c, n : /\ Innermost(Main, f, c) /\ stack[Main] # <<>> /\ c = Tail(stack[Main])
                     /\ n = f.node /\ n \in Nodes /\ phase[n] = "done"
  BY <1>1, AtCall
<1>3. /\ c = <<>> /\ stack' = [stack EXCEPT ![Main] = <<>>] /\ done' = TRUE
      /\ UNCHANGED <<tasks, job, chunk_of, arrived, ready, built>>
  BY <1>2 DEF return_root
<1>4. ~done
  BY <1>1, <1>2, BuildingInCall
<1>5. n = 1
  <2>1. 1 \in NodesOf(stack[Main])
    BY <1>4 DEF IInv, CallerIsAtRoot
  <2> QED
    BY <1>2, <1>3, <2>1, EmptyStack DEF Innermost
<1>6. RestOK' /\ chunks' = chunks
  <2>1. RestOK'
    BY <1>3, IInvSays DEF RestOK
  <2> QED
    BY <1>3, <2>1, QuietChunks
<1>7. \A w \in Workers : job'[w] = "node" <=> stack'[w] # <<>>
  BY <1>3, IInvSays, MainAssumption DEF IInv, TypeOK, Threads
<1>8. PICK q : q = [phase EXCEPT ![n] = "none"]
  OBVIOUS
<1>9. Leaves(Main, n, q)
  BY <1>3, <1>7, <1>8 DEF Leaves
<1>10. Structure' /\ phase' = q
  BY <1>1, <1>2, <1>3, <1>6, <1>9, IInvSays, LastStep
<1>11. TreeIsRight(phase', built', ready')
  <2>1. TreeIsRight(q, built, ready)
    BY <1>2, <1>8, IInvSays, NodeGoesOn
  <2> QED
    BY <1>3, <1>10, <2>1
<1>12. built[1] = 1 /\ \A m \in Nodes : q[m] = "none"
  <2>1. built[1] = 1 /\ \A m \in Nodes \ {1} : phase[m] = "none"
    BY <1>2, <1>5, IInvSays, OnlyRootIsLeft
  <2> QED
    BY <1>5, <1>8, <2>1, IInvSays
<1>13. stack'[Main] = <<>> /\ \A u \in Threads \ {Main} : stack'[u] = stack[u]
  BY <1>1, <1>3, IInvSays DEF TypeOK
<1>14. CallerIsAtRoot'
  BY <1>3, <1>10, <1>12, <1>13 DEF CallerIsAtRoot
<1>15. RoundsAreRight(stack', phase', chunks)
  <2>1. \A m \in Nodes : phase[m] \in RoundStages => phase'[m] \in RoundStages
    BY <1>2, <1>8, <1>10, IInvSays DEF RoundStages
  <2>2. stack'[Main] # <<>> => Head(stack'[Main]).stage \notin RoundStages
    BY <1>13
  <2>3. \A u \in Threads \ {Main} : stack'[u] = stack[u]
    BY <1>13
  <2> QED
    BY <1>1, <2>1, <2>2, <2>3, NoRoundStep
<1> QED
  BY <1>6, <1>10, <1>11, <1>14, <1>15 DEF IInv, Structure

-----------------------------------------------------------------------------
(* The pool.                                                               *)

LEMMA CountsAreOfNodes == chunks = [m \in Nodes |-> chunks[m]]
BY DEF chunks

LEMMA SameCounts ==
    ASSUME \A m \in Nodes : chunks'[m] = chunks[m]
    PROVE  chunks' = chunks
<1>1. (chunks = [m \in Nodes |-> chunks[m]])'
  BY CountsAreOfNodes, PTL
<1> QED
  BY <1>1, CountsAreOfNodes

\* Steps that leave the calls and the nodes in the queue as they were.
LEMMA CallsUntouched ==
    ASSUME IInv, RestOK', UNCHANGED <<stack, built, ready, done>>,
           QueuedIn(tasks') = QueuedIn(tasks), QueuedOnce(tasks'),
           \A w \in Workers : job'[w] = "node" <=> job[w] = "node",
           \A m \in Nodes : chunks'[m] = chunks[m]
    PROVE  IInv'
<1>1. phase' = phase /\ chunks' = chunks
  BY SamePhase, SameCounts
<1>2. TypeOK'
  BY IInvSays DEF RestOK, TypeOK
<1>3. HeldOnce'
  BY DEF IInv, HeldOnce
<1>4. RoundsAreRight(stack', phase', chunks')
  BY <1>1, IInvSays
<1>5. TreeIsRight(phase', built', ready')
  BY <1>1, IInvSays
<1>6. CallerIsAtRoot'
  BY <1>1 DEF IInv, CallerIsAtRoot
<1>7. /\ \A w \in Workers : job'[w] = "node" <=> stack'[w] # <<>>
      /\ \A t \in Threads : Linked(stack'[t])
  BY DEF IInv
<1> QED
  BY <1>2, <1>3, <1>4, <1>5, <1>6, <1>7 DEF IInv

LEMMA NodeIsNoChunk ==
    ASSUME NEW q \in Seq(TaskSet), q # <<>>, NEW e, e = Head(q), NEW r, r = Tail(q),
           e.kind = "node", NEW m \in Nodes
    PROVE  Cardinality(ChunksIn(r, m)) = Cardinality(ChunksIn(q, m))
<1>1. PICK P, S : P = ChunksIn(r, m) /\ S = Shifted(P)
  OBVIOUS
<1>2. /\ r \in Seq(TaskSet) /\ P \in SUBSET (Nat \ {0})
      /\ ChunksIn(q, m) = S \cup ChunkAt(e, m, 1)
  BY <1>1, HeadAndTail, ChunksAreShifted
<1>3. ChunkAt(e, m, 1) = {}
  BY DEF ChunkAt, ChunkTask
<1>4. IsFiniteSet(P) /\ Cardinality(P) \in Nat
  BY <1>1, <1>2, QueueTypes
<1>5. Cardinality(S) = Cardinality(P)
  BY <1>1, <1>2, <1>4, ShiftedSet DEF Shifted
<1> QED
  BY <1>1, <1>2, <1>3, <1>5

LEMMA TakeNode ==
    ASSUME IInv, NEW w \in Workers, take_task(w), Head(tasks).kind = "node"
    PROVE  IInv'
<1>1. PICK a, b, e, n, k : /\ a = tasks /\ b = Tail(a) /\ e = Head(a) /\ n = e.node
                           /\ k = Frame(n, e.threads)
  OBVIOUS
<1>2. /\ a \in Seq(TaskSet) /\ a # <<>> /\ QueuedOnce(a) /\ tasks' = b /\ e.kind = "node"
  BY <1>1, IInvSays DEF take_task
<1>3. /\ b \in Seq(TaskSet) /\ e \in TaskSet
      /\ QueuedIn(a) = QueuedIn(b) \cup {n}
      /\ QueuedOnce(b) /\ n \notin QueuedIn(b)
  BY <1>1, <1>2, QueueShrinks
<1>4. n \in Nodes /\ e.threads \in ThreadCounts
  BY <1>1, <1>2, <1>3 DEF TaskSet
<1>5. phase[n] = "queued"
  BY <1>1, <1>3, <1>4, IInvSays
<1>6. /\ job[w] \in {"none", "returned"} /\ job' = [job EXCEPT ![w] = "node"]
      /\ stack' = [stack EXCEPT ![w] = <<k>>]
      /\ UNCHANGED <<chunk_of, arrived, ready, built, done>>
  BY <1>1, <1>2 DEF take_task
<1>7. w \in Threads /\ w # Main /\ stack[w] = <<>>
  BY <1>6, MainAssumption DEF IInv, Threads
<1>8. RestOK'
  <2>1. job' \in [Workers -> {"none", "node", "chunk", "returned"}]
    BY <1>6, IInvSays DEF RestOK
  <2> QED
    BY <1>2, <1>3, <1>6, <2>1, IInvSays DEF RestOK
<1>9. /\ \A x \in Workers : job'[x] = IF x = w THEN "node" ELSE job[x]
      /\ \A x \in Threads \ {w} : stack'[x] = stack[x]
      /\ stack'[w] = <<k>>
  BY <1>6, <1>7, IInvSays DEF TypeOK
<1>10. \A x \in Workers : job'[x] = "node" <=> stack'[x] # <<>>
  BY <1>9 DEF IInv, Threads
<1>11. chunks' = chunks
  <2>1. ASSUME NEW m \in Nodes
        PROVE  Cardinality(ChunksIn(tasks', m)) = Cardinality(ChunksIn(tasks, m))
    <3>1. Cardinality(ChunksIn(b, m)) = Cardinality(ChunksIn(a, m))
      BY <1>1, <1>2, NodeIsNoChunk
    <3>2. tasks = a /\ tasks' = b
      BY <1>1, <1>2
    <3> QED
      BY <3>1, <3>2
  <2>2. \A x \in Workers : job'[x] = "chunk" <=> job[x] = "chunk"
    BY <1>6, <1>9
  <2>3. \A m \in Nodes : RunningChunks(m)' = RunningChunks(m)
    BY <1>6, <2>2, SameRunning
  <2> QED
    BY <1>6, <2>1, <2>3, SameChunks
<1>12. PICK q : q = [phase EXCEPT ![n] = "create"]
  OBVIOUS
<1>13. k \in Frames /\ k.stage = "create" /\ k.node = n
  BY <1>1, <1>4, NewFrame
<1>14. StartsAt(w, k, n, q)
  <2>1. QueuedIn(tasks) \ {n} = QueuedIn(tasks') /\ n \notin QueuedIn(tasks')
    BY <1>1, <1>2, <1>3
  <2> QED
    BY <1>2, <1>3, <1>5, <1>6, <1>7, <1>10, <1>12, <1>13, <2>1 DEF StartsAt
<1>15. Structure' /\ phase' = q /\ Head(stack'[w]) = k
  BY <1>7, <1>8, <1>14, IInvSays, FirstStep
<1>16. TreeIsRight(phase', built', ready')
  <2>1. TreeIsRight(q, built, ready)
    BY <1>4, <1>5, <1>12, IInvSays, NodeGoesOn
  <2> QED
    BY <1>6, <1>15, <2>1
<1>17. RoundsAreRight(stack', phase', chunks)
  <2>1. \A m \in Nodes : phase[m] \in RoundStages => phase'[m] \in RoundStages
    BY <1>4, <1>5, <1>12, <1>15, IInvSays DEF RoundStages
  <2>2. stack'[w] # <<>> => Head(stack'[w]).stage \notin RoundStages
    BY <1>13, <1>15 DEF RoundStages
  <2>3. \A u \in Threads \ {w} : stack'[u] = stack[u]
    BY <1>9
  <2> QED
    BY <1>7, <2>1, <2>2, <2>3, NoRoundStep
<1>18. CallerIsAtRoot'
  <2>1. ~done
    BY <1>4, <1>5 DEF IInv, CallerIsAtRoot
  <2>2. stack'[Main] = stack[Main]
    BY <1>7, <1>9 DEF Threads
  <2> QED
    BY <1>6, <2>1, <2>2 DEF IInv, CallerIsAtRoot
<1> QED
  BY <1>11, <1>15, <1>16, <1>17, <1>18 DEF IInv, Structure

LEMMA TakeChunk ==
    ASSUME IInv, NEW w \in Workers, take_task(w), Head(tasks).kind # "node"
    PROVE  IInv'
<1>1. PICK e, n : e = Head(tasks) /\ n = e.node
  OBVIOUS
<1>2. tasks # <<>> /\ tasks' = Tail(tasks) /\ e \in TaskSet /\ e.kind # "node"
  BY <1>1, IInvSays, HeadTailProperties DEF take_task
<1>3. n \in Nodes /\ e = ChunkTask(n)
  BY <1>1, <1>2 DEF TaskSet, ChunkTask
<1>4. /\ job[w] \in {"none", "returned"} /\ job' = [job EXCEPT ![w] = "chunk"]
      /\ chunk_of' = [chunk_of EXCEPT ![w] = n]
      /\ UNCHANGED <<stack, arrived, ready, built, done>>
  <2>1. e.kind = "chunk"
    BY <1>3 DEF ChunkTask
  <2> QED
    BY <1>1, <1>2, <2>1 DEF take_task
<1>5. /\ \A m \in Nodes : chunks'[m] = chunks[m]
      /\ tasks' \in Seq(TaskSet) /\ QueuedIn(tasks') = QueuedIn(tasks)
      /\ QueuedOnce(tasks')
  BY <1>1, <1>2, <1>3, <1>4, IInvSays, ChunkIsTaken
<1>6. RestOK'
  <2>1. job' \in [Workers -> {"none", "node", "chunk", "returned"}]
    BY <1>4, IInvSays DEF RestOK
  <2>2. chunk_of' \in [Workers -> Nodes]
    BY <1>3, <1>4, IInvSays DEF RestOK
  <2> QED
    BY <1>4, <1>5, <2>1, <2>2, IInvSays DEF RestOK
<1>7. \A x \in Workers : job'[x] = "node" <=> job[x] = "node"
  BY <1>4, IInvSays DEF TypeOK
<1> QED
  BY <1>4, <1>5, <1>6, <1>7, CallsUntouched

LEMMA NoTaskKeepsIInv ==
    ASSUME IInv, NEW w \in Workers, no_task(w)
    PROVE  IInv'
<1>1. /\ job[w] = "returned" /\ job' = [job EXCEPT ![w] = "none"]
      /\ UNCHANGED <<tasks, chunk_of, stack, arrived, ready, built, done>>
  BY DEF no_task
<1>2. \A x \in Workers : job'[x] = IF x = w THEN "none" ELSE job[x]
  BY <1>1, IInvSays DEF TypeOK
<1>3. RestOK'
  <2>1. job' \in [Workers -> {"none", "node", "chunk", "returned"}]
    BY <1>1, IInvSays DEF RestOK
  <2> QED
    BY <1>1, <2>1, IInvSays DEF RestOK
<1>4. chunks' = chunks
  <2>1. \A x \in Workers : job'[x] = "chunk" <=> job[x] = "chunk"
    BY <1>1, <1>2
  <2>2. \A m \in Nodes : RunningChunks(m)' = RunningChunks(m)
    BY <1>1, <2>1, SameRunning
  <2> QED
    BY <1>1, <2>2, SameChunks
<1>5. \A x \in Workers : job'[x] = "node" <=> job[x] = "node"
  BY <1>1, <1>2
<1>6. QueuedIn(tasks') = QueuedIn(tasks) /\ QueuedOnce(tasks')
  BY <1>1, IInvSays
<1>7. \A m \in Nodes : chunks'[m] = chunks[m]
  BY <1>4
<1> QED
  BY <1>1, <1>3, <1>5, <1>6, <1>7, CallsUntouched

\* A chunk that is queued, runs or has arrived belongs to a call in a round.
LEMMA ChunkHasRound ==
    ASSUME IInv, NEW n \in Nodes, chunks[n] # 0
    PROVE  \E t \in Threads : \E i \in DOMAIN stack[t] :
               /\ stack[t][i].node = n /\ stack[t][i].stage \in RoundStages
               /\ stack[t][i] \in Frames
               /\ stack[t][i].threads - 1 = stack[t][i].todo + chunks[n]
<1>1. phase[n] \in RoundStages
  BY IInvSays DEF RoundsAreRight
<1>2. phase[n] \in Stages
  BY <1>1 DEF RoundStages, Stages
<1>3. PhasesAre(phase)
  BY IInvSays, PhaseIsRight
<1>4. PICK t \in Threads : On(stack[t], n, phase[n])
  BY <1>2, <1>3 DEF PhasesAre, InStage
<1>5. PICK i \in DOMAIN stack[t] : stack[t][i].node = n /\ stack[t][i].stage = phase[n]
  BY <1>4 DEF On
<1>6. stack[t] \in Seq(Frames) /\ Linked(stack[t])
  BY IInvSays DEF IInv, TypeOK
<1>7. stack[t] # <<>> /\ stack[t][i] = Head(stack[t]) /\ Head(stack[t]) \in Frames
  BY <1>1, <1>5, <1>6, RoundIsInnermost
<1>8. RoundIsRight(stack[t][i], chunks)
  BY <1>7, IInvSays DEF RoundsAreRight
<1>9. stack[t][i].threads - 1 = stack[t][i].todo + chunks[n]
  BY <1>1, <1>5, <1>8 DEF RoundIsRight
<1> QED
  BY <1>1, <1>5, <1>7, <1>9

LEMMA ChunkReturnsKeepsIInv ==
    ASSUME IInv, NEW w \in Workers, chunk_returns(w)
    PROVE  IInv'
<1>1. PICK n : n = chunk_of[w]
  OBVIOUS
<1>2. /\ job[w] = "chunk" /\ job' = [job EXCEPT ![w] = "returned"]
      /\ chunk_of' = [chunk_of EXCEPT ![w] = 1]
      /\ arrived' = [arrived EXCEPT ![n] = @ + 1]
      /\ UNCHANGED <<tasks, stack, ready, built, done>>
  BY <1>1 DEF chunk_returns
<1>3. /\ \A m \in Nodes : chunks'[m] = chunks[m]
      /\ n \in Nodes /\ arrived[n] + 1 <= chunks[n]
  BY <1>1, IInvSays, ChunkArrives
<1>4. arrived[n] \in Nat /\ chunks[n] \in Nat
  BY <1>3, IInvSays, ChunkCounts
<1>5. arrived[n] + 1 \in 0..MaxArrived
  <2>1. PICK f \in Frames : f.threads - 1 = f.todo + chunks[n]
    BY <1>3, <1>4, ChunkHasRound
  <2>2. f.threads \in Nat /\ f.todo \in Nat /\ f.threads \in 0..NumThreads \cup {1}
    BY <2>1, FrameFields, NumThreadsIsNat DEF ThreadCounts
  <2>3. PICK a, d, e, k, r \in Nat : /\ a = f.threads /\ d = f.todo /\ e = chunks[n]
                                     /\ k = NumThreads /\ r = arrived[n]
    BY <1>4, <2>2, NumThreadsIsNat
  <2>4. a - 1 = d + e /\ r + 1 <= e /\ a \in 0..k \cup {1}
    BY <1>3, <2>1, <2>2, <2>3
  <2>5. r + 1 <= k - 1 /\ k # 0
    BY <2>3, <2>4
  <2> QED
    BY <2>3, <2>5 DEF MaxArrived
<1>6. RestOK'
  <2>1. job' \in [Workers -> {"none", "node", "chunk", "returned"}]
    BY <1>2, IInvSays DEF RestOK
  <2>2. chunk_of' \in [Workers -> Nodes]
    BY <1>2, IInvSays DEF RestOK
  <2>3. arrived' \in [Nodes -> 0..MaxArrived]
    BY <1>2, <1>3, <1>5, IInvSays DEF RestOK
  <2> QED
    BY <1>2, <2>1, <2>2, <2>3, IInvSays DEF RestOK
<1>7. \A x \in Workers : job'[x] = "node" <=> job[x] = "node"
  BY <1>2, IInvSays DEF TypeOK
<1>8. QueuedIn(tasks') = QueuedIn(tasks) /\ QueuedOnce(tasks')
  BY <1>2, IInvSays
<1> QED
  BY <1>2, <1>3, <1>6, <1>7, <1>8, CallsUntouched

-----------------------------------------------------------------------------
(* The invariant, and what follows from it.                                *)

LEMMA InitType == Init => TypeOK
<1> SUFFICES ASSUME Init PROVE TypeOK
  OBVIOUS
<1> USE DEF Init
<1>1. 1 \in Nodes
  BY NodesAssumption
<1>2. tasks \in Seq(TaskSet) /\ ready \subseteq Nodes /\ done \in BOOLEAN
  <2>1. tasks \in Seq(TaskSet)
    OBVIOUS
  <2>2. ready \subseteq Nodes
    OBVIOUS
  <2>3. done \in BOOLEAN
    OBVIOUS
  <2> QED
    BY <2>1, <2>2, <2>3
<1>3. job \in [Workers -> {"none", "node", "chunk", "returned"}]
  OBVIOUS
<1>4. chunk_of \in [Workers -> Nodes]
  BY <1>1
<1>5. arrived \in [Nodes -> 0..MaxArrived]
  BY NumThreadsIsNat
<1>6. built \in [Nodes -> Nat]
  OBVIOUS
<1>7. stack \in [Threads -> Seq(Frames)]
  <2>1. NumThreads \in ThreadCounts
    BY NumThreadsIsNat DEF ThreadCounts
  <2>2. Frame(1, NumThreads) \in Frames
    BY <1>1, <2>1, NewFrame
  <2>3. <<Frame(1, NumThreads)>> \in Seq(Frames) /\ <<>> \in Seq(Frames)
    BY <2>2
  <2> QED
    BY <2>3
<1> QED
  BY <1>2, <1>3, <1>4, <1>5, <1>6, <1>7 DEF TypeOK

LEMMA InitIInv == Init => IInv
<1> SUFFICES ASSUME Init PROVE IInv
  OBVIOUS
<1>1. PICK f, s : f = Frame(1, NumThreads) /\ s = <<f>> \o <<>>
  OBVIOUS
<1>2. 1 \in Nodes /\ Main \in Threads /\ TypeOK
  BY NodesAssumption, InitType DEF Threads
<1>3. f \in Frames /\ f.node = 1 /\ f.stage = "create"
  <2>1. NumThreads \in ThreadCounts
    BY NumThreadsIsNat DEF ThreadCounts
  <2> QED
    BY <1>1, <1>2, <2>1, NewFrame
<1>4. IsWithCall(s, f, <<>>)
  BY <1>1, <1>3, EmptyStack, WithCall
<1>5. stack[Main] = s /\ \A t \in Threads \ {Main} : stack[t] = <<>>
  BY <1>1, <1>2 DEF Init
<1>6. /\ tasks = <<>> /\ ready = {} /\ ~done
      /\ \A w \in Workers : job[w] = "none"
      /\ \A n \in Nodes : arrived[n] = 0 /\ built[n] = 0
  BY DEF Init
<1>7. QueuedIn(tasks) = {} /\ QueuedOnce(tasks)
  BY <1>6 DEF QueuedIn, QueuedOnce
<1>8. /\ NodesOf(s) = {1} /\ Distinct(s) /\ Linked(s) /\ s # <<>> /\ Head(s) = f
      /\ \A m, st : On(s, m, st) <=> m = 1 /\ st = "create"
  BY <1>3, <1>4, EmptyStack DEF IsWithCall
<1>9. HeldOnce
  <2>1. \A t \in Threads : Distinct(stack[t]) /\ NodesOf(stack[t]) \cap QueuedIn(tasks) = {}
    BY <1>5, <1>7, <1>8, EmptyStack
  <2>2. \A t, u \in Threads : t # u => NodesOf(stack[t]) \cap NodesOf(stack[u]) = {}
    BY <1>5, EmptyStack
  <2> QED
    BY <1>7, <2>1, <2>2 DEF HeldOnce
<1>10. PICK p : p = [n \in Nodes |-> IF n = 1 THEN "create" ELSE "none"]
  OBVIOUS
<1>11. phase = p
  <2>1. \A n, st : InStage(n, st) <=> n = 1 /\ st = "create"
    BY <1>2, <1>5, <1>8, EmptyStack DEF InStage
  <2>2. p \in [Nodes -> Phases] /\ \A n \in Nodes : p[n] = IF n = 1 THEN "create" ELSE "none"
    BY <1>10 DEF Phases, Stages
  <2>3. PhasesAre(p)
    BY <1>7, <2>1, <2>2, StagesAreNoOtherPhases DEF PhasesAre, Stages
  <2> QED
    BY <1>2, <1>9, <2>3, PhaseIs
<1>12. /\ \A n \in Nodes : p[n] = IF n = 1 THEN "create" ELSE "none"
       /\ \A n \in Nodes : p[n] \notin RoundStages
  BY <1>10 DEF RoundStages
<1>13. TreeIsRight(phase, built, ready)
  <2>1. ASSUME NEW n \in Nodes PROVE NodeIsRight(p, built, n)
    <3>1. p[n] \in {"create", "none"} /\ built[n] = 0
      BY <1>6, <1>12
    <3>2. ASSUME MaySplit(n) PROVE Untouched(p, built, 2 * n) /\ Untouched(p, built, 2 * n + 1)
      <4>1. 2 * n \in Nodes \ {1} /\ 2 * n + 1 \in Nodes \ {1}
        BY <3>2, ChildrenAreNodes
      <4> QED
        BY <1>6, <1>12, <4>1 DEF Untouched
    <3>3. MaySplit(n) => HalvesAreRight(p, built, n)
      BY <3>1, <3>2 DEF HalvesAreRight, Finished
    <3> QED
      BY <3>1, <3>3 DEF NodeIsRight, Stages
  <2> QED
    BY <1>6, <1>11, <2>1 DEF TreeIsRight
<1>14. CallerIsAtRoot
  BY <1>5, <1>6, <1>8 DEF CallerIsAtRoot
<1>15. ASSUME NEW n \in Nodes PROVE chunks[n] = 0
  <2>1. ChunksIn(tasks, n) = {} /\ RunningChunks(n) = {}
    BY <1>6 DEF ChunksIn, RunningChunks
  <2>2. Cardinality(ChunksIn(tasks, n)) = 0 /\ Cardinality(RunningChunks(n)) = 0
    BY <2>1, FS_EmptySet
  <2> QED
    BY <1>6, <2>2 DEF chunks, ChunksOf
<1>16. RoundsAreRight(stack, phase, chunks)
  <2>1. RoundIsRight(f, chunks)
    BY <1>3 DEF RoundIsRight, RoundStages
  <2>2. \A t \in Threads : stack[t] # <<>> => RoundIsRight(Head(stack[t]), chunks)
    BY <1>5, <1>8, <2>1
  <2> QED
    BY <1>15, <2>2 DEF RoundsAreRight
<1>17. \A w \in Workers : job[w] = "node" <=> stack[w] # <<>>
  BY <1>5, <1>6, MainAssumption DEF Threads
<1>18. \A t \in Threads : Linked(stack[t])
  BY <1>5, <1>8, EmptyStack
<1> QED
  BY <1>2, <1>9, <1>13, <1>14, <1>16, <1>17, <1>18 DEF IInv

LEMMA NextIInv == IInv /\ [Next]_vars => IInv'
<1> SUFFICES ASSUME IInv, [Next]_vars PROVE IInv'
  OBVIOUS
<1>1. ASSUME NEW t \in Threads, Create(t) PROVE IInv'
  <2>1. CASE return_node(t)
    BY <2>1, ReturnNodeKeepsIInv
  <2>2. CASE ~return_node(t)
    BY <1>1, <2>2, CallKeepsIInv
  <2> QED
    BY <2>1, <2>2
<1>2. ASSUME NEW w \in Workers, Worker(w) PROVE IInv'
  <2>1. CASE take_task(w)
    BY <2>1, TakeNode, TakeChunk
  <2>2. CASE no_task(w)
    BY <2>2, NoTaskKeepsIInv
  <2>3. CASE chunk_returns(w)
    BY <2>3, ChunkReturnsKeepsIInv
  <2> QED
    BY <1>2, <2>1, <2>2, <2>3 DEF Worker
<1>3. CASE return_root
  BY <1>3, ReturnRootKeepsIInv
<1>4. CASE UNCHANGED vars
  <2>1. UNCHANGED <<tasks, job, chunk_of, stack, arrived, ready, built, done>>
    BY <1>4 DEF vars
  <2>2. RestOK'
    BY <2>1, IInvSays DEF RestOK
  <2>3. \A m \in Nodes : chunks'[m] = chunks[m]
    BY <2>1, QuietChunks
  <2> QED
    BY <2>1, <2>2, <2>3, IInvSays, CallsUntouched
<1> QED
  BY <1>1, <1>2, <1>3, <1>4 DEF Next

LEMMA IInvHolds == Spec => []IInv
BY InitIInv, NextIInv, PTL DEF Spec

\* What the threads share of a parallel_for is what its call makes of it: no
\* chunk is queued or runs once its call has left the round, and none is lost on
\* the way to the barrier.  For any number of workers and of threads to use, any
\* shape of the tree and any way to divide the threads between halves.
THEOREM ChunksStayExact == Spec => []ChunksAreExact
<1>1. IInv => ChunksAreExact
  <2> SUFFICES ASSUME IInv PROVE ChunksAreExact
    OBVIOUS
  <2>1. TypeOK
    BY IInvSays
  <2>2. ASSUME NEW n \in Nodes, chunks[n] # 0
        PROVE  \E t \in Threads : \E i \in DOMAIN stack[t] :
                   stack[t][i].node = n /\ stack[t][i].stage \in RoundStages
    BY <2>2, ChunkHasRound
  <2>3. ASSUME NEW i \in DOMAIN tasks, tasks[i].kind = "chunk"
        PROVE  tasks[i].node \in Nodes /\ chunks[tasks[i].node] # 0
    <3>1. PICK e, n : e = tasks[i] /\ n = e.node
      OBVIOUS
    <3>2. e \in TaskSet
      BY <2>1, <3>1, LenProperties DEF TypeOK
    <3>3. n \in Nodes /\ e = ChunkTask(n)
      BY <2>3, <3>1, <3>2 DEF TaskSet, ChunkTask
    <3>4. i \in ChunksIn(tasks, n)
      BY <3>1, <3>3 DEF ChunksIn
    <3>5. IsFiniteSet(ChunksIn(tasks, n))
      BY <2>1, <3>3, ChunkCounts
    <3>6. QueuedChunks(n) # 0
      BY <3>4, <3>5, FS_EmptySet DEF QueuedChunks
    <3> QED
      BY <2>1, <3>1, <3>3, <3>6, ChunkCounts
  <2>4. ASSUME NEW w \in Workers, job[w] = "chunk"
        PROVE  chunk_of[w] \in Nodes /\ chunks[chunk_of[w]] # 0
    <3>1. PICK n : n = chunk_of[w]
      OBVIOUS
    <3>2. n \in Nodes
      BY <2>1, <3>1 DEF TypeOK
    <3>3. w \in RunningChunks(n)
      BY <2>4, <3>1 DEF RunningChunks
    <3>4. IsFiniteSet(RunningChunks(n))
      BY <2>1, <3>2, ChunkCounts
    <3>5. NumRunning(n) # 0
      BY <3>3, <3>4, FS_EmptySet DEF NumRunning
    <3> QED
      BY <2>1, <3>1, <3>2, <3>5, ChunkCounts
  <2>5. NoChunkOutlivesItsCall
    BY <2>2, <2>3, <2>4 DEF NoChunkOutlivesItsCall
  <2>6. ChunksAddUp
    <3> SUFFICES ASSUME NEW t \in Threads, NEW i \in DOMAIN stack[t],
                        stack[t][i].stage \in RoundStages
                 PROVE  stack[t][i].threads - 1 = stack[t][i].todo + ChunksOf(stack[t][i].node)
      BY DEF ChunksAddUp
    <3>1. stack[t] \in Seq(Frames) /\ Linked(stack[t])
      BY IInvSays DEF IInv, TypeOK
    <3>2. stack[t] # <<>> /\ stack[t][i] = Head(stack[t]) /\ Head(stack[t]) \in Frames
      BY <3>1, RoundIsInnermost
    <3>3. PICK f : f = stack[t][i]
      OBVIOUS
    <3>4. RoundIsRight(f, chunks) /\ f.node \in Nodes /\ f.stage \in RoundStages
      BY <3>2, <3>3, IInvSays, FrameFields DEF RoundsAreRight
    <3>5. chunks[f.node] = ChunksOf(f.node)
      BY <3>4 DEF chunks
    <3> QED
      BY <3>3, <3>4, <3>5 DEF RoundIsRight
  <2> QED
    BY <2>1, <2>5, <2>6 DEF ChunksAreExact
<1> QED
  BY <1>1, IInvHolds, PTL

\* No node is built by two threads, or twice by one, and when bvh_build() goes
\* on to read the tree all of it is there.
THEOREM TreeIsBuiltOnce == Spec => []TreeIsComplete
<1>1. IInv => TreeIsComplete
  <2> SUFFICES ASSUME IInv PROVE TreeIsComplete
    OBVIOUS
  <2>1. ASSUME NEW n \in Nodes
        PROVE  /\ built[n] <= 1
               /\ done /\ MaySplit(n) =>
                     /\ built[2 * n] = built[2 * n + 1]
                     /\ built[2 * n] = 1 => built[n] = 1
    <3>1. NodeIsRight(phase, built, n)
      BY IInvSays DEF TreeIsRight
    <3>2. built[n] \in {0, 1}
      BY <3>1 DEF NodeIsRight
    <3>3. ASSUME done, MaySplit(n)
          PROVE  built[2 * n] = built[2 * n + 1] /\ (built[2 * n] = 1 => built[n] = 1)
      <4>1. phase[n] = "none"
        BY <3>3 DEF IInv, CallerIsAtRoot
      <4>2. HalvesAreRight(phase, built, n)
        BY <3>1, <3>3 DEF NodeIsRight
      <4> QED
        BY <3>2, <4>1, <4>2 DEF HalvesAreRight, Untouched, Finished
    <3> QED
      BY <3>2, <3>3
  <2>2. done => built[1] = 1
    BY DEF IInv, CallerIsAtRoot
  <2> QED
    BY <2>1, <2>2 DEF TreeIsComplete
<1> QED
  BY <1>1, IInvHolds, PTL

=============================================================================

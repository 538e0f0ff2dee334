-------------------------------- MODULE Bvh --------------------------------
(***************************************************************************)
(* lib/intersection_structures/bvh.cpp: the tree that bvh_build() makes,   *)
(* its layout in memory and the traversal along a ray.  (How the build     *)
(* uses the pool is in BvhBuild.tla.)                                      *)
(*                                                                         *)
(* Costs are left out: any split bucket with something on both sides may   *)
(* be the best, and any node that is small enough may be cheaper as a      *)
(* leaf.  (A side with nothing has an empty box, whose surface area is     *)
(* infinite; times a count of 0 that is not a number, and so never less.   *)
(* The smallest and the largest centroid are in the first and the last     *)
(* bucket, so there is a split with two sides.)                            *)
(*                                                                         *)
(* A node whose threads work together partitions like any other one, with  *)
(* std::partition(): RAYNI_BVH_MULTITHREAD_INTERSECTABLE_INFO_PARTITIONING *)
(* is defined as 0, so the code that moves chunks in threads is not built. *)
(***************************************************************************)
EXTENDS Geometry, Sequences, SequencesExt, TLC

CONSTANTS
    BvhScenes,              \* boxes of the intersectables, sequences of boxes
    NumBuckets,             \* NUM_BUCKETS
    MaxLeafIntersectables,  \* MAX_LEAF_INTERSECTABLES
    ThreadMin,              \* THREAD_MIN_INTERSECTABLES
    NumThreads,             \* threads_available() when the build begins
    CountModulus,           \* 2^8: width of the count in a leaf
    BlockSize,              \* BuildNodeBlock::SIZE
    NumBuilders             \* threads that make nodes

VARIABLES
    boxes,      \* boxes of the intersectables
    todo,       \* calls of create_build_node() to be made
    tree,       \* build nodes by path: 1 is the root, 2p and 2p+1 below p
    infos,      \* context.infos: index of the intersectable at each place
    cancelled,  \* cancellable.cancelled()
    blocks,     \* of each thread, how much of each of its node blocks is used
    nodes,      \* nodes_ of the BVH
    ordered     \* intersectables_ of the BVH

bvhVars == <<boxes, todo, tree, infos, cancelled, blocks, nodes, ordered>>

-----------------------------------------------------------------------------
Call(path, start, end, threads) ==
    [path |-> path, start |-> start, end |-> end, threads |-> threads]

Places(call) == call.start .. call.end - 1
Count(call)  == call.end - call.start

BoxOf(call)       == MergeAll({boxes[infos[n]] : n \in Places(call)})
CentroidAt(n)     == Centroid(boxes[infos[n]])
CentroidsBox(call) == MergeAll({[min |-> CentroidAt(n), max |-> CentroidAt(n)] : n \in Places(call)})
SplitAxis(call)   == MaxExtentAxis(CentroidsBox(call))
SameCentroid(call) == IsPlanar(CentroidsBox(call), SplitAxis(call))

bucket_index(centroid, centroids_box, axis) ==
    LET min == centroids_box.min[axis]
        max == centroids_box.max[axis]
        b   == (NumBuckets * (centroid[axis] - min)) \div (max - min)
    IN  IF b >= NumBuckets THEN NumBuckets - 1 ELSE b

BucketOf(call, index) == bucket_index(Centroid(boxes[index]), CentroidsBox(call), SplitAxis(call))

\* What bucket_split() may return.
bucket_split(call) ==
    {b \in 0 .. NumBuckets - 2 :
        /\ \E n \in Places(call) : BucketOf(call, infos[n]) <= b
        /\ \E n \in Places(call) : BucketOf(call, infos[n]) > b}

\* Mutant: the bucket before which to split, to bucket_split() the last one of the left side.
LeftOfBefore(call, b) == {n \in Places(call) : BucketOf(call, infos[n]) < b}

LeftOf(call, b) == {n \in Places(call) : BucketOf(call, infos[n]) <= b}

Horizontal(call) == call.threads >= 2 /\ Count(call) > ThreadMin

\* Any order std::partition() may leave the places in.
Partitioned(call, left) ==
    {[n \in Places(call) |-> infos[order[n]]] :
        order \in {f \in [Places(call) -> Places(call)] :
                     /\ \A m, n \in Places(call) : f[m] = f[n] => m = n
                     /\ \A n \in Places(call) :
                            f[n] \in left <=> n < call.start + Cardinality(left)}}

-----------------------------------------------------------------------------
(* Build nodes are kept in blocks of the thread that makes them.  Which    *)
(* thread makes a node is fixed here.                                      *)

next_build_node(used) ==
    IF Last(used) = BlockSize THEN Append(used, 1) ELSE [used EXCEPT ![Len(used)] = @ + 1]

WithNode(path) == [blocks EXCEPT ![path % NumBuilders] = next_build_node(@)]

\* What is to be reserved for nodes.
build_nodes_used ==
    LET Total(used) == FoldLeft(LAMBDA sum, n : sum + n, 0, used)
    IN  MapThenSumSet(LAMBDA t : Total(blocks[t]), DOMAIN blocks)

\* What the tasks of prepare_build_context() write: each makes the infos of its chunk.
PrepareStart(t, count) == (t * count) \div NumThreads

prepare_build_context(count) ==
    [n \in 0 .. count - 1 |->
        IF \E t \in 0 .. NumThreads - 1 : n \in PrepareStart(t, count) .. PrepareStart(t + 1, count) - 1
        THEN n + 1 ELSE 1]

Init ==
    /\ boxes \in BvhScenes
    /\ infos = prepare_build_context(Len(boxes))
    /\ blocks = [t \in 0 .. NumBuilders - 1 |-> <<0>>]
    /\ todo = {Call(1, 0, Len(boxes), NumThreads)}
    /\ tree = <<>>
    /\ cancelled = FALSE
    /\ nodes = <<>> /\ ordered = <<>>

\* BuildNode: the box is known at once here, in the code an inner node's is
\* merged from its children's when both are done.
BuildLeaf(call)        == [split_axis |-> 3, box |-> BoxOf(call), start |-> call.start, end |-> call.end]
BuildSplit(call, axis) == [split_axis |-> axis, box |-> BoxOf(call)]

MustBeLeaf(call) ==
    \/ SameCentroid(call)
    \/ cancelled
    \/ ~Horizontal(call) /\ Count(call) = 1

\* Cost is asked for where there are more than two.
MayBeLeaf(call) ==
    \/ MustBeLeaf(call)
    \/ ~Horizontal(call) /\ Count(call) > 2 /\ Count(call) <= MaxLeafIntersectables

create_leaf ==
    \E call \in todo :
        /\ MayBeLeaf(call)
        /\ tree' = tree @@ (call.path :> BuildLeaf(call))
        /\ blocks' = WithNode(call.path)
        /\ todo' = todo \ {call}
        /\ UNCHANGED <<boxes, infos, nodes, ordered, cancelled>>

Clamp(x, low, high) == Max({low, Min({x, high})})

ThreadsLeft(call, mid) ==
    IF Horizontal(call)
    THEN Clamp(((mid - call.start) * call.threads) \div Count(call), 1, call.threads - 1)
    ELSE 0

Divide(call, axis, mid) ==
    LET left == ThreadsLeft(call, mid)
    IN  /\ tree' = tree @@ (call.path :> BuildSplit(call, axis))
        /\ blocks' = WithNode(call.path)
        /\ todo' = (todo \ {call}) \cup
                   {Call(2 * call.path, call.start, mid, left),
                    Call(2 * call.path + 1, mid, call.end,
                         IF Horizontal(call) THEN call.threads - left ELSE 0)}

\* Two intersectables: one on each side, the lesser centroid first.
create_pair ==
    \E call \in todo :
        /\ ~MustBeLeaf(call) /\ ~Horizontal(call) /\ Count(call) = 2
        /\ LET mid  == (call.start + call.end) \div 2
               axis == SplitAxis(call)
           IN  /\ infos' = IF CentroidAt(mid)[axis] < CentroidAt(call.start)[axis]
                           THEN [infos EXCEPT ![call.start] = infos[mid],
                                              ![mid] = infos[call.start]]
                           ELSE infos
               /\ Divide(call, axis, mid)
        /\ UNCHANGED <<boxes, nodes, ordered, cancelled>>

create_split ==
    \E call \in todo :
        /\ ~MustBeLeaf(call) /\ (Count(call) > 2 \/ Horizontal(call))
        /\ \E b \in bucket_split(call) :
             LET left == LeftOf(call, b)
             IN  \E part \in Partitioned(call, left) :
                    /\ infos' = part @@ infos
                    /\ Divide(call, SplitAxis(call), call.start + Cardinality(left))
        /\ UNCHANGED <<boxes, nodes, ordered, cancelled>>

(***************************************************************************)
(* build_node_to_nodes()                                                   *)
(***************************************************************************)
Visit(path)   == [visit |-> TRUE, of |-> path]
SetRight(pos) == [visit |-> FALSE, of |-> pos]

InnerNode(node) == [box |-> node.box, axis |-> node.split_axis, count |-> 0, offset |-> 0]
LeafNode(node, size) ==
    [box |-> node.box, axis |-> 0, count |-> (node.end - node.start) % CountModulus, offset |-> size]

\* Mutant: the offset counts from the left child.
RightOffsetFromLeft(size, pos) == size - pos - 1

RightOffset(size, pos) == size - pos

EmplaceStep(s) ==
    LET top  == Head(s.stack)
        node == tree[top.of]
        pos  == Len(s.nodes)
    IN  CASE ~top.visit ->
               [s EXCEPT !.stack = Tail(@), !.nodes[top.of + 1].offset = RightOffset(pos, top.of)]
          [] top.visit /\ node.split_axis < 3 ->
               [s EXCEPT !.stack = <<Visit(2 * top.of), SetRight(pos),
                                     Visit(2 * top.of + 1)>> \o Tail(@),
                         !.nodes = Append(@, InnerNode(node))]
          [] OTHER ->
               [s EXCEPT !.stack = Tail(@),
                         !.nodes = Append(@, LeafNode(node, Len(s.ordered))),
                         !.ordered = @ \o [k \in 1 .. node.end - node.start |->
                                              infos[node.start + k - 1]]]

build_node_to_nodes ==
    LET s[n \in 0..2 * Cardinality(DOMAIN tree)] ==
            IF n = 0 THEN [stack |-> <<Visit(1)>>, nodes |-> <<>>, ordered |-> <<>>]
            ELSE LET last == s[n-1]
                 IN  IF last.stack = <<>> THEN last ELSE EmplaceStep(last)
    IN  s[2 * Cardinality(DOMAIN tree)]

bvh_build_finish ==
    /\ todo = {} /\ nodes = <<>>
    /\ nodes' = build_node_to_nodes.nodes
    /\ ordered' = build_node_to_nodes.ordered
    /\ UNCHANGED <<boxes, todo, tree, infos, blocks, cancelled>>

\* Anybody may cancel while the build goes on.
cancel ==
    /\ nodes = <<>> /\ ~cancelled
    /\ cancelled' = TRUE
    /\ UNCHANGED <<boxes, todo, tree, infos, blocks, nodes, ordered>>

Next ==
    \/ create_leaf \/ create_pair \/ create_split
    \/ bvh_build_finish \/ cancel

Spec == Init /\ [][Next]_bvhVars

-----------------------------------------------------------------------------
(***************************************************************************)
(* BVH::intersect().  `hit' gives the distance for the intersectables that *)
(* the ray hits.  An intersectable reports a hit only if it is nearer than *)
(* the intersection that is passed to it.  The nearer child by the sign of *)
(* the direction comes first, the other one is pushed on the stack.        *)
(***************************************************************************)
Node(n) == nodes[n + 1]
IsLeaf(node) == node.count > 0

LeafIndices(leaf) == {ordered[n] : n \in leaf.offset + 1 .. leaf.offset + leaf.count}

TraverseStep(s, ray, hit) ==
    LET node  == Node(s.node)
        left  == s.node + 1
        right == s.node + node.offset
        hits  == LeafIndices(node) \cap DOMAIN hit
        t     == Min({hit[i] : i \in hits} \cup {s.t})
        missed == ~Intersects(node.box, ray, s.t)
        Pop(r) == IF r.stack = <<>> THEN [r EXCEPT !.done = TRUE]
                  ELSE [r EXCEPT !.node = Head(r.stack), !.stack = Tail(@)]
    IN  CASE missed -> Pop(s)
          [] ~missed /\ IsLeaf(node) -> Pop([s EXCEPT !.t = t])
          [] ~missed /\ ~IsLeaf(node) /\ ray.direction[node.axis] < 0 ->
               [s EXCEPT !.node = right, !.stack = <<left>> \o @]
          [] OTHER ->
               [s EXCEPT !.node = left, !.stack = <<right>> \o @]

\* The distance of the hit that is reported, Infinity when there is none.
intersect(ray, hit) ==
    LET s[n \in 0..2 * Len(nodes)] ==
            IF n = 0 THEN [node |-> 0, stack |-> <<>>, t |-> Infinity, done |-> FALSE]
            ELSE LET last == s[n-1]
                 IN  IF last.done THEN last ELSE TraverseStep(last, ray, hit)
    IN  s[2 * Len(nodes)].t

-----------------------------------------------------------------------------
(***************************************************************************)
(* log_build_info(): a walk over all nodes, to count leaves by what is in  *)
(* them, up to five.  Times, sizes in bytes and the text are left out.     *)
(***************************************************************************)
WalkStep(s) ==
    LET node == Node(s.node)
        below == [node |-> s.node + node.offset, depth |-> s.depth + 1]
        counted == [s EXCEPT !.depths = @ \cup {s.depth}, !.counts = Append(@, node.count)]
    IN  CASE ~IsLeaf(node) ->
               [s EXCEPT !.node = s.node + 1, !.depth = @ + 1, !.stack = <<below>> \o @]
          [] IsLeaf(node) /\ s.stack # <<>> ->
               [counted EXCEPT !.node = Head(s.stack).node, !.depth = Head(s.stack).depth,
                               !.stack = Tail(@)]
          [] OTHER -> [counted EXCEPT !.done = TRUE]

log_build_info ==
    LET s[n \in 0..Len(nodes)] ==
            IF n = 0 THEN [node |-> 0, depth |-> 0, stack |-> <<>>, depths |-> {},
                           counts |-> <<>>, done |-> FALSE]
            ELSE IF s[n-1].done THEN s[n-1] ELSE WalkStep(s[n-1])
        walk == s[Len(nodes)]
        Index(count) == Min({count, 5}) - 1
    IN  [min_depth |-> Min(walk.depths),
         max_depth |-> Max(walk.depths),
         leafs     |-> Len(walk.counts),
         leaf_intersectables_count |->
             [n \in 0..4 |-> Len(SelectSeq(walk.counts, LAMBDA c : Index(c) = n))]]
=============================================================================

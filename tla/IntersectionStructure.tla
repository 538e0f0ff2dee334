----------------------- MODULE IntersectionStructure -----------------------
(***************************************************************************)
(* lib/intersection_structure.cpp: a structure of the chosen type is built *)
(* from intersectables, and then asked what a ray hits.  KdTree and Bvh    *)
(* are the two types.                                                      *)
(***************************************************************************)
EXTENDS Geometry, Sequences, SequencesExt, TLC

CONSTANTS
    KdScenes, BvhScenes,  \* boxes of the intersectables, by type
    Rays,                 \* rays to ask for
    MaxDistance,          \* bound: the largest distance of a hit
    MaxDepth, NumBuckets, MaxLeafIntersectables, ThreadMin, NumThreads,
    CountModulus, BlockSize, NumBuilders

ASSUME MaxDepthAssumption == MaxDepth \in Nat
ASSUME NumBucketsAssumption == NumBuckets \in Nat \ {0, 1}
ASSUME NumThreadsAssumption == NumThreads \in Nat \ {0}  \* assertion of Barrier
ASSUME BlocksAssumption == BlockSize \in Nat \ {0} /\ NumBuilders \in Nat \ {0}

VARIABLES
    type,  \* IntersectionStructureType
    boxes, todo, tree, blocks, nodes,
    sides_of_plane, indices,                \* of a KdTree
    infos, cancelled, ordered    \* of a Bvh

Kd  == INSTANCE KdTree
Bvh == INSTANCE Bvh

onlyKdVars  == <<sides_of_plane, indices>>
onlyBvhVars == <<infos, cancelled, ordered>>
vars == <<type, boxes, todo, tree, blocks, nodes, onlyKdVars, onlyBvhVars>>

\* intersection_structure_build()
Init ==
    \/ /\ type = "kdtree" /\ Kd!Init
       /\ infos = <<>> /\ cancelled = FALSE /\ ordered = <<>>
    \/ /\ type = "bvh" /\ Bvh!Init
       /\ sides_of_plane = <<>> /\ indices = <<>>

build_kdtree == type = "kdtree" /\ Kd!Next /\ UNCHANGED <<type, onlyBvhVars>>
build_bvh    == type = "bvh" /\ Bvh!Next /\ UNCHANGED <<type, onlyKdVars>>

Next == build_kdtree \/ build_bvh

Spec == Init /\ [][Next]_vars

-----------------------------------------------------------------------------
Built(of) == type = of /\ nodes # <<>>

\* Distances at which the ray is inside a box: where the intersectable in it
\* may be hit.
HitDistances(box, ray) == {t \in 1..MaxDistance : InBox(PointAt(ray, t), box)}

\* Two intersectables of which each is hit at one distance.
TwoHits(ray) ==
    UNION {{(i :> t @@ j :> u) : t \in HitDistances(boxes[i], ray),
                                 u \in HitDistances(boxes[j], ray)} :
              <<i, j>> \in {p \in (DOMAIN boxes) \X (DOMAIN boxes) : p[1] < p[2]}}

OneHit(ray) == UNION {{(i :> t) : t \in HitDistances(boxes[i], ray)} : i \in DOMAIN boxes}

(***************************************************************************)
(* The counts of the sweep in find_plane() are those of the split: this is *)
(* what the assertions at the end of split_build_input() say of them, and  *)
(* what the storage is reserved for.  The events of a node, of which most  *)
(* are inherited, are those of the clipped boxes of its intersectables.    *)
(***************************************************************************)
Clipped(input) ==
    Kd!EventsOf(input.indices, LAMBDA i : Intersection(boxes[i], input.box))

InputsAgree ==
    type = "kdtree" =>
        \A call \in Range(todo) :
            /\ call.count = Len(call.input.indices)
            /\ call.input.events = SortSeq(call.input.events, Kd!EventLess)
            /\ Len(call.input.events) = Len(Clipped(call.input))
            /\ Range(call.input.events) = Range(Clipped(call.input))

(***************************************************************************)
(* Whatever planes are chosen, the traversal of a k-d tree gets to an      *)
(* intersectable that is hit anywhere in its box, also when the hit is on  *)
(* a split plane or the ray runs in one, and its stack never holds more    *)
(* than the depth of the tree.                                             *)
(***************************************************************************)
KdTreeFindsHits ==
    Built("kdtree") =>
        \A ray \in Rays : \A hit \in OneHit(ray) :
            LET result == Kd!intersect(ray, hit)
            IN  result.found = DOMAIN hit /\ result.deepest <= MaxDepth

(***************************************************************************)
(* The traversal of a k-d tree stops at the first leaf where something is  *)
(* hit.  That is the nearest hit when it is inside the cell of the leaf    *)
(* (it may be beyond it) and the ray does not run in a split plane.        *)
(***************************************************************************)
RunsInPlane(ray) ==
    \E n \in Range(nodes) : /\ n.split_axis < 3
                            /\ ray.direction[n.split_axis] = 0
                            /\ ray.origin[n.split_axis] = n.position

KdTreeHitInCellIsNearest ==
    Built("kdtree") =>
        \A ray \in {r \in Rays : ~RunsInPlane(r)} : \A hit \in TwoHits(ray) :
            LET result == Kd!intersect(ray, hit)
            IN  \A i \in result.found, j \in DOMAIN hit :
                    LessOrEqual(hit[i], result.t_max) /\ hit[j] < hit[i] => j \in result.found

(***************************************************************************)
(* A BVH finds the nearest hit, whatever splits and whatever order of the  *)
(* intersectables the build has made.  Rays that run along the first face  *)
(* of a box are left out: AABB::intersects() takes 0 times infinity for    *)
(* the entry on the first axis, which is never before anything.            *)
(***************************************************************************)
RunsInFirstFace(ray) ==
    /\ ray.direction[0] = 0
    /\ \E n \in Range(nodes) : ray.origin[0] \in {n.box.min[0], n.box.max[0]}

BvhFindsNearestHit ==
    Built("bvh") =>
        \A ray \in {r \in Rays : ~RunsInFirstFace(r)} :
            \A hit \in OneHit(ray) \cup TwoHits(ray) :
                Bvh!intersect(ray, hit) = Min(Range(hit))

(***************************************************************************)
(* Calls of bvh.cpp work on ranges of one shared array, in any order: all  *)
(* intersectables are in it from the chunks of prepare_build_context() on  *)
(* and through every partition, and a place belongs to one call that is to *)
(* be made or to one leaf.                                                 *)
(***************************************************************************)
Leaves == {p \in DOMAIN tree : tree[p].split_axis = 3}

OwnersOf(n) ==
    {call.path : call \in {c \in todo : n \in Bvh!Places(c)}} \cup
    {p \in Leaves : n \in tree[p].start .. tree[p].end - 1}

PlacesAreKept ==
    type = "bvh" =>
        /\ Range(infos) = DOMAIN boxes
        /\ \A n \in 0 .. Len(boxes) - 1 : Cardinality(OwnersOf(n)) = 1
        /\ \A call \in todo : call.start < call.end

(***************************************************************************)
(* What is reserved for nodes and indices, from the blocks of all threads, *)
(* is what is needed (the assertions at the end of both builds); and the   *)
(* nodes in memory have the leaves of the tree, at their depths: what the  *)
(* log says of the tree is so.                                             *)
(***************************************************************************)
Depth(path) == Min({d \in 0 .. path : path < 2 ^ (d + 1)})

LeafSize(leaf) == IF type = "kdtree" THEN Len(leaf.indices) ELSE leaf.end - leaf.start

CountOfSize(low, high) == Cardinality({p \in Leaves : LeafSize(tree[p]) \in low..high})

DepthsAreRight(info) ==
    /\ info.leafs = Cardinality(Leaves)
    /\ info.min_depth = Min({Depth(p) : p \in Leaves})
    /\ info.max_depth = Max({Depth(p) : p \in Leaves})

LayoutIsExact ==
    /\ Built("kdtree") =>
          /\ Kd!build_nodes_used = [nodes |-> Len(nodes), indices |-> Len(indices)]
          /\ DepthsAreRight(Kd!log_build_info)
          /\ Kd!log_build_info.stack <= MaxDepth
          /\ Kd!log_build_info.max_index_count = Max({LeafSize(tree[p]) : p \in Leaves})
          /\ \A n \in 0..9 : Kd!log_build_info.leaf_index_count[n] =
                               CountOfSize(n, IF n = 9 THEN Len(boxes) ELSE n)
    /\ Built("bvh") =>
          /\ Bvh!build_nodes_used = Len(nodes)
          /\ Len(ordered) = Len(boxes)
          /\ DepthsAreRight(Bvh!log_build_info)
          /\ \A n \in 0..4 : Bvh!log_build_info.leaf_intersectables_count[n] =
                               CountOfSize(n + 1, IF n = 4 THEN Len(boxes) ELSE n + 1)

\* Nothing gets lost on the way from the intersectables to the leaves in memory.
BuildLosesNothing == InputsAgree /\ PlacesAreKept /\ LayoutIsExact
=============================================================================

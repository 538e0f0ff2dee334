------------------------------- MODULE KdTree -------------------------------
(***************************************************************************)
(* lib/intersection_structures/kdtree.cpp: the tree that kdtree_build()    *)
(* makes, its layout in memory and the traversal along a ray.  (How the    *)
(* build uses threads is in KdTreeBuild.tla.)                              *)
(*                                                                         *)
(* The boxes of the intersectables are all that is known of them.  Costs   *)
(* are left out: any plane the sweep finds may be the best one, either     *)
(* side of it the better one, and any node may be cheaper as a leaf.       *)
(***************************************************************************)
EXTENDS Geometry, Sequences, SequencesExt, TLC

CONSTANTS
    KdScenes,    \* boxes of the intersectables, sequences of boxes
    MaxDepth,    \* max_depth_limit()
    BlockSize,   \* BuildNodeBlock::SIZE
    NumBuilders  \* threads that make nodes

VARIABLES
    boxes,           \* context.intersectables, the boxes of them
    todo,            \* calls of create_build_node() to be made, first one first
    tree,            \* build nodes by path: 1 is the root, 2p and 2p+1 below p
    sides_of_plane,  \* thread_state->sides_of_plane, reused by all calls
    blocks,          \* of each thread, how much of each of its node blocks is used
    nodes,           \* nodes_ of the KdTree
    indices          \* indices_ of the KdTree

kdVars == <<boxes, todo, tree, sides_of_plane, blocks, nodes, indices>>

-----------------------------------------------------------------------------
\* BuildEvent::Type, in the order of the enumeration
END    == 0
PLANAR == 1
START  == 2

Event(type, axis, position, index) ==
    [type |-> type, axis |-> axis, position |-> position, index |-> index]

EventLess(a, b) ==
    \/ a.position < b.position
    \/ a.position = b.position /\ a.axis < b.axis
    \/ a.position = b.position /\ a.axis = b.axis /\ a.type < b.type

generate_build_events(index, box) ==
    LET OfAxis(axis) ==
            IF IsPlanar(box, axis)
            THEN <<Event(PLANAR, axis, box.min[axis], index)>>
            ELSE <<Event(START, axis, box.min[axis], index),
                   Event(END, axis, box.max[axis], index)>>
    IN  FlattenSeq([n \in 1..Cardinality(Axes) |-> OfAxis(n - 1)])

EventsOf(is, Box(_)) ==
    FlattenSeq([n \in 1..Len(is) |-> generate_build_events(is[n], Box(is[n]))])

\* The events are sorted when the sweep gets them.
BuildInput(is, events, box) ==
    [indices |-> is, events |-> SortSeq(events, EventLess), box |-> box]

initial_build_input(scene) ==
    LET is == [n \in 1..Len(scene) |-> n]
    IN  BuildInput(is, EventsOf(is, LAMBDA i : scene[i]), MergeAll(Range(scene)))

(***************************************************************************)
(* find_plane(): one sweep over the events, which are sorted by position,  *)
(* axis and type, so that those of a plane are next to each other, ends    *)
(* before planar ones before starts.                                       *)
(***************************************************************************)
NumEventsInPlane(events, from, first, type) ==
    LET Continues(n) == /\ events[n].axis = first.axis
                        /\ events[n].position = first.position
                        /\ events[n].type = type
    IN  Min({n \in from..Len(events) : ~Continues(n)} \cup {Len(events) + 1}) - from

SweepStep(events, s) ==
    LET first == events[s.next]
        axis  == first.axis
        ends    == NumEventsInPlane(events, s.next, first, END)
        planars == NumEventsInPlane(events, s.next + ends, first, PLANAR)
        starts  == NumEventsInPlane(events, s.next + ends + planars, first, START)
        right   == s.right[axis] - planars - ends
    IN  [next  |-> s.next + ends + planars + starts,
         left  |-> [s.left EXCEPT ![axis] = @ + starts + planars],
         right |-> [s.right EXCEPT ![axis] = right],
         found |-> s.found \cup {[axis |-> axis, position |-> first.position,
                                  n_left |-> s.left[axis], n_plane |-> planars,
                                  n_right |-> right]}]

\* Intersectables in the plane go to either side, as a whole.
LEFT  == "left"
RIGHT == "right"

Plane(found, side) ==
    [axis |-> found.axis, position |-> found.position, side_if_in_plane |-> side]

find_plane(input) ==
    LET n == Len(input.indices)
        s[k \in 0..Len(input.events)] ==
            IF k = 0
            THEN [next |-> 1, left |-> Vector(0), right |-> Vector(n), found |-> {}]
            ELSE LET last == s[k-1]
                 IN  IF last.next > Len(input.events) THEN last
                     ELSE SweepStep(input.events, last)
    IN  s[Len(input.events)].found

(***************************************************************************)
(* split_build_input()                                                     *)
(***************************************************************************)

\* SideOfPlane
BOTH       == "both"
LEFT_ONLY  == "left only"
RIGHT_ONLY == "right only"

SideOfEvent(e, plane, otherwise) ==
    CASE e.axis # plane.axis -> otherwise
      [] e.type = END /\ e.position <= plane.position -> LEFT_ONLY
      [] e.type = START /\ e.position >= plane.position -> RIGHT_ONLY
      [] e.type = PLANAR /\ e.position < plane.position -> LEFT_ONLY
      [] e.type = PLANAR /\ e.position > plane.position -> RIGHT_ONLY
      [] e.type = PLANAR /\ e.position = plane.position ->
            IF plane.side_if_in_plane = LEFT THEN LEFT_ONLY ELSE RIGHT_ONLY
      [] OTHER -> otherwise

ResetSides(sides, is) == [i \in DOMAIN sides |-> IF i \in Range(is) THEN BOTH ELSE sides[i]]

classify_intersectables(sides, input, plane) ==
    FoldLeft(LAMBDA s, e : [s EXCEPT ![e.index] = SideOfEvent(e, plane, @)],
             ResetSides(sides, input.indices), input.events)

\* What goes to one side: the events of intersectables only there, and those
\* of the others, made anew from the clipped box.
SideInput(sides, input, only, box) ==
    LET cut == SelectSeq(input.indices, LAMBDA i : sides[i] = BOTH)
    IN  BuildInput(SelectSeq(input.indices, LAMBDA i : sides[i] \in {BOTH, only}),
                   SelectSeq(input.events, LAMBDA e : sides[e.index] = only)
                       \o EventsOf(cut, LAMBDA i : Intersection(boxes[i], box)),
                   box)

\* Once the intersectables are classified.
split_build_input(sides, input, plane) ==
    LET box == SplitBox(input.box, plane.axis, plane.position)
    IN  [left  |-> SideInput(sides, input, LEFT_ONLY, box.left),
         right |-> SideInput(sides, input, RIGHT_ONLY, box.right)]

\* What is reserved for the indices of each side.
NumIndices(found, side) ==
    [left  |-> found.n_left + IF side = LEFT THEN found.n_plane ELSE 0,
     right |-> found.n_right + IF side = RIGHT THEN found.n_plane ELSE 0]

-----------------------------------------------------------------------------
(* Build nodes are kept in blocks of the thread that makes them.  Which    *)
(* thread makes a node is fixed here.                                      *)

next_build_node(used) ==
    IF Last(used) = BlockSize THEN Append(used, 1) ELSE [used EXCEPT ![Len(used)] = @ + 1]

WithNode(path) == [blocks EXCEPT ![path % NumBuilders] = next_build_node(@)]

BuildSplit(plane) == [split_axis |-> plane.axis, position |-> plane.position]
BuildLeaf(is)     == [split_axis |-> 3, indices |-> is]

IsLeaf(node) == node.split_axis > 2

\* build_nodes_used(): what is to be reserved for nodes and indices.
build_nodes_used ==
    LET Total(used) == FoldLeft(LAMBDA sum, n : sum + n, 0, used)
        Lists == {p \in DOMAIN tree : IsLeaf(tree[p]) /\ Len(tree[p].indices) > 1}
    IN  [nodes   |-> MapThenSumSet(LAMBDA t : Total(blocks[t]), DOMAIN blocks),
         indices |-> MapThenSumSet(LAMBDA p : Len(tree[p].indices), Lists)]

-----------------------------------------------------------------------------
Call(path, max_depth, count, input) ==
    [path |-> path, max_depth |-> max_depth, count |-> count, input |-> input]

Init ==
    /\ boxes \in KdScenes
    /\ todo = <<Call(1, MaxDepth, Len(boxes), initial_build_input(boxes))>>
    /\ tree = <<>>
    /\ sides_of_plane = [i \in DOMAIN boxes |-> LEFT_ONLY]
    /\ blocks = [t \in 0 .. NumBuilders - 1 |-> <<0>>]
    /\ nodes = <<>> /\ indices = <<>>

create_leaf ==
    /\ todo # <<>>
    /\ blocks' = WithNode(Head(todo).path)
    /\ tree' = tree @@ (Head(todo).path :> BuildLeaf(Head(todo).input.indices))
    /\ todo' = Tail(todo)
    /\ UNCHANGED <<boxes, sides_of_plane, nodes, indices>>

create_split ==
    /\ todo # <<>>
    /\ LET call  == Head(todo)
           input == call.input
       IN  /\ call.max_depth > 0 /\ Len(input.indices) > 1
           /\ \E found \in find_plane(input), side \in {LEFT, RIGHT} :
                LET plane == Plane(found, side)
                    sides == classify_intersectables(sides_of_plane, input, plane)
                    split == split_build_input(sides, input, plane)
                    count == NumIndices(found, side)
                    Below(path, c, part) == Call(path, call.max_depth - 1, c, part)
                IN  /\ sides_of_plane' = sides
                    /\ blocks' = WithNode(call.path)
                    /\ tree' = tree @@ (call.path :> BuildSplit(plane))
                    /\ todo' = <<Below(2 * call.path, count.left, split.left),
                                 Below(2 * call.path + 1, count.right, split.right)>>
                                 \o Tail(todo)
    /\ UNCHANGED <<boxes, nodes, indices>>

(***************************************************************************)
(* build_node_to_nodes(): nodes in the order of the recursion, a left node *)
(* right after its parent.  The recursion is a stack of paths to visit and *)
(* of positions whose right offset is to be set.                           *)
(***************************************************************************)
Visit(path)   == [visit |-> TRUE, of |-> path]
SetRight(pos) == [visit |-> FALSE, of |-> pos]

InnerNode(node) == [split_axis |-> node.split_axis, position |-> node.position, right_offset |-> 0]
LeafNode(node, size) ==
    IF Len(node.indices) = 1
    THEN [split_axis |-> 3, count |-> 1, offset |-> node.indices[1]]
    ELSE [split_axis |-> 3, count |-> Len(node.indices), offset |-> size]

EmplaceStep(s) ==
    LET top  == Head(s.stack)
        node == tree[top.of]
        pos  == Len(s.nodes)
    IN  CASE ~top.visit ->
               [s EXCEPT !.stack = Tail(@), !.nodes[top.of + 1].right_offset = pos - top.of]
          [] top.visit /\ node.split_axis < 3 ->
               [s EXCEPT !.stack = <<Visit(2 * top.of), SetRight(pos),
                                     Visit(2 * top.of + 1)>> \o Tail(@),
                         !.nodes = Append(@, InnerNode(node))]
          [] OTHER ->
               [s EXCEPT !.stack = Tail(@),
                         !.nodes = Append(@, LeafNode(node, Len(s.indices))),
                         !.indices = IF Len(node.indices) = 1 THEN @ ELSE @ \o node.indices]

build_node_to_nodes ==
    LET s[n \in 0..2 * Cardinality(DOMAIN tree)] ==
            IF n = 0 THEN [stack |-> <<Visit(1)>>, nodes |-> <<>>, indices |-> <<>>]
            ELSE LET last == s[n-1]
                 IN  IF last.stack = <<>> THEN last ELSE EmplaceStep(last)
    IN  s[2 * Cardinality(DOMAIN tree)]

kdtree_build_finish ==
    /\ todo = <<>> /\ nodes = <<>>
    /\ nodes' = build_node_to_nodes.nodes
    /\ indices' = build_node_to_nodes.indices
    /\ UNCHANGED <<boxes, todo, tree, sides_of_plane, blocks>>

Next == create_leaf \/ create_split \/ kdtree_build_finish

Spec == Init /\ [][Next]_kdVars

-----------------------------------------------------------------------------
(***************************************************************************)
(* KdTree::intersect().  `hit' gives the distance for the intersectables   *)
(* that the ray hits.  The result is the set of [index, t] found in the    *)
(* first leaf where something is hit, and the far end of its cell.         *)
(***************************************************************************)
Node(n) == nodes[n + 1]

LeafIndices(leaf) ==
    IF leaf.count = 1 THEN {leaf.offset}
    ELSE {indices[n] : n \in leaf.offset + 1 .. leaf.offset + leaf.count}

\* Mutant: an origin in the plane is always taken to be on the right.
NearIsLeftStrict(o, d, node) == o < node.position

NearIsLeft(o, d, node) == o < node.position \/ (o = node.position /\ d <= 0)

\* Mutant: the cell of the near child is not cut.
CellEndKept(t_max, t) == t_max

\* The ray leaves the near child where it gets to the plane.
CellEnd(t_max, t) == t

TraverseStep(s, ray, hit) ==
    LET node == Node(s.node)
        o    == ray.origin[node.split_axis]
        d    == ray.direction[node.split_axis]
        t    == OverDirection(node.position - o, d)
        left  == s.node + 1
        right == s.node + node.right_offset
        near == IF NearIsLeft(o, d, node) THEN left ELSE right
        far  == IF NearIsLeft(o, d, node) THEN right ELSE left
        found == LeafIndices(node) \cap DOMAIN hit
        only_near == Less(s.t_max, t) \/ LessOrEqual(t, 0)
    IN  CASE node.split_axis > 2 /\ found # {} ->
               [s EXCEPT !.found = found, !.done = TRUE]
          [] node.split_axis > 2 /\ found = {} /\ s.stack = <<>> ->
               [s EXCEPT !.done = TRUE]
          [] node.split_axis > 2 /\ found = {} /\ s.stack # <<>> ->
               [s EXCEPT !.node = Head(s.stack).node, !.t_min = Head(s.stack).t_min,
                         !.t_max = Head(s.stack).t_max, !.stack = Tail(@)]
          [] node.split_axis <= 2 /\ only_near ->
               [s EXCEPT !.node = near]
          [] node.split_axis <= 2 /\ ~only_near /\ Less(t, s.t_min) ->
               [s EXCEPT !.node = far]
          [] OTHER ->
               [s EXCEPT !.node = near, !.t_max = CellEnd(@, t),
                         !.stack = <<[node |-> far, t_min |-> t, t_max |-> s.t_max]>> \o @,
                         !.deepest = IF Len(s.stack) = @ THEN @ + 1 ELSE @]

RootBox == MergeAll(Range(boxes))

intersect(ray, hit) ==
    LET bounds == IntersectsBounds(RootBox, ray)
        s[n \in 0..2 * Len(nodes)] ==
            IF n = 0 THEN [node |-> 0, t_min |-> bounds.min, t_max |-> bounds.max,
                           stack |-> <<>>, found |-> {}, done |-> ~bounds.hit, deepest |-> 0]
            ELSE LET last == s[n-1]
                 IN  IF last.done THEN last ELSE TraverseStep(last, ray, hit)
    IN  s[2 * Len(nodes)]

-----------------------------------------------------------------------------
(***************************************************************************)
(* log_build_info(): a walk over all nodes, to count leaves by what is in  *)
(* them, up to nine.  Times, sizes in bytes and the text are left out.     *)
(***************************************************************************)
WalkStep(s) ==
    LET node == Node(s.node)
        below == [node |-> s.node + node.right_offset, depth |-> s.depth + 1]
        counted == [s EXCEPT !.depths = @ \cup {s.depth}, !.counts = Append(@, node.count)]
    IN  CASE ~IsLeaf(node) ->
               [s EXCEPT !.node = s.node + 1, !.depth = @ + 1, !.stack = <<below>> \o @,
                         !.deepest = IF Len(s.stack) = @ THEN @ + 1 ELSE @]
          [] IsLeaf(node) /\ s.stack # <<>> ->
               [counted EXCEPT !.node = Head(s.stack).node, !.depth = Head(s.stack).depth,
                               !.stack = Tail(@)]
          [] OTHER -> [counted EXCEPT !.done = TRUE]

log_build_info ==
    LET s[n \in 0..Len(nodes)] ==
            IF n = 0 THEN [node |-> 0, depth |-> 0, stack |-> <<>>, deepest |-> 0,
                           depths |-> {}, counts |-> <<>>, done |-> FALSE]
            ELSE IF s[n-1].done THEN s[n-1] ELSE WalkStep(s[n-1])
        walk == s[Len(nodes)]
    IN  [min_depth        |-> Min(walk.depths),
         max_depth        |-> Max(walk.depths),
         leafs            |-> Len(walk.counts),
         leaf_index_count |-> [n \in 0..9 |-> Len(SelectSeq(walk.counts, LAMBDA c : Min({c, 9}) = n))],
         max_index_count  |-> Max(Range(walk.counts)),
         stack            |-> walk.deepest]
=============================================================================

------------------------------ MODULE Geometry ------------------------------
(***************************************************************************)
(* lib/math/aabb.h and the parts of vector3.h and ray.h it needs: boxes    *)
(* with faces along the axes, and where a ray passes through one.          *)
(*                                                                         *)
(* Positions and distances are integers, with the two infinities and NaN   *)
(* of IEEE 754; every component of a direction is -1, 0 or 1, so that      *)
(* division by it is exact.  Rounding, and the error bounds that           *)
(* compensate it, are left out.                                            *)
(***************************************************************************)
EXTENDS Integers, FiniteSetsExt

CONSTANTS
    Axes,     \* axes of the space, numbers from 0
    Infinity  \* a number above every position and distance

ASSUME AxesAssumption == Axes \subseteq Nat /\ 0 \in Axes
ASSUME InfinityAssumption == Infinity \in Nat \ {0}

NaN == 2 * Infinity

\* Comparisons are false when one side is not a number.
Less(a, b) == a # NaN /\ b # NaN /\ a < b
LessOrEqual(a, b) == a # NaN /\ b # NaN /\ a <= b

\* std::min and std::max: the second argument only if it compares.
StdMin(a, b) == IF Less(b, a) THEN b ELSE a
StdMax(a, b) == IF Less(a, b) THEN b ELSE a

\* a * (1 / d)
OverDirection(a, d) ==
    CASE d # 0            -> a * d
      [] d = 0 /\ a > 0   -> Infinity
      [] d = 0 /\ a < 0   -> -Infinity
      [] OTHER            -> NaN

Vector(x) == [axis \in Axes |-> x]
EmptyBox == [min |-> Vector(Infinity), max |-> Vector(-Infinity)]

MergeBoxes(a, b) ==
    [min |-> [axis \in Axes |-> StdMin(a.min[axis], b.min[axis])],
     max |-> [axis \in Axes |-> StdMax(a.max[axis], b.max[axis])]]

MergeAll(boxes) == FoldSet(MergeBoxes, EmptyBox, boxes)

Intersection(a, b) ==
    [min |-> [axis \in Axes |-> StdMax(a.min[axis], b.min[axis])],
     max |-> [axis \in Axes |-> StdMin(a.max[axis], b.max[axis])]]

SplitBox(box, axis, position) ==
    [left  |-> [box EXCEPT !.max[axis] = position],
     right |-> [box EXCEPT !.min[axis] = position]]

IsPlanar(box, axis) == box.min[axis] = box.max[axis]

\* Twice the centroid.
Centroid(box) == [axis \in Axes |-> box.min[axis] + box.max[axis]]

\* The first of the axes with the largest extent.
MaxExtentAxis(box) ==
    CHOOSE axis \in Axes : \A other \in Axes :
        LET extent == box.max[axis] - box.min[axis]
            rest   == box.max[other] - box.min[other]
        IN  extent > rest \/ (extent = rest /\ axis <= other)

InBox(point, box) ==
    \A axis \in Axes : box.min[axis] <= point[axis] /\ point[axis] <= box.max[axis]

(***************************************************************************)
(* A ray: origin and direction.  Distances at which it enters and leaves   *)
(* the slab between two faces, possibly swapped.                           *)
(***************************************************************************)
PointAt(ray, t) == [axis \in Axes |-> ray.origin[axis] + t * ray.direction[axis]]

SlabNear(box, ray, axis) ==
    OverDirection(box.min[axis] - ray.origin[axis], ray.direction[axis])
SlabFar(box, ray, axis) ==
    OverDirection(box.max[axis] - ray.origin[axis], ray.direction[axis])

\* AABB::intersects(ray, t_min_out, t_max_out): swaps when far < near.
\* t[n] are the bounds after the first n axes.
IntersectsBounds(box, ray) ==
    LET t[n \in 0..Cardinality(Axes)] ==
            IF n = 0 THEN [min |-> 0, max |-> Infinity, hit |-> TRUE]
            ELSE LET last == t[n-1]
                     a    == SlabNear(box, ray, n - 1)
                     b    == SlabFar(box, ray, n - 1)
                     min  == StdMax(last.min, IF Less(b, a) THEN b ELSE a)
                     max  == StdMin(last.max, IF Less(b, a) THEN a ELSE b)
                 IN  IF ~last.hit THEN last
                     ELSE [min |-> min, max |-> max, hit |-> ~Less(max, min)]
    IN  t[Cardinality(Axes)]

\* AABB::intersects(ray, inv_dir, ray_t_max): swaps by the sign of the
\* direction; what is not a number on the first axis is kept.
Intersects(box, ray, t_max) ==
    LET Near(axis) == IF ray.direction[axis] < 0 THEN SlabFar(box, ray, axis)
                                                 ELSE SlabNear(box, ray, axis)
        Far(axis)  == IF ray.direction[axis] < 0 THEN SlabNear(box, ray, axis)
                                                 ELSE SlabFar(box, ray, axis)
        t[axis \in Axes] ==
            IF axis = 0 THEN [min |-> Near(0), max |-> Far(0), hit |-> TRUE]
            ELSE LET s == t[axis - 1]
                 IN  [min |-> StdMax(s.min, Near(axis)),
                      max |-> StdMin(s.max, Far(axis)),
                      hit |-> s.hit /\ ~Less(Far(axis), s.min) /\ ~Less(s.max, Near(axis))]
        last == t[Cardinality(Axes) - 1]
    IN  last.hit /\ Less(last.min, t_max) /\ Less(0, last.max)
=============================================================================

---------------------- MODULE MCIntersectionStructure ----------------------
(***************************************************************************)
(* IntersectionStructure in a plane, with few boxes: next to each other,   *)
(* overlapping, one inside the other, flat, the same one twice, a point.   *)
(* Faces are at even positions, so that odd ones are inside.               *)
(***************************************************************************)
EXTENDS IntersectionStructure

MCAxes == {0, 1}

Box(x1, x2, y1, y2) == [min |-> (0 :> x1 @@ 1 :> y1), max |-> (0 :> x2 @@ 1 :> y2)]

MCKdScenes ==
    {<<Box(0, 2, 0, 2), Box(2, 4, 2, 4)>>,
     <<Box(0, 4, 0, 2), Box(2, 2, 0, 4)>>,
     <<Box(0, 4, 0, 4), Box(0, 2, 2, 4)>>,
     <<Box(2, 2, 0, 4), Box(0, 4, 2, 2)>>,
     <<Box(0, 2, 0, 2), Box(0, 2, 0, 2), Box(0, 4, 0, 4)>>,
     <<Box(0, 2, 0, 2), Box(2, 2, 2, 2), Box(2, 4, 0, 4)>>}

MCBvhScenes ==
    {<<Box(0, 2, 0, 2)>>,
     <<Box(2, 4, 2, 4), Box(0, 2, 0, 2)>>,
     <<Box(0, 2, 0, 2), Box(0, 2, 0, 2), Box(2, 4, 0, 4)>>,
     <<Box(4, 4, 0, 4), Box(0, 4, 2, 2), Box(0, 0, 0, 0), Box(0, 2, 0, 4)>>,
     <<Box(0, 2, 0, 2), Box(2, 4, 0, 2), Box(0, 0, 2, 4), Box(4, 4, 4, 4), Box(0, 2, 0, 2)>>}

MCRays == [origin    : [MCAxes -> {-1, 0, 2, 3, 5}],
           direction : [MCAxes -> {-1, 0, 1}] \ {Vector(0)}]
=============================================================================

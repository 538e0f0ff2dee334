----------------------------- MODULE Transform -----------------------------
(***************************************************************************)
(* lib/math/transform.{h,cpp} and AnimatedTransform::from_variant(): a     *)
(* matrix and its inverse, made together, read from a Variant.             *)
(*                                                                         *)
(* Of the angles, those whose sine and cosine are fractions are there:     *)
(* quarter turns, in degrees.  What transform_point_error() bounds is what *)
(* rounding does, which is left out.                                       *)
(***************************************************************************)
EXTENDS Variant

Pair(matrix, inverse_matrix) == [matrix |-> matrix, inverse_matrix |-> inverse_matrix]

Identity     == Pair(identity, identity)
translate(v) == Pair(translate_matrix(v), translate_matrix([i \in 1..3 |-> Neg(v[i])]))
scale(v)     == Pair(scale_matrix(v), scale_matrix([i \in 1..3 |-> Inv(v[i])]))
rotate(m)    == Pair(m, transpose(m))

look_at(translation_, center, up) ==
    LET m == look_at_matrix(translation_, center, up) IN Pair(matrix_inverse(m), m)

combine(t1, t2) ==
    Pair(Product(t1.matrix, t2.matrix), Product(t2.inverse_matrix, t1.inverse_matrix))

inverse(t) == Pair(t.inverse_matrix, t.matrix)

\* A vector with a weight: 1 for a point, 0 for a direction.
Transformed(m, v, weight) == [i \in 1..3 |-> dot(m[i], Append(v, weight))]

transform_point(t, p)     == Transformed(t.matrix, p, One)
transform_direction(t, d) == Transformed(t.matrix, d, Zero)

\* The direction of a transformed normal: its length is left out.
transform_normal(t, n)    == Transformed(transpose(t.inverse_matrix), n, Zero)

transform_aabb(t, min, max) ==
    LET axes == <<x_axis(t.matrix), y_axis(t.matrix), z_axis(t.matrix)>>
        Sum3(vs) == Plus(Plus(Plus(vs[1], vs[2]), vs[3]), translation(t.matrix))
    IN  [min |-> Sum3([i \in 1..3 |-> MinOf(Times(axes[i], min[i]), Times(axes[i], max[i]))]),
         max |-> Sum3([i \in 1..3 |-> MaxOf(Times(axes[i], min[i]), Times(axes[i], max[i]))])]

transform_ray(t, ray) ==
    [origin |-> transform_point(t, ray.origin), direction |-> transform_direction(t, ray.direction)]

-----------------------------------------------------------------------------
(* from_variant().                                                         *)

Cosines == 0 :> One @@ 90 :> Zero @@ 180 :> Neg(One) @@ 270 :> Zero
Sines   == 0 :> Zero @@ 90 :> One @@ 180 :> Zero @@ 270 :> Neg(One)

Angle(degrees) == [sin |-> Sines[llround(degrees)], cos |-> Cosines[llround(degrees)]]

\* A vector holds transforms of its own.
RECURSIVE from_variant(_, _)

from_variant_string(v, path) ==
    IF as(v) = "identity" THEN Value(Identity, path) ELSE Error(path)

scale_from(args, path) ==
    IF IsA("vector", args)
    THEN Then(vector_from_variant(args, path), LAMBDA s, at : Value(scale(s), at))
    ELSE Then(to_real(args, path), LAMBDA s, at : Value(scale(<<s, s, s>>), at))

rotate_from(args, path, Matrix(_)) ==
    Then(to_real(args, path), LAMBDA degrees, at : Value(rotate(Matrix(Angle(degrees))), at))

rotate_any_from(args, path) ==
    CASE IsA("map", args) ->
            Then(get(args, path, "angle", to_real), LAMBDA angle, at1 :
            Then(get(args, path, "axis", vector_from_variant), LAMBDA axis, at2 :
                Value(rotate(rotate_matrix(Angle(angle), axis)), at2)))
      [] IsA("vector", args) ->
            Then(quaternion_from_variant(args, path), LAMBDA q, at :
                Value(rotate(rotate_by_quaternion(q)), at))
      [] OTHER -> Error(path)

look_at_from(args, path) ==
    Then(get(args, path, "translation", vector_from_variant), LAMBDA t, at1 :
    Then(get(args, path, "center", vector_from_variant), LAMBDA center, at2 :
    Then(get(args, path, "up", vector_from_variant), LAMBDA up, at3 :
        Value(look_at(t, center, up), at3))))

from_variant_map(v, path) ==
    IF Cardinality(Keys(v)) # 1 THEN Error(path)
    ELSE LET type == CHOOSE key \in Keys(v) : TRUE
             args == as(v)[type]
             at == KeyPath(path, type)
         IN  CASE type = "translate" ->
                     Then(vector_from_variant(args, at), LAMBDA t, a : Value(translate(t), a))
               [] type = "scale"    -> scale_from(args, at)
               [] type = "rotate_x" -> rotate_from(args, at, rotate_x_matrix)
               [] type = "rotate_y" -> rotate_from(args, at, rotate_y_matrix)
               [] type = "rotate_z" -> rotate_from(args, at, rotate_z_matrix)
               [] type = "rotate"   -> rotate_any_from(args, at)
               [] type = "look_at"  -> look_at_from(args, at)
               [] OTHER             -> Error(path)

from_variant_vector(v, path) ==
    IF Len(as(v)) < 2 THEN Error(path)
    ELSE FoldLeft(LAMBDA sofar, i :
                      Then(sofar, LAMBDA t, p :
                      Then(from_variant(as(v)[i], IndexPath(path, i)), LAMBDA ti, at :
                          Value(combine(t, ti), path))),
                  Value(Identity, path), [i \in DOMAIN as(v) |-> i])

from_variant(v, path) ==
    CASE IsA("string", v) -> from_variant_string(v, path)
      [] IsA("map", v)    -> from_variant_map(v, path)
      [] IsA("vector", v) -> from_variant_vector(v, path)
      [] OTHER            -> Error(path)

animated_from_variant(v, path) ==
    Then(get(v, path, "start_time", to_real), LAMBDA start_time, at1 :
    Then(get(v, path, "start_transform", from_variant), LAMBDA start, at2 :
    Then(get(v, path, "end_time", to_real), LAMBDA end_time, at3 :
    Then(get(v, path, "end_transform", from_variant), LAMBDA end, at4 :
        IF Le(end_time, start_time) THEN Error(path)
        ELSE Value([start_time |-> start_time, start |-> start,
                    end_time |-> end_time, end |-> end], path)))))
=============================================================================

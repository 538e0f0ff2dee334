---------------------------- MODULE SceneValues ----------------------------
(***************************************************************************)
(* What a document has for a scene, read from its Variant by the           *)
(* from_variant() of what is asked for.                                    *)
(***************************************************************************)
EXTENDS Transform

CONSTANT SceneValues  \* what is asked for, Variants, and what is known of them

VARIABLES
    file,   \* history: the Variant
    step,   \* "value", then "ok" or "error"
    value,  \* what it became
    where   \* path in the error

sceneVars == <<file, step, value, where>>

\* Image::from_variant(), up to the reader of the file.
image_from_variant(v) == get(v, <<>>, "path", to_string)

\* Variant::get<T>(), with a default and of an index.
path_or(v, default_value) == get_or(v, <<>>, "path", to_string, default_value)
second_string(v)          == get_at(v, <<>>, 1, to_string)

\* Variant::to<T>()
to(type, v) ==
    CASE type = "transform" -> from_variant(v, <<>>)
      [] type = "animated"  -> animated_from_variant(v, <<>>)
      [] type = "color"     -> color_from_variant(v, <<>>)
      [] type = "image"     -> image_from_variant(v)
      [] type = "bool"      -> to_bool(v, <<>>)
      [] type = "string"    -> to_string(v, <<>>)
      [] type = "second"    -> second_string(v)
      [] type = "path or a" -> path_or(v, <<"a">>)
      [] OTHER              -> to_number(type, v, <<>>)

Init ==
    /\ file \in SceneValues
    /\ step = "value"
    /\ value = <<>>
    /\ where = <<>>

Return(result) ==
    IF result.is_error
    THEN step' = "error" /\ where' = result.reader /\ UNCHANGED value
    ELSE step' = "ok" /\ value' = result.value /\ UNCHANGED where

read_value == step = "value" /\ Return(to(file.as, file.variant)) /\ UNCHANGED file

Next == read_value

-----------------------------------------------------------------------------
(* What Files says of a value of a scene.                                  *)

\* It is what was meant, or the error leads to what is wrong in the document.
IsReadAsWritten ==
    /\ step = "ok" =>
        /\ file.faults = {}
        /\ \A p \in file.points : transform_point(value, p[1]) = p[2]
        /\ file.values # {} => <<file.as, value>> \in file.values
    /\ step = "error" => where \in file.faults

V(x, y, z) == <<Num(x), Num(y), Num(z)>>

TestBox == [min |-> V(-1, 0, 2), max |-> V(1, 3, 3)]

Corners(box) ==
    {[i \in 1..3 |-> IF i \in s THEN box.max[i] ELSE box.min[i]] : s \in SUBSET (1..3)}

IsTight(box, points) ==
    \A i \in 1..3 : /\ \A p \in points : Le(box.min[i], p[i]) /\ Le(p[i], box.max[i])
                    /\ \E p, q \in points : box.min[i] = p[i] /\ box.max[i] = q[i]

IsInverse(t) ==
    /\ Product(t.matrix, t.inverse_matrix) = identity
    /\ matrix_inverse(t.matrix) = t.inverse_matrix

KeepsNormals(t) ==
    dot(transform_normal(t, V(1, 2, -1)), transform_direction(t, V(1, 1, 3)))
        = Zero

IsByQuaternion(v) ==
    Keys(v) = {"rotate"} /\ IsA("vector", v[2]["rotate"])

\* A rotation by a quaternion that is not of length one, whose transpose is not its inverse, and
\* a scale by 0, alone or in a sequence.
RECURSIVE HasNoInverse(_)
HasNoInverse(v) ==
    LET numbers(arg) == IF IsA("vector", arg) THEN [i \in DOMAIN as(arg) |-> NumberOf(as(arg)[i])]
                        ELSE <<NumberOf(arg)>>
        q == numbers(as(v)["rotate"])
    IN  \/ IsByQuaternion(v) /\ dot(q, q) # One
        \/ has(v, "scale") /\ Zero \in Range(numbers(as(v)["scale"]))
        \/ IsA("vector", v) /\ \E i \in DOMAIN as(v) : HasNoInverse(as(v)[i])

\* Of a transform, what holds of both its matrices together.
TransformHasInverse ==
    step = "ok" /\ file.as = "transform" /\ ~HasNoInverse(file.variant) =>
        /\ IsInverse(value) /\ IsInverse(inverse(value))
        /\ KeepsNormals(value)
        /\ IsTight(transform_aabb(value, TestBox.min, TestBox.max),
                   {transform_point(value, p) : p \in Corners(TestBox)})
        /\ IsByQuaternion(file.variant) =>
               rotate_by_quaternion(rotation(upper3x3(value.matrix))) = value.matrix
=============================================================================

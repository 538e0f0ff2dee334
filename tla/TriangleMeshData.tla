-------------------------- MODULE TriangleMeshData --------------------------
(***************************************************************************)
(* lib/shapes/triangle_mesh_data.cpp: a mesh from a Variant, in which      *)
(* points, indices, normals and uvs are strings of encoded numbers.        *)
(*                                                                         *)
(* The entries of the Variant that are there are                           *)
(*   [type, bytes], where type is "bytes" for a string that decodes to     *)
(* bytes, "text" for a string that does not, "calculate" for that string   *)
(* and "other" for what is not a string.                                   *)
(*                                                                         *)
(* A component of a point is 0x10000 times, of a decoded normal or uv      *)
(* 0x7fff times what it is in the code, and a calculated normal is the     *)
(* shortest vector of integers in its direction.                           *)
(***************************************************************************)
EXTENDS BinaryReader

CONSTANTS
    MeshFiles,   \* Variants: entries, and what is known of them
    Max8, Max16  \* 0xff and 0xffff in decode_indices()

VARIABLES
    file,  \* history: the Variant
    step,  \* what is read next, "ok", "error" and "undefined" at the end
    mesh   \* data

meshVars == <<file, step, mesh>>

-----------------------------------------------------------------------------
Has(key) == key \in DOMAIN file.entries

\* as_string() of the value of key, decoded.
Decoded(key) ==
    IF Has(key) /\ file.entries[key].type = "bytes"
    THEN Value(file.entries[key].bytes, Opened(file.entries[key].bytes))
    ELSE Error(0)

\* As many whole values of n numbers as there are.
decode_values(key, type, n) ==
    Then(Decoded(key), LAMBDA bytes, r :
        LET size == SizeOf(type)
            number(i) ==
                number_of(type, [b \in 1..size |-> bytes[(i - 1) * size + b][2]])
        IN  Value([k \in 1 .. Len(bytes) \div (size * n) |->
                      [j \in 1..n |-> number((k - 1) * n + j)]], r))

decode_points ==
    Then(decode_values("points", "int32", 3), LAMBDA points, r :
        IF Len(points) < 3 THEN Error(r) ELSE Value(points, r))

\* Mutant: indices of one byte for a point too many.
IndexTypeOneTooMany(num_points) ==
    IF num_points <= Max8 + 1 THEN "uint8" ELSE IF num_points <= Max16 THEN "uint16" ELSE "uint32"

IndexType(num_points) ==
    IF num_points <= Max8 THEN "uint8" ELSE IF num_points <= Max16 THEN "uint16" ELSE "uint32"

decode_indices(num_points) ==
    Then(decode_values("indices", IndexType(num_points), 3), LAMBDA indices, r :
        IF indices = <<>> \/ \E is \in Range(indices) : \E i \in 1..3 : is[i] >= num_points
        THEN Error(r)
        ELSE Value(indices, r))

decode_for_points(key, n) ==
    Then(decode_values(key, "int16", n), LAMBDA values, r :
        IF Len(values) # Len(mesh.points) THEN Error(r) ELSE Value(values, r))

-----------------------------------------------------------------------------
(* Vector3, as far as it is needed.                                        *)

Abs(n) == IF n < 0 THEN -n ELSE n

Minus(a, b) == [i \in 1..3 |-> a[i] - b[i]]
Plus(a, b)  == [i \in 1..3 |-> a[i] + b[i]]

cross(a, b) ==
    <<a[2] * b[3] - a[3] * b[2], a[3] * b[1] - a[1] * b[3], a[1] * b[2] - a[2] * b[1]>>

\* The direction of a vector, and <<0, 0, 0>> for what is 0 / 0 in the code.
normalize(a) ==
    LET divisors == {d \in 1 .. Max({Abs(a[i]) : i \in 1..3}) : \A i \in 1..3 : a[i] % d = 0}
    IN  IF divisors = {} THEN a ELSE [i \in 1..3 |-> IF a[i] < 0 THEN -(-a[i] \div Max(divisors))
                                                                 ELSE a[i] \div Max(divisors)]

calculate_normals(data) ==
    LET point(triangle, i) == data.points[triangle[i] + 1]
        normal(triangle) == cross(Minus(point(triangle, 2), point(triangle, 1)),
                                  Minus(point(triangle, 3), point(triangle, 1)))
        Add(normals, triangle) ==
            [p \in DOMAIN normals |-> FoldLeft(LAMBDA sum, i : IF triangle[i] + 1 = p
                                                               THEN Plus(sum, normal(triangle))
                                                               ELSE sum,
                                               normals[p], <<1, 2, 3>>)]
        sums == FoldLeft(Add, [p \in DOMAIN data.points |-> <<0, 0, 0>>], data.indices)
    IN  [p \in DOMAIN sums |-> normalize(sums[p])]

-----------------------------------------------------------------------------
NoMesh == [points |-> <<>>, normals |-> <<>>, uvs |-> <<>>, indices |-> <<>>]

Init ==
    /\ file \in MeshFiles
    /\ step = "points"
    /\ mesh = NoMesh

\* A part has been read, or the reading ends.
Read(part, result, next) ==
    /\ IF result.is_error THEN step' = "error" /\ UNCHANGED mesh
       ELSE step' = next /\ mesh' = [mesh EXCEPT ![part] = result.value]
    /\ UNCHANGED file

read_points  == step = "points" /\ Read("points", decode_points, "indices")
read_indices == step = "indices" /\ Read("indices", decode_indices(Len(mesh.points)), "normals")

read_normals ==
    /\ step = "normals"
    /\ Read("normals",
            IF ~Has("normals") THEN Value(<<>>, 0)
            ELSE IF file.entries["normals"].type = "calculate" THEN Value(calculate_normals(mesh), 0)
            ELSE decode_for_points("normals", 3),
            "uvs")

\* decode_uvs() uses the value of what may be an error.
read_uvs ==
    /\ step = "uvs"
    /\ IF ~Has("uvs") THEN step' = "ok" /\ UNCHANGED <<file, mesh>>
       ELSE IF Decoded("uvs").is_error THEN step' = "undefined" /\ UNCHANGED <<file, mesh>>
       ELSE Read("uvs", decode_for_points("uvs", 2), "ok")

Next == read_points \/ read_indices \/ read_normals \/ read_uvs
=============================================================================

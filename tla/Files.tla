------------------------------- MODULE Files -------------------------------
(***************************************************************************)
(* What is read from files: each behaviour reads one file, with the reader *)
(* of its type.                                                            *)
(*   - "ply", "tga" and "json" are bytes or text,                          *)
(*   - "mesh" is a mesh in a document, "base85" a string in it, and        *)
(*     "scene" any other value of a scene,                                 *)
(*   - "image" is an image of any format, of which only the way to its     *)
(*     reader and what the reader holds is of interest,                    *)
(*   - "string" is a string that one of the functions for strings is       *)
(*     called with, by the readers or by others.                           *)
(* What is known of a file is what was meant when it was written.          *)
(***************************************************************************)
EXTENDS Integers, Sequences

CONSTANTS
    PlyFiles, TgaFiles, Documents, Base85Files, MeshFiles, SceneValues, StringCalls,  \* by type
    Base, ByteBase, Max8, Max16,
    MaxInt, MaxFloat, MaxPower, BufferSize, TicksPerSecond,
    MaxReplacements, Height

ASSUME WidthsAssumption == MaxInt \in Nat /\ MaxFloat \in Nat /\ MaxPower \in Nat
\* Five digits are enough for four bytes, and four digits are less than four
\* bytes.
ASSUME BaseAssumption ==
    /\ Base \in Nat /\ ByteBase \in Nat
    /\ 0 < Base /\ Base < ByteBase
    /\ ByteBase ^ 4 <= Base ^ 5

VARIABLES
    type,
    file, reader, step,
    header, row,                                     \* of a PLY or TGA file
    left, mesh,                                      \* of a PLY file or a mesh
    rle, image,                                      \* of a TGA file
    variant,                                         \* of a JSON file
    data,                                            \* of a Base85 string, or another
    value, where,                                    \* of a scene
    extension, disk, replaced, fault, held, decoded  \* of an image

PlyFile  == INSTANCE Ply
TgaFile  == INSTANCE Tga
JsonFile == INSTANCE Json
Base85   == INSTANCE Base85
Mesh     == INSTANCE TriangleMeshData
Scene    == INSTANCE SceneValues
ImgFile  == INSTANCE ImageFiles
String   == INSTANCE Strings

rowVars   == <<header, row>>
meshVars  == <<left, mesh>>
tgaVars   == <<rle, image>>
imageVars == <<extension, disk, replaced, fault, held, decoded>>
textVars  == <<variant, data, value, where>>
vars == <<type, file, reader, step, rowVars, meshVars, tgaVars, textVars, imageVars>>

NoRows  == header = <<>> /\ row = 0
NoMesh  == left = <<>> /\ mesh = <<>>
NoTga   == rle = <<>> /\ image = <<>>
NoImage == /\ extension = "" /\ disk = "" /\ replaced = 0
           /\ fault = FALSE /\ held = {} /\ decoded = {}
NoJson  == variant = <<>>
NoData  == data = <<>>
NoScene == value = <<>> /\ where = <<>>
NoText  == NoJson /\ NoData /\ NoScene

Init ==
    \/ type = "ply" /\ PlyFile!Init /\ NoTga /\ NoText /\ NoImage
    \/ type = "tga" /\ TgaFile!Init /\ NoMesh /\ NoText /\ NoImage
    \/ /\ type = "json" /\ JsonFile!Init
       /\ NoData /\ NoScene /\ NoRows /\ NoMesh /\ NoTga /\ NoImage
    \/ /\ type = "base85" /\ Base85!Init
       /\ NoJson /\ NoScene /\ NoRows /\ NoMesh /\ NoTga /\ NoImage
    \/ /\ type = "string" /\ String!Init
       /\ NoJson /\ NoScene /\ NoRows /\ NoMesh /\ NoTga /\ NoImage
    \/ /\ type = "scene" /\ Scene!Init /\ reader = 0
       /\ NoJson /\ NoData /\ NoRows /\ NoMesh /\ NoTga /\ NoImage
    \/ /\ type = "mesh" /\ Mesh!Init /\ left = <<>> /\ reader = 0
       /\ NoRows /\ NoTga /\ NoText /\ NoImage
    \/ /\ type = "image" /\ ImgFile!Init /\ file = <<>> /\ reader = 0 /\ header = <<>>
       /\ NoMesh /\ NoTga /\ NoText

read_ply ==
    /\ type = "ply" /\ PlyFile!Next
    /\ UNCHANGED <<type, tgaVars, textVars, imageVars>>

read_tga ==
    /\ type = "tga" /\ TgaFile!Next
    /\ UNCHANGED <<type, meshVars, textVars, imageVars>>

read_json ==
    /\ type = "json" /\ JsonFile!Next
    /\ UNCHANGED <<type, rowVars, meshVars, tgaVars, data, value, where, imageVars>>

decode_base85 ==
    /\ type = "base85" /\ Base85!Next
    /\ UNCHANGED <<type, rowVars, meshVars, tgaVars, variant, value, where, imageVars>>

convert_string ==
    /\ type = "string" /\ String!Next
    /\ UNCHANGED <<type, rowVars, meshVars, tgaVars, variant, value, where, imageVars>>

read_scene ==
    /\ type = "scene" /\ Scene!Next
    /\ UNCHANGED <<type, reader, rowVars, meshVars, tgaVars, variant, data, imageVars>>

read_mesh ==
    /\ type = "mesh" /\ Mesh!Next
    /\ UNCHANGED <<type, reader, rowVars, left, tgaVars, textVars, imageVars>>

read_image ==
    /\ type = "image" /\ ImgFile!Next
    /\ UNCHANGED <<type, file, reader, header, meshVars, tgaVars, textVars>>

Next == \/ read_ply \/ read_tga \/ read_json \/ decode_base85
        \/ convert_string \/ read_mesh \/ read_scene \/ read_image

Spec == Init /\ [][Next]_vars

-----------------------------------------------------------------------------
(***************************************************************************)
(* A PLY file in which all is there that its header announces is read as   *)
(* it was meant, in each of the three formats; one that ends too early, or *)
(* is not a mesh, is an error.                                             *)
(***************************************************************************)
PlyIsReadAsWritten ==
    type = "ply" =>
        /\ step = "ok" => mesh \in file.mesh
        /\ step = "error" /\ file.whole => file.mesh = {}

(***************************************************************************)
(* Also of a TGA file, however it is oriented and whatever packets of      *)
(* pixels go on over the end of a row: every byte of the image is the one  *)
(* that was meant, and a pixel that is read and written back stays what it *)
(* is.                                                                     *)
(***************************************************************************)
TgaIsReadAsWritten ==
    type = "tga" =>
        /\ step = "ok" =>
            /\ image.buffer \in file.image
            /\ \A x \in 0 .. image.width - 1, y \in 0 .. image.height - 1 :
                  TgaFile!write_pixel(image, x, y, TgaFile!read_pixel(image, x, y)) = image
        /\ step = "error" => file.image = {}

(***************************************************************************)
(* JSON that is plain is accepted, and what is accepted is JSON and        *)
(* becomes what it stands for.  The code and the grammar of JSON disagree  *)
(* on a few things, and this is all: numbers with an `E' (unit_tests/lib/  *)
(* file_formats/json.cpp:94), \u in strings (json.cpp:64), numbers that no *)
(* double can hold (json.cpp:118) and keys that are there twice            *)
(* (json.cpp:169) are not plain and may be refused; and a string may have  *)
(* control characters in it, other than a newline, which JSON has none of. *)
(*                                                                         *)
(* Where the reader stops, its line and column are those of the text       *)
(* before: they are what the message of an error says.                     *)
(***************************************************************************)
LastNewline(text) ==
    LET newlines == {i \in DOMAIN text : text[i] = "\n"}
    IN  IF newlines = {} THEN 0 ELSE CHOOSE i \in newlines : \A j \in newlines : j <= i

JsonIsReadAsWritten ==
    type = "json" =>
        /\ step = "ok" => variant \in file.variant
        /\ step = "error" =>
            LET before == SubSeq(file.text, 1, reader.buffer_position)
            IN  /\ ~file.is_plain
                /\ reader.line = 1 + Len(SelectSeq(before, LAMBDA c : c = "\n"))
                /\ reader.column = 1 + Len(before) - LastNewline(before)

(***************************************************************************)
(* Base85 gives back the bytes that were encoded, also when they are no    *)
(* multiple of four, and refuses what encodes nothing.  Strings are split  *)
(* at all separators, none lost at the end; they are numbers only as a     *)
(* whole and within the range of the type, whatever was converted before;  *)
(* and what is written of durations and messages is what they are.         *)
(*                                                                         *)
(* Durations whose seconds are rounded to a full minute are left out, for  *)
(* them this does not hold: the code rounds after it has cut the hours and *)
(* minutes, and writes 60 seconds (duration_format.cpp:61).                *)
(***************************************************************************)
RoundsToMinute(call) == call.op = "duration" /\ call.rounds_to_minute

StringsAreConverted ==
    /\ type = "base85" =>
        /\ step = "ok" => data \in file.data
        /\ step = "error" => file.data = {}
    /\ type = "string" /\ step = "ok" /\ ~RoundsToMinute(file) => data = file.data

(***************************************************************************)
(* A mesh of a document is read as it was meant, with the width of its     *)
(* indices chosen by the number of points as it was when it was written,   *)
(* and every index is that of a point; one in which anything is wrong is   *)
(* refused.  This does not hold of uvs that are no string or do not        *)
(* decode: decode_uvs() takes the error for a value, which is undefined    *)
(* (triangle_mesh_data.cpp:156; an assertion of result.h).  It gets there  *)
(* for such uvs only, and only when all else is right.                     *)
(***************************************************************************)
MeshIsReadAsWritten ==
    type = "mesh" =>
        /\ step = "ok" => mesh \in file.mesh
        /\ step = "error" => file.mesh = {} /\ file.mesh_but_uvs = {}
        /\ step = "undefined" => mesh \in file.mesh_but_uvs

(***************************************************************************)
(* A value of a scene is what is written: a transform moves points as its  *)
(* parts do, the last part first, and a number is the one it is nearest    *)
(* to.  If a value is at fault, the error leads to it and not to another.  *)
(* (Of a quaternion that is not of length one it says only that it is      *)
(* read: it stands for no rotation.)                                       *)
(***************************************************************************)
SceneIsReadAsWritten == type = "scene" => Scene!IsReadAsWritten

(***************************************************************************)
(* However transforms are combined, both matrices are the inverse of each  *)
(* other and the one that matrix_inverse() finds; normals stay at a right  *)
(* angle to what they are normal to, the bounds of a box are as tight as   *)
(* the corners allow, and a rotation is that of its quaternion.            *)
(*                                                                         *)
(* Two transforms are left out, for them it does not hold, and nothing     *)
(* checks what a document says: a rotation by a quaternion that is not of  *)
(* length one, of which the transpose is taken for the inverse             *)
(* (transform.h:101), and a scale by 0 (transform.h:64).                   *)
(***************************************************************************)
TransformsHaveInverses == type = "scene" => Scene!TransformHasInverse

(***************************************************************************)
(* Whatever fails, and whenever, while an image is read, nothing that has  *)
(* been opened or allocated is left at the end; and as long as the file    *)
(* stays the same and nothing fails, an image that has the magic number of *)
(* its format is read with the reader of that format, whatever its name.   *)
(***************************************************************************)
ImagesAreReadByContent ==
    type = "image" =>
        /\ step \in {"ok", "error"} => held = {}
        /\ step = "ok" /\ replaced = 0 => decoded = {disk}
        /\ step = "error" /\ replaced = 0 /\ ~fault => disk \notin ImgFile!WithMagic
=============================================================================

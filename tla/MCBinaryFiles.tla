--------------------------- MODULE MCBinaryFiles ---------------------------
(***************************************************************************)
(* Files of bytes, from descriptions of what is in them, and what each one is *)
(* meant to be: PLY files, TGA files, and the encodings of bytes in documents. *)
(***************************************************************************)
EXTENDS BinaryReader, FiniteSets

CONSTANTS Base, ByteBase, Max8, Max16

-----------------------------------------------------------------------------
(***************************************************************************)
(* PLY files, and the mesh that each one is meant to be.                   *)
(***************************************************************************)

\* A property is a list if it has a type for its size.
Scalar(name, word)     == [name |-> name, list |-> "", word |-> word]
List(name, size, word) == [name |-> name, list |-> size, word |-> word]

Element(name, properties, rows) == [name |-> name, properties |-> properties, rows |-> rows]

Xyz == <<Scalar("x", "float"), Scalar("y", "float"), Scalar("z", "float")>>

Vertices == Element("vertex", Xyz, <<<<0, 1, 2>>, <<3, 0, 1>>, <<2, 2, -1>>>>)

VerticesOfManyTypes ==
    Element("vertex",
            <<Scalar("nz", "double"), Scalar("w", "short"), Scalar("z", "float32"),
              Scalar("x", "uchar"), Scalar("texture_v", "int")>>,
            <<<<0, 1, 2, 3, 4>>, <<3, 0, 1, 2, -5>>, <<2, -2, -1, 7, 7>>, <<1, 1, 1, 1, 1>>>>)

NotVertices ==
    {[Vertices EXCEPT !.rows = SubSeq(@, 1, 2)],
     [Vertices EXCEPT !.properties[2].name = "x"],
     Element("vertex", <<>>, <<<<>>, <<>>, <<>>>>),
     Element("vertex", <<List("x", "uchar", "float")>>, <<<<<<1>>>>, <<<<1>>>>, <<<<2>>>>>>)}

FacesOf(size, word, rows) == Element("face", <<List("vertex_indices", size, word)>>, rows)

Faces == FacesOf("uchar", "int", <<<<<<0, 1, 2>>>>>>)

FacesWithOther ==
    Element("face",
            <<Scalar("flags", "uchar"), List("vertex_indices", "int", "ushort"),
              List("weights", "short", "double")>>,
            <<<<7, <<0, 1, 2, 1>>, <<>>>>, <<8, <<2, 0, 1, 0>>, <<1, 2>>>>>>)

OtherFaces ==
    {FacesWithOther,
     FacesOf("uint", "uint8", <<<<<<0, 1, 2>>>>, <<<<1, 2>>>>>>),
     FacesOf("uint", "uint8", <<<<<<0, 1, 2>>>>, <<<<1, 2, 3>>>>>>),
     FacesOf("uint", "uint8", <<<<<<0, 1, 2>>>>, <<<<1, 2, 4>>>>>>),
     FacesOf("uint", "int8", <<<<<<0, 1, -1>>>>>>),
     FacesOf("uint", "int8", <<>>),
     Element("face", <<Scalar("vertex_indices", "int8")>>, <<<<0>>, <<1>>, <<2>>>>)}

Edges ==
    Element("edge", <<Scalar("a", "int"), List("b", "uchar", "float")>>,
            <<<<1, <<1, 2>>>>, <<1, <<>>>>>>)

Orders ==
    {<<Faces, Vertices>>, <<Edges, Vertices, Edges, Faces>>,
     <<Vertices, Faces, Vertices>>, <<Vertices, Faces, Faces>>, <<Vertices>>, <<Faces>>,
     <<Faces, Vertices, Edges>>}

\* Those that are also cut off.
ToCut == {<<Vertices, Faces>>, <<Edges, VerticesOfManyTypes, Edges, FacesWithOther, Edges>>}

Contents ==
    {<<v, f>> : v \in {Vertices, VerticesOfManyTypes}, f \in OtherFaces}
    \cup {<<v, Faces>> : v \in NotVertices} \cup Orders \cup ToCut

Formats == {"ascii", "binary_big_endian", "binary_little_endian"}

-----------------------------------------------------------------------------
Line(cells) ==
    [i \in 1 .. 2 * Len(cells) |->
        IF i % 2 = 1 THEN cells[(i + 1) \div 2] ELSE IF i = 2 * Len(cells) THEN Newline ELSE Space]

HeaderOf(format, es) ==
    Line(<<Word("ply")>>) \o Line(<<Word("format"), Word(format), Word("1.0")>>)
    \o Line(<<Word("comment"), Word("by"), Word("hand")>>)
    \o FlattenSeq([i \in DOMAIN es |->
           Line(<<Word("element"), Word(es[i].name), Number(Len(es[i].rows))>>)
           \o FlattenSeq([j \in DOMAIN es[i].properties |->
                  LET p == es[i].properties[j]
                  IN  Line(<<Word("property")>>
                           \o (IF p.list = "" THEN <<>> ELSE <<Word("list"), Word(p.list)>>)
                           \o <<Word(p.word), Word(p.name)>>)])])
    \o Line(<<Word("end_header")>>)

TypeOf ==
    "int8" :> "int8" @@ "uchar" :> "uint8" @@ "uint8" :> "uint8" @@ "short" :> "int16"
    @@ "ushort" :> "uint16" @@ "int" :> "int32" @@ "uint" :> "uint32"
    @@ "float32" :> "float32" @@ "float" :> "float32" @@ "double" :> "float64"

\* Two's complement, the most significant byte first.
IntBytes(n, size) ==
    LET m == IF n >= 0 THEN n ELSE -n - 1
        digit(i) == IF size - i > 3 THEN 0 ELSE (m \div 256 ^ (size - i)) % 256
    IN  [i \in 1..size |-> IF n >= 0 THEN digit(i) ELSE 255 - digit(i)]

BigEndian(type, n) ==
    LET bytes == IF IsFloat(type) THEN FloatBytes[type][n] ELSE IntBytes(n, SizeOf(type))
    IN  [i \in DOMAIN bytes |-> Byte(bytes[i])]

Encoded(format, word, n) ==
    CASE format = "ascii"             -> <<Number(n), Newline>>
      [] format = "binary_big_endian" -> BigEndian(TypeOf[word], n)
      [] OTHER                        -> Reverse(BigEndian(TypeOf[word], n))

EncodedValue(format, p, v) ==
    IF p.list = "" THEN Encoded(format, p.word, v)
    ELSE Encoded(format, p.list, Len(v))
         \o FlattenSeq([i \in DOMAIN v |-> Encoded(format, p.word, v[i])])

RowsOf(format, e) ==
    FlattenSeq([k \in DOMAIN e.rows |->
        FlattenSeq([j \in DOMAIN e.properties |->
            EncodedValue(format, e.properties[j], e.rows[k][j])])])

BytesOf(format, es) == HeaderOf(format, es) \o FlattenSeq([i \in DOMAIN es |-> RowsOf(format, es[i])])

-----------------------------------------------------------------------------
(* The mesh of elements.                                                   *)

Only(es, name) == SelectSeq(es, LAMBDA e : e.name = name)

Column(e, names) == {j \in DOMAIN e.properties : e.properties[j].name \in names}

Get(e, row, name) ==
    IF Column(e, {name}) = {} THEN 0 ELSE row[CHOOSE j \in Column(e, {name}) : TRUE]

Triples(e, x, y, z) ==
    [k \in DOMAIN e.rows |-> <<Get(e, e.rows[k], x), Get(e, e.rows[k], y), Get(e, e.rows[k], z)>>]

Triangles(polygon) == [j \in 1 .. Len(polygon) - 2 |-> <<polygon[1], polygon[j + 1], polygon[j + 2]>>]

AreVertices(v) ==
    /\ Len(v.rows) >= 3
    /\ \A i, j \in DOMAIN v.properties : /\ v.properties[i].list = ""
                                         /\ i # j => v.properties[i].name # v.properties[j].name

Polygons(f) ==
    LET column == Column(f, {"vertex_indices"})
    IN  IF column = {} \/ \E j \in column : f.properties[j].list = "" THEN <<>>
        ELSE [k \in DOMAIN f.rows |-> Get(f, f.rows[k], "vertex_indices")]

ArePolygons(polygons, numPoints) ==
    /\ polygons # <<>>
    /\ \A p \in Range(polygons) : Len(p) >= 3 /\ Range(p) \subseteq 0 .. numPoints - 1

\* The one mesh, if there is any.
MeshOf(es) ==
    IF \/ Len(Only(es, "vertex")) # 1
       \/ Len(Only(es, "face")) # 1
       \/ \E e \in Range(es) : e.properties = <<>>
    THEN {}
    ELSE LET v == Only(es, "vertex")[1]
             polygons == Polygons(Only(es, "face")[1])
         IN  IF ~AreVertices(v) \/ ~ArePolygons(polygons, Len(v.rows)) THEN {}
             ELSE {[points  |-> Triples(v, "x", "y", "z"),
                    normals |-> IF Column(v, {"nx", "ny", "nz"}) = {} THEN <<>>
                                ELSE Triples(v, "nx", "ny", "nz"),
                    uvs     |-> IF Column(v, {"u", "texture_v"}) = {} THEN <<>>
                                ELSE [k \in DOMAIN v.rows |-> <<Get(v, v.rows[k], "u"),
                                                               Get(v, v.rows[k], "texture_v")>>],
                    indices |-> FlattenSeq([k \in DOMAIN polygons |-> Triangles(polygons[k])])]}

\* Where the last vertex or face ends.  The newline at the end of a text may
\* be missing.
Needed(format, es) ==
    LET known == {i \in DOMAIN es : es[i].name \in {"vertex", "face"}}
    IN  IF format # "ascii" THEN Len(BytesOf(format, es))
        ELSE Len(HeaderOf(format, es)) - 1
             + Len(FlattenSeq([i \in 1 .. Max(known) |-> RowsOf(format, es[i])]))

\* Of a text that is cut after what is needed, some words are missing that are
\* skipped: it may be accepted or not.
File(bytes, n, needed, meshes) ==
    [bytes |-> SubSeq(bytes, 1, n),
     mesh  |-> IF n < needed THEN {} ELSE meshes,
     whole |-> n >= Len(bytes) - 1]

Cuts(bytes, needed, meshes) == {File(bytes, n, needed, meshes) : n \in 0 .. Len(bytes)}

Whole(bytes, meshes) == File(bytes, Len(bytes), 0, meshes)

MCPlyFiles ==
    {Whole(BytesOf(format, es), MeshOf(es)) : format \in Formats, es \in Contents}
    \cup UNION {Cuts(BytesOf(format, es), Needed(format, es), MeshOf(es)) :
                   format \in Formats, es \in ToCut}

-----------------------------------------------------------------------------
(***************************************************************************)
(* TGA files of a few pixels, in every orientation and with all packets    *)
(* they can be written in, and the bytes that each image is meant to have. *)
(***************************************************************************)

\* What a pixel of a file is in the image, by what kind of pixel it is.
Kinds ==
    [mono  |-> [type |-> 3, size |-> 8,
                pixels |-> <<0>> :> <<0, 0, 0>> @@ <<128>> :> <<128, 128, 128>>
                           @@ <<255>> :> <<255, 255, 255>>],
     rgb   |-> [type |-> 2, size |-> 24,
                pixels |-> <<1, 2, 255>> :> <<255, 2, 1>> @@ <<4, 5, 6>> :> <<6, 5, 4>>],
     alpha |-> [type |-> 2, size |-> 32,
                pixels |-> <<255, 64, 0, 255>> :> <<0, 64, 255>> @@ <<255, 255, 1, 0>> :> <<0, 0, 0>>]]

\* Width and height.
Sizes == {<<1, 1>>, <<2, 1>>, <<1, 2>>, <<2, 2>>}

Places(size) == (0 .. size[1] - 1) \X (0 .. size[2] - 1)

\* Images that differ: the pixels of one kind, from the top left.
Images(kind, size) ==
    IF size = <<2, 2>> /\ kind = "mono" THEN [Places(size) -> {<<0>>, <<128>>}]
    ELSE IF size = <<2, 2>> /\ kind = "rgb" THEN {}
    ELSE [Places(size) -> DOMAIN Kinds[kind].pixels]

\* Where the i-th pixel of a file is.
PlaceOf(i, size, rightToLeft, topToBottom) ==
    LET x == (i - 1) % size[1]
        y == (i - 1) \div size[1]
    IN  <<IF rightToLeft THEN size[1] - 1 - x ELSE x, IF topToBottom THEN y ELSE size[2] - 1 - y>>

Header(kind, rle, size, rightToLeft, topToBottom, id) ==
    <<Len(id), 0, Kinds[kind].type + (IF rle THEN 8 ELSE 0), 0, 0, 0, 0, 0, 0, 0, 0, 0,
      size[1], 0, size[2], 0, Kinds[kind].size,
      (IF rightToLeft THEN 16 ELSE 0) + (IF topToBottom THEN 32 ELSE 0)>>

Plain(pixels) == FlattenSeq(pixels)

\* All ways to write pixels as packets, by the number of pixels.
Run(pixels)  == <<127 + Len(pixels)>> \o pixels[1]
Raw(pixels)  == <<Len(pixels) - 1>> \o Plain(pixels)

FirstPackets(pixels) ==
    {Raw(pixels)} \cup IF \A p \in Range(pixels) : p = pixels[1] THEN {Run(pixels)} ELSE {}

Packets(pixels) ==
    LET of[n \in 0 .. Len(pixels)] ==
            IF n = 0 THEN {<<>>}
            ELSE UNION {{before \o packet : before \in of[k],
                                            packet \in FirstPackets(SubSeq(pixels, k + 1, n))} :
                           k \in 0 .. n - 1}
    IN  of[Len(pixels)]

PixelData(kind, rle, pixels) == IF rle THEN Packets(pixels) ELSE {Plain(pixels)}

\* Bytes of an image, as Image has them.
Buffer(kind, size, img) ==
    [i \in 0 .. size[1] * size[2] * 3 - 1 |->
        Kinds[kind].pixels[img[<<(i \div 3) % size[1], (i \div 3) \div size[1]>>]][(i % 3) + 1]]

AsBytes(numbers) == [i \in DOMAIN numbers |-> Byte(numbers[i])]

FilesOf(kind, size, img, rle, rightToLeft, topToBottom, id) ==
    LET pixels == [i \in 1 .. size[1] * size[2] |->
                      img[PlaceOf(i, size, rightToLeft, topToBottom)]]
    IN  {[bytes |-> AsBytes(Header(kind, rle, size, rightToLeft, topToBottom, id) \o id \o d),
          image |-> {Buffer(kind, size, img)}] : d \in PixelData(kind, rle, pixels)}

AllFiles ==
    UNION {UNION {FilesOf(kind, size, img, rle, rightToLeft, topToBottom, <<>>) :
                     img \in Images(kind, size)} :
              kind \in DOMAIN Kinds, size \in Sizes, rle \in BOOLEAN,
              rightToLeft \in BOOLEAN, topToBottom \in BOOLEAN}

\* Without its last bytes a file is an error, and so is one with a color map
\* or of a kind of pixel that is not supported.
Broken(f) ==
    {[bytes |-> SubSeq(f.bytes, 1, n), image |-> {}] : n \in 0 .. Len(f.bytes) - 1}
    \cup {[bytes |-> [f.bytes EXCEPT ![b[1]] = Byte(b[2])], image |-> {}] :
             b \in {<<2, 1>>, <<2, 2>>, <<3, 0>>, <<3, 1>>, <<6, 1>>, <<13, 0>>, <<15, 0>>,
                    <<17, 16>>, <<17, 9>>}}

MCTgaFiles ==
    AllFiles
    \cup UNION {Broken(f) : f \in FilesOf("rgb", <<1, 2>>, [p \in Places(<<1, 2>>) |-> <<4, 5, 6>>],
                                          TRUE, FALSE, FALSE, <<7>>)}

-----------------------------------------------------------------------------
(***************************************************************************)
(* Base85 strings over few digits, and meshes in documents, with the data  *)
(* that was encoded in them.                                               *)
(***************************************************************************)

Digits(number, base, n) == [i \in 1..n |-> (number \div base ^ (n - i)) % base]

NumberOf(digits, base) == FoldLeft(LAMBDA sum, d : sum * base + d, 0, digits)

\* Of up to four bytes, filled up with zeros, the first digits.
EncodedGroup(bytes) ==
    LET number == NumberOf([i \in 1..4 |-> IF i <= Len(bytes) THEN bytes[i] ELSE 0], ByteBase)
    IN  SubSeq(Digits(number, Base, 5), 1, Len(bytes) + 1)

Encoding(bytes) ==
    IF Len(bytes) <= 4 THEN EncodedGroup(bytes)
    ELSE EncodedGroup(SubSeq(bytes, 1, 4)) \o EncodedGroup(SubSeq(bytes, 5, Len(bytes)))

BytesOfLength(n) == [1..n -> 0 .. ByteBase - 1]

\* All groups of bytes, some of two groups, and all strings of five digits or
\* of what is none.
Data ==
    UNION {BytesOfLength(n) : n \in 1..3}
    \cup {<<0, 1, 2, 3>> \o d : d \in BytesOfLength(1) \cup BytesOfLength(2)}

Meant5(text) ==
    LET number == NumberOf(text, Base)
    IN  IF -1 \in Range(text) \/ number >= ByteBase ^ 4 THEN {} ELSE {Digits(number, ByteBase, 4)}

MCBase85Files ==
    {[text |-> Encoding(d), data |-> {d}] : d \in Data}
    \cup {[text |-> t, data |-> Meant5(t)] : t \in [1..5 -> -1 .. Base - 1]}

-----------------------------------------------------------------------------
BytesInMesh(n, size) ==
    LET m == IF n >= 0 THEN n ELSE -n - 1
        digit(i) == (m \div 256 ^ (size - i)) % 256
    IN  [i \in 1..size |-> Byte(IF n >= 0 THEN digit(i) ELSE 255 - digit(i))]

\* Rows of numbers of size bytes each.
Bytes(rows, size) ==
    [type  |-> "bytes",
     bytes |-> FlattenSeq([k \in DOMAIN rows |->
                   FlattenSeq([j \in DOMAIN rows[k] |-> BytesInMesh(rows[k][j], size)])])]

NotBytes == {[type |-> "text", bytes |-> <<>>], [type |-> "other", bytes |-> <<>>]}

Calculate == [type |-> "calculate", bytes |-> <<>>]

\* The first three are in a plane; then come points above and below it.
Points == <<<<0, 0, 0>>, <<2, 0, 0>>, <<0, 2, 0>>, <<0, 0, 70000>>, <<1, 1, -1>>>>

IndexSize(numPoints) == IF numPoints <= Max8 THEN 1 ELSE IF numPoints <= Max16 THEN 2 ELSE 4

IndexTriangles(n) == {<<<<0, 1, 2>>>>, <<<<2, 1, 0>>>>, <<<<0, 1, n - 1>>, <<n - 1, 1, 2>>>>}

Valid(is, n) == \A k \in DOMAIN is : \A j \in 1..3 : is[k][j] < n

Meshes ==
    {[points |-> SubSeq(Points, 1, n), indices |-> is] :
        <<n, is>> \in UNION {{n} \X (IndexTriangles(n) \cup {<<<<0, 1, n>>>>}) : n \in 2..5}}

\* Normals that are calculated: of triangles in the plane, up or down.
PlaneNormals(m) == [p \in DOMAIN m.points |-> IF m.indices[1] = <<0, 1, 2>> THEN <<0, 0, 1>> ELSE <<0, 0, -1>>]

Entries(m, more) ==
    ("points" :> Bytes(m.points, 4) @@ "indices" :> Bytes(m.indices, IndexSize(Len(m.points))))
    @@ more

Meant(m, normals, uvs) ==
    IF Len(m.points) < 3 \/ ~Valid(m.indices, Len(m.points)) THEN {}
    ELSE {[points |-> m.points, indices |-> m.indices, normals |-> normals, uvs |-> uvs]}

\* Numbers with one component more or less per point.
Rows(m, n) == [p \in 1 .. Len(m.points) |-> [j \in 1..n |-> p - 2 * j]]

MeshFile(entries, mesh) == [entries |-> entries, mesh |-> mesh, mesh_but_uvs |-> {}]

\* With uvs that are no bytes: the mesh, if there is any, but for them.
MeshBadUvs(entries, uvs, mesh) ==
    [entries |-> "uvs" :> uvs @@ entries, mesh |-> {}, mesh_but_uvs |-> mesh]

MeshFilesOf(m) ==
    LET normals == Rows(m, 3)
        uvs == Rows(m, 2)
    IN  {MeshFile(Entries(m, <<>>), Meant(m, <<>>, <<>>)),
         MeshFile(Entries(m, "normals" :> Bytes(normals, 2)), Meant(m, normals, <<>>)),
         MeshFile(Entries(m, "uvs" :> Bytes(uvs, 2)), Meant(m, <<>>, uvs)),
         MeshFile(Entries(m, "normals" :> Bytes(Tail(normals), 2)), {}),
         MeshFile(Entries(m, "uvs" :> Bytes(Tail(uvs), 2)), {})}
        \cup {MeshBadUvs(Entries(m, <<>>), e, Meant(m, <<>>, <<>>)) : e \in NotBytes}
        \cup {MeshBadUvs(Entries(m, "normals" :> Bytes(normals, 2)), e, Meant(m, normals, <<>>)) :
                 e \in NotBytes}
        \cup {MeshBadUvs(Entries(m, "normals" :> Bytes(Tail(normals), 2)), e, {}) : e \in NotBytes}
        \cup {MeshFile(Entries(m, "normals" :> e), {}) : e \in NotBytes}
        \cup {MeshFile(key :> e @@ Entries(m, <<>>), {}) : key \in {"points", "indices"}, e \in NotBytes}
        \cup {MeshFile([key \in {k} |-> Entries(m, <<>>)[key]], {}) : k \in {"points", "indices"}}
        \cup IF Len(m.points) = 3 /\ Valid(m.indices, 3) /\ Len(m.indices) = 1
             THEN {MeshFile(Entries(m, "normals" :> Calculate), Meant(m, PlaneNormals(m), <<>>))}
             ELSE {}

\* Two triangles that share an edge: the larger one counts more there.
TwoTriangles ==
    [points |-> <<<<0, 0, 0>>, <<2, 0, 0>>, <<0, 2, 0>>, <<0, 0, 1>>>>,
     indices |-> <<<<0, 1, 2>>, <<0, 1, 3>>>>]

MCMeshFiles ==
    UNION {MeshFilesOf(m) : m \in Meshes}
    \cup {MeshFile(Entries(TwoTriangles, "normals" :> Calculate),
                   Meant(TwoTriangles,
                         <<<<0, -1, 2>>, <<0, -1, 2>>, <<0, 0, 1>>, <<0, -1, 0>>>>, <<>>))}
=============================================================================

-------------------------------- MODULE Ply --------------------------------
(***************************************************************************)
(* lib/file_formats/ply.cpp: a header of words that says what elements     *)
(* follow, then the rows of the elements, as words or in binary.           *)
(*                                                                         *)
(* Types of properties are [basic_type, list_size_type, is_list].          *)
(***************************************************************************)
EXTENDS BinaryReader, FiniteSets

CONSTANT PlyFiles  \* files: bytes, and what is known of them

VARIABLES
    file,      \* history: the file
    reader,
    step,      \* what is read next, "ok" and "error" at the end
    header,    \* format and elements
    left,      \* elements whose rows are not all read
    row,       \* rows read of the first of them
    mesh       \* data

plyVars == <<file, reader, step, header, left, row, mesh>>

-----------------------------------------------------------------------------
(* Words.                                                                  *)

IsSpace(byte) == byte \in {Space, Newline}

FirstFrom(reader_, Test(_)) ==
    LET start == reader_.position
        end   == Len(reader_.buffer)
        At(p) == Test(reader_.buffer[p + 1])
    IN  IF \A p \in start .. end - 1 : ~At(p) THEN end
        ELSE CHOOSE p \in start .. end - 1 : At(p) /\ \A q \in start .. p - 1 : ~At(q)

skip_space(r) == [r EXCEPT !.position = FirstFrom(r, LAMBDA byte : ~IsSpace(byte))]

\* The byte after is skipped with what was looked for.
SkipOne(r) == IF at_eof(r) THEN r ELSE Advanced(r, 1)

skip_comment(r) ==
    SkipOne([r EXCEPT !.position = FirstFrom(r, LAMBDA byte : byte = Newline)])

\* The word, which is empty at the end, and the reader after it.
read_word(r) ==
    LET start == skip_space(r)
        end   == FirstFrom(start, IsSpace)
    IN  Value(SubSeq(r.buffer, start.position + 1, end),
              SkipOne([r EXCEPT !.position = end]))

skip_word(r) == read_word(r).reader

IsWord(word, w) == word = <<Word(w)>>

WordIn(word, ws) == \E w \in ws : IsWord(word, w)

\* string_to_number<type>(): what is not the text of a number of the type is
\* an error.
FitsType(type, n) ==
    CASE type = "int8"              -> n \in -128..127
      [] type = "uint8"             -> n \in 0..255
      [] type = "int16"             -> n \in -32768..32767
      [] type = "uint16"            -> n \in 0..65535
      [] type = "uint32"            -> n >= 0
      [] OTHER                      -> TRUE

read_ascii_number(r, type) ==
    Then(read_word(r), LAMBDA word, after :
        IF Len(word) = 1 /\ word[1][1] = "number" /\ FitsType(type, word[1][2])
        THEN Value(word[1][2], after)
        ELSE Error(after))

-----------------------------------------------------------------------------
(* Values.  T is the type of what is read: uint32, or float32 for real_t.   *)

read_number_of(r, basic_type) ==
    CASE header.format = "ascii"                -> read_ascii_number(r, basic_type)
      [] header.format = "binary_big_endian"    -> read_big_endian(r, basic_type)
      [] header.format = "binary_little_endian" -> read_little_endian(r, basic_type)

read_number(r, T, basic_type) ==
    Then(read_number_of(r, basic_type),
         LAMBDA n, after : IF FitsType(T, n) THEN Value(n, after) ELSE Error(after))

read_scalar(r, T, type) ==
    IF type.is_list THEN Error(r) ELSE read_number(r, T, type.basic_type)

Repeated(count, r, Read(_)) ==
    FoldLeft(LAMBDA sofar, i :
                 Then(sofar, LAMBDA values, before :
                     Then(Read(before), LAMBDA n, after : Value(Append(values, n), after))),
             Value(<<>>, r), [i \in 1..count |-> i])

read_list(r, T, type) ==
    IF ~type.is_list THEN Error(r)
    ELSE Then(read_number(r, "uint32", type.list_size_type), LAMBDA count, after :
              Repeated(count, after, LAMBDA before : read_number(before, T, type.basic_type)))

skip_value(r, type) ==
    Then(IF type.is_list THEN read_number(r, "uint32", type.list_size_type) ELSE Value(1, r),
         LAMBDA count, after :
             IF header.format = "ascii"
             THEN Repeated(count, after, read_word)
             ELSE skip_bytes(after, SizeOf(type.basic_type) * count))

-----------------------------------------------------------------------------
(* The header.                                                             *)

TypeOfWord ==
    "int8" :> "int8" @@ "char" :> "int8" @@ "uint8" :> "uint8" @@ "uchar" :> "uint8"
    @@ "int16" :> "int16" @@ "short" :> "int16" @@ "uint16" :> "uint16" @@ "ushort" :> "uint16"
    @@ "int32" :> "int32" @@ "int" :> "int32" @@ "uint32" :> "uint32" @@ "uint" :> "uint32"
    @@ "float32" :> "float32" @@ "float" :> "float32"
    @@ "float64" :> "float64" @@ "double" :> "float64"

str_to_basic_type(word, after) ==
    IF WordIn(word, DOMAIN TypeOfWord) THEN Value(TypeOfWord[word[1][2]], after)
    ELSE Error(after)

read_basic_type(r) == Then(read_word(r), str_to_basic_type)

read_type(r) ==
    Then(read_word(r), LAMBDA word, after :
        IF ~IsWord(word, "list")
        THEN Then(str_to_basic_type(word, after), LAMBDA type, r1 :
                 Value([basic_type |-> type, list_size_type |-> "int8", is_list |-> FALSE], r1))
        ELSE Then(read_basic_type(after), LAMBDA size_type, r1 :
             Then(read_basic_type(r1), LAMBDA type, r2 :
                 Value([basic_type |-> type, list_size_type |-> size_type, is_list |-> TRUE], r2))))

ElementName(word) == IF WordIn(word, {"vertex", "face"}) THEN word[1][2] ELSE "unknown"

PropertyOfWord ==
    [vertex  |-> "x" :> "x" @@ "y" :> "y" @@ "z" :> "z"
                 @@ "nx" :> "nx" @@ "ny" :> "ny" @@ "nz" :> "nz"
                 @@ "u" :> "u" @@ "s" :> "u" @@ "texture_u" :> "u" @@ "texture_s" :> "u"
                 @@ "v" :> "v" @@ "t" :> "v" @@ "texture_v" :> "v" @@ "texture_t" :> "v",
     face    |-> "vertex_indices" :> "indices",
     unknown |-> <<>>]

PropertyName(word, element_name) ==
    LET names == PropertyOfWord[element_name]
    IN  IF WordIn(word, DOMAIN names) THEN names[word[1][2]] ELSE "unknown"

HasElement(name) == \E e \in Range(header.elements) : e.name = name

HasProperty(element, name) == \E p \in Range(element.properties) : p.name = name

read_element(r) ==
    Then(read_word(r), LAMBDA word, after :
        IF word = <<>> THEN Error(after)
        ELSE Then(read_ascii_number(after, "uint32"), LAMBDA count, end :
                 Value([name |-> ElementName(word), count |-> count, properties |-> <<>>], end)))

read_property(r, element_name) ==
    Then(read_type(r), LAMBDA type, r1 :
    Then(read_word(r1), LAMBDA word, r2 :
        IF word = <<>> THEN Error(r2)
        ELSE Value([type |-> type, name |-> PropertyName(word, element_name)], r2)))

-----------------------------------------------------------------------------
(* Rows.                                                                   *)

Vertex == [x |-> 0, y |-> 0, z |-> 0, nx |-> 0, ny |-> 0, nz |-> 0, u |-> 0, v |-> 0]

read_vertex(r, element) ==
    FoldLeft(LAMBDA sofar, property :
                 Then(sofar, LAMBDA vertex, before :
                 Then(read_scalar(before, "float32", property.type), LAMBDA n, after :
                     Value(IF property.name = "unknown" THEN vertex
                           ELSE [vertex EXCEPT ![property.name] = n], after))),
             Value(Vertex, r), element.properties)

\* The triangles of a polygon.
Fan(is) == [j \in 1 .. Len(is) - 2 |-> <<is[1], is[j + 1], is[j + 2]>>]

read_polygon(r, type, triangles) ==
    Then(read_list(r, "uint32", type), LAMBDA is, after :
        IF Len(is) < 3 THEN Error(after) ELSE Value(triangles \o Fan(is), after))

read_face(r, element) ==
    FoldLeft(LAMBDA sofar, property :
                 Then(sofar, LAMBDA triangles, before :
                     IF property.name = "indices"
                     THEN read_polygon(before, property.type, triangles)
                     ELSE Then(skip_value(before, property.type), LAMBDA skipped, after :
                              Value(triangles, after))),
             Value(<<>>, r), element.properties)

skip_row(r, element) ==
    FoldLeft(LAMBDA sofar, property :
                 Then(sofar, LAMBDA nothing, before : skip_value(before, property.type)),
             Value(<<>>, r), element.properties)

AnyOf(element, names) == \E name \in names : HasProperty(element, name)

WithVertex(element, v) ==
    [mesh EXCEPT !.points  = Append(@, <<v.x, v.y, v.z>>),
                 !.normals = IF AnyOf(element, {"nx", "ny", "nz"})
                             THEN Append(@, <<v.nx, v.ny, v.nz>>) ELSE @,
                 !.uvs     = IF AnyOf(element, {"u", "v"}) THEN Append(@, <<v.u, v.v>>) ELSE @]

\* Mutant: an index may be one beyond the last.
IndicesAtMostCount(data) ==
    \A triangle \in Range(data.indices) : \A i \in Range(triangle) : i <= Len(data.points)

IndicesInRange(data) ==
    \A triangle \in Range(data.indices) : \A i \in Range(triangle) : i <= Len(data.points) - 1

-----------------------------------------------------------------------------
Init ==
    /\ file \in PlyFiles
    /\ reader = Opened(file.bytes)
    /\ step = "magic"
    /\ header = [format |-> "ascii", elements |-> <<>>]
    /\ left = <<>>
    /\ row = 0
    /\ mesh = [points |-> <<>>, normals |-> <<>>, uvs |-> <<>>, indices |-> <<>>]

\* An error of what has been read ends the reading.
Failed(result) ==
    /\ result.is_error
    /\ reader' = result.reader
    /\ step' = "error"
    /\ UNCHANGED <<file, header, left, row, mesh>>

read_magic_and_format ==
    /\ step = "magic"
    /\ LET result ==
           Then(read_bytes(reader, 2, 0, 2), LAMBDA magic, r0 :
               IF magic # <<Word("ply"), Newline>> THEN Error(r0)
               ELSE
           Then(read_word(r0), LAMBDA keyword, r1 :
               IF ~IsWord(keyword, "format") THEN Error(r1)
               ELSE
           Then(read_word(r1), LAMBDA format, r2 :
               IF ~WordIn(format, {"ascii", "binary_big_endian", "binary_little_endian"})
               THEN Error(r2)
               ELSE
           Then(read_word(r2), LAMBDA version, r3 :
               IF ~IsWord(version, "1.0") THEN Error(r3) ELSE Value(format[1][2], r3)))))
       IN  \/ Failed(result)
           \/ /\ ~result.is_error
              /\ header' = [header EXCEPT !.format = result.value]
              /\ reader' = result.reader
              /\ step' = "header"
              /\ UNCHANGED <<file, left, row, mesh>>

Keyword(w) == step = "header" /\ IsWord(read_word(reader).value, w)

AfterKeyword == read_word(reader).reader

comment ==
    /\ Keyword("comment")
    /\ reader' = skip_comment(AfterKeyword)
    /\ UNCHANGED <<file, step, header, left, row, mesh>>

AddElement(element, after) ==
    IF element.name # "unknown" /\ HasElement(element.name) THEN Error(after)
    ELSE Value(Append(header.elements, element), after)

element ==
    /\ Keyword("element")
    /\ LET result == Then(read_element(AfterKeyword), AddElement)
       IN  \/ Failed(result)
           \/ /\ ~result.is_error
              /\ header' = [header EXCEPT !.elements = result.value]
              /\ reader' = result.reader
              /\ UNCHANGED <<file, step, left, row, mesh>>

AddProperty(property, after) ==
    LET elements == header.elements
        last     == elements[Len(elements)]
    IN  IF property.name # "unknown" /\ HasProperty(last, property.name) THEN Error(after)
        ELSE Value([elements EXCEPT ![Len(elements)].properties = Append(@, property)], after)

property ==
    /\ Keyword("property")
    /\ LET elements == header.elements
           result ==
               IF elements = <<>> THEN Error(AfterKeyword)
               ELSE Then(read_property(AfterKeyword, elements[Len(elements)].name), AddProperty)
       IN  \/ Failed(result)
           \/ /\ ~result.is_error
              /\ header' = [header EXCEPT !.elements = result.value]
              /\ reader' = result.reader
              /\ UNCHANGED <<file, step, left, row, mesh>>

HeaderIsComplete ==
    /\ HasElement("vertex")
    /\ HasElement("face")
    /\ \A e \in Range(header.elements) : e.properties # <<>>

end_header ==
    /\ Keyword("end_header")
    /\ reader' = AfterKeyword
    /\ IF HeaderIsComplete THEN step' = "data" /\ left' = header.elements
                           ELSE step' = "error" /\ UNCHANGED left
    /\ UNCHANGED <<file, header, row, mesh>>

other_keyword ==
    /\ step = "header"
    /\ ~WordIn(read_word(reader).value, {"comment", "element", "property", "end_header"})
    /\ Failed(Error(AfterKeyword))

Reading(name) ==
    /\ step = "data"
    /\ left # <<>>
    /\ Head(left).name = name
    /\ row < Head(left).count

\* A row has been read, into data.
RowRead(result, data) ==
    /\ ~result.is_error
    /\ reader' = result.reader
    /\ mesh' = data
    /\ row' = row + 1
    /\ UNCHANGED <<file, step, header, left>>

read_vertex_data ==
    /\ Reading("vertex")
    /\ LET result == read_vertex(reader, Head(left))
       IN  Failed(result) \/ RowRead(result, WithVertex(Head(left), result.value))

read_face_data ==
    /\ Reading("face")
    /\ LET result == read_face(reader, Head(left))
       IN  \/ Failed(result)
           \/ RowRead(result, [mesh EXCEPT !.indices = @ \o result.value])

skip_unknown ==
    /\ Reading("unknown")
    /\ LET result == skip_row(reader, Head(left))
       IN  Failed(result) \/ RowRead(result, mesh)

next_element ==
    /\ step = "data"
    /\ left # <<>>
    /\ row = Head(left).count
    /\ left' = Tail(left)
    /\ row' = 0
    /\ UNCHANGED <<file, reader, step, header, mesh>>

check_mesh ==
    /\ step = "data"
    /\ left = <<>>
    /\ step' = IF Len(mesh.points) >= 3 /\ mesh.indices # <<>> /\ IndicesInRange(mesh)
               THEN "ok" ELSE "error"
    /\ UNCHANGED <<file, reader, header, left, row, mesh>>

Next ==
    \/ read_magic_and_format
    \/ comment \/ element \/ property \/ end_header \/ other_keyword
    \/ read_vertex_data \/ read_face_data \/ skip_unknown \/ next_element
    \/ check_mesh
=============================================================================

---------------------------- MODULE BinaryReader ----------------------------
(***************************************************************************)
(* lib/io/binary_reader.{h,cpp}: a position in bytes, which come from a    *)
(* mapped file or from a vector.                                           *)
(*                                                                         *)
(* Bytes are <<"byte", n>>.  A word of text is one byte of its own kind,   *)
(* <<"word", w>>, and so are the digits of a number, <<"number", n>>.      *)
(***************************************************************************)
EXTENDS Integers, Sequences, SequencesExt, Functions, TLC, Result

Byte(n)   == <<"byte", n>>
Word(w)   == <<"word", w>>
Number(n) == <<"number", n>>

Newline == Byte(10)
Space   == Byte(32)

\* open_file(), of a file that can be mapped, and set_data()
Opened(bytes) == [buffer |-> bytes, position |-> 0]

Advanced(reader, n) == [reader EXCEPT !.position = @ + n]

InBuffer(reader, n) == reader.position + n <= Len(reader.buffer)

BytesAt(reader, n) == SubSeq(reader.buffer, reader.position + 1, reader.position + n)

at_eof(reader) == reader.position >= Len(reader.buffer)

at(reader, c) == ~at_eof(reader) /\ reader.buffer[reader.position + 1] = c

next_bytes(reader, n) ==
    IF InBuffer(reader, n) THEN Value(BytesAt(reader, n), Advanced(reader, n))
    ELSE Error(reader)

\* Into dest, of dest_size bytes, from dest_offset on.
read_bytes(reader, dest_size, dest_offset, n) ==
    IF dest_offset < dest_size /\ n <= dest_size - dest_offset
    THEN next_bytes(reader, n)
    ELSE Error(reader)

skip_bytes(reader, n) ==
    IF InBuffer(reader, n) THEN Value(<<>>, Advanced(reader, n)) ELSE Error(reader)

-----------------------------------------------------------------------------
(* Numbers.  Integers above 2^31 - 1 are beyond TLC, and not in the files.  *)

SizeOf(type) ==
    CASE type \in {"int8", "uint8"}               -> 1
      [] type \in {"int16", "uint16"}             -> 2
      [] type \in {"int32", "uint32", "float32"}  -> 4
      [] type \in {"int64", "uint64", "float64"}  -> 8

IsFloat(type)  == type \in {"float32", "float64"}
IsSigned(type) == type \in {"int8", "int16", "int32", "int64"}

\* big_endian_uint16() and so on: the bytes, the most significant one first
unsigned_of(bytes) == FoldLeft(LAMBDA sum, byte : 256 * sum + byte, 0, bytes)

\* The cast to a signed type of the same size.
signed_of(bytes) ==
    IF Head(bytes) < 128 THEN unsigned_of(bytes)
    ELSE FoldLeft(LAMBDA sum, byte : 256 * sum + byte, Head(bytes) - 256, Tail(bytes))

\* float_from_int(), of the floats that are in files here, by type: their
\* IEEE 754 bytes.  What other bytes stand for is one more number.
FloatBytes ==
    [float32 |-> 0 :> <<0, 0, 0, 0>> @@ 1 :> <<63, 128, 0, 0>> @@ 2 :> <<64, 0, 0, 0>>
                 @@ 3 :> <<64, 64, 0, 0>> @@ -1 :> <<191, 128, 0, 0>>,
     float64 |-> 0 :> <<0, 0, 0, 0, 0, 0, 0, 0>> @@ 1 :> <<63, 240, 0, 0, 0, 0, 0, 0>>
                 @@ 2 :> <<64, 0, 0, 0, 0, 0, 0, 0>> @@ 3 :> <<64, 8, 0, 0, 0, 0, 0, 0>>
                 @@ -1 :> <<191, 240, 0, 0, 0, 0, 0, 0>>]

OtherFloat == 1000

float_from_int(type, bytes) ==
    LET floats == {f \in DOMAIN FloatBytes[type] : FloatBytes[type][f] = bytes}
    IN  IF floats = {} THEN OtherFloat ELSE CHOOSE f \in floats : TRUE

number_of(type, bytes) ==
    IF IsFloat(type) THEN float_from_int(type, bytes)
    ELSE IF IsSigned(type) THEN signed_of(bytes) ELSE unsigned_of(bytes)

read_big_endian(reader, type) ==
    Then(next_bytes(reader, SizeOf(type)),
         LAMBDA bytes, r : Value(number_of(type, [i \in DOMAIN bytes |-> bytes[i][2]]), r))

read_little_endian(reader, type) ==
    Then(next_bytes(reader, SizeOf(type)),
         LAMBDA bytes, r : Value(number_of(type, Reverse([i \in DOMAIN bytes |-> bytes[i][2]])), r))
=============================================================================

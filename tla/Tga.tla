-------------------------------- MODULE Tga --------------------------------
(***************************************************************************)
(* lib/file_formats/tga.cpp, and the Image (lib/graphics/image.{h,cpp})    *)
(* that it writes to: a header, then rows of pixels, plain or as packets   *)
(* that are repeated pixels or plain ones, and that may go on in the next  *)
(* row.                                                                    *)
(*                                                                         *)
(* The numbers of an Image are exact, and its size in bytes is far below   *)
(* 2^32.                                                                   *)
(***************************************************************************)
EXTENDS BinaryReader

CONSTANT TgaFiles  \* files: bytes, and what is known of them

VARIABLES
    file,      \* history: the file
    reader,
    step,      \* what is read next, "ok" and "error" at the end
    header,
    row,       \* y
    rle,       \* rle_state
    image

tgaVars == <<file, reader, step, header, row, rle, image>>

-----------------------------------------------------------------------------
(* Image.                                                                  *)

BYTES_PER_PIXEL == 3

stride(img) == img.width * BYTES_PER_PIXEL

NewImage(width, height) ==
    [width |-> width, height |-> height,
     buffer |-> [i \in 0 .. width * BYTES_PER_PIXEL * height - 1 |-> 0]]

offset_to(img, x, y) == stride(img) * y + x * BYTES_PER_PIXEL

\* Channels of a color are <<n, d>>, for n / d.
ChannelByte(channel) ==
    IF channel[1] < channel[2] THEN (channel[1] * 256) \div channel[2] ELSE 255

write_pixel(img, x, y, color) ==
    [img EXCEPT !.buffer =
        [i \in {offset_to(img, x, y) + c : c \in 0..2} |->
            ChannelByte(color[i - offset_to(img, x, y) + 1])] @@ @]

read_pixel(img, x, y) == [c \in 1..3 |-> <<img.buffer[offset_to(img, x, y) + c - 1], 255>>]

-----------------------------------------------------------------------------
(* The header.                                                             *)

NONE         == 0
COLOR_MAPPED == 1
RGB          == 2
MONO         == 3

Bit(n, byte) == (byte \div 2 ^ n) % 2 = 1

\* The header, of its bytes.
HeaderOf(data) ==
    [id_field_length    |-> data[1],
     color_map_type     |-> data[2],
     image_type         |-> data[3] % 8,
     run_length_encoded |-> Bit(3, data[3]),
     color_map_length   |-> data[6] + data[7] * 256,
     color_map_entry    |-> data[8],
     width              |-> data[13] + data[14] * 256,
     height             |-> data[15] + data[16] * 256,
     pixel_size         |-> data[17],
     bytes_per_pixel    |-> (data[17] + 7) \div 8,
     right_to_left      |-> Bit(4, data[18]),
     top_to_bottom      |-> Bit(5, data[18])]

IsAccepted(h) ==
    /\ h.color_map_type \in {0, 1}
    /\ h.image_type \in {NONE, COLOR_MAPPED, RGB, MONO}
    /\ IF h.image_type = COLOR_MAPPED
       THEN h.color_map_length > 0 /\ h.color_map_entry > 0 /\ h.color_map_type = 1
       ELSE h.color_map_length = 0 /\ h.color_map_entry = 0 /\ h.color_map_type = 0
    /\ h.width > 0 /\ h.height > 0
    /\ h.pixel_size \in {8, 15, 16, 24, 32}

Numbers(bytes) == [i \in DOMAIN bytes |-> bytes[i][2]]

read_header(r) ==
    Then(read_bytes(r, 18, 0, 18), LAMBDA bytes, after :
        IF IsAccepted(HeaderOf(Numbers(bytes))) THEN Value(HeaderOf(Numbers(bytes)), after)
        ELSE Error(after))

-----------------------------------------------------------------------------
(* Rows.                                                                   *)

NoPacket == [raw |-> FALSE, bytes_left |-> 0, pixel_pos |-> 0, pixel |-> <<>>]

\* The start of a packet.
read_packet(r) ==
    Then(next_bytes(r, 1), LAMBDA count, r1 :
        IF count[1][2] < 128
        THEN Value([NoPacket EXCEPT !.raw = TRUE,
                                    !.bytes_left = (count[1][2] + 1) * header.bytes_per_pixel], r1)
        ELSE Then(read_bytes(r1, 4, 0, header.bytes_per_pixel), LAMBDA pixel, r2 :
                 Value([raw |-> FALSE, pixel_pos |-> 0, pixel |-> Numbers(pixel),
                        bytes_left |-> (count[1][2] - 127) * header.bytes_per_pixel], r2)))

\* One byte of the packet goes to dest.
read_from_packet(p, dest, r) ==
    IF p.raw
    THEN Then(next_bytes(r, 1), LAMBDA byte, after :
             Value([packet |-> [p EXCEPT !.bytes_left = @ - 1], dest |-> Append(dest, byte[1][2])],
                   after))
    ELSE Value([packet |-> [p EXCEPT !.bytes_left = @ - 1,
                                     !.pixel_pos = (@ + 1) % header.bytes_per_pixel],
                dest |-> Append(dest, p.pixel[p.pixel_pos + 1])], r)

\* Mutant: a row starts with a new packet.
PacketOfRowStart == NoPacket

\* The packet a row starts in.
PacketAtRowStart == rle

read_run_length_encoded(r, size) ==
    FoldLeft(LAMBDA sofar, i :
                 Then(sofar, LAMBDA s, before :
                 Then(IF s.packet.bytes_left = 0 THEN read_packet(before)
                      ELSE Value(s.packet, before),
                      LAMBDA packet, after : read_from_packet(packet, s.dest, after))),
             Value([packet |-> PacketAtRowStart, dest |-> <<>>], r),
             [i \in 1..size |-> i])

read_plain(r, size) ==
    Then(read_bytes(r, size, 0, size), LAMBDA bytes, after :
        Value([packet |-> rle, dest |-> Numbers(bytes)], after))

IsSupported(h) == <<h.image_type, h.pixel_size>> \in {<<RGB, 24>>, <<RGB, 32>>, <<MONO, 8>>}

ColorOf(pixel) ==
    CASE header.image_type = MONO -> [c \in 1..3 |-> <<pixel[1], 255>>]
      [] header.pixel_size = 24   -> [c \in 1..3 |-> <<pixel[4 - c], 255>>]
      [] OTHER                    -> [c \in 1..3 |-> <<pixel[4 - c] * pixel[4], 255 * 255>>]

PixelAt(bytes, x) == SubSeq(bytes, header.bytes_per_pixel * x + 1, header.bytes_per_pixel * (x + 1))

ImageX(x) == IF header.right_to_left THEN header.width - 1 - x ELSE x
ImageRow == IF header.top_to_bottom THEN row ELSE header.height - 1 - row

write_row(img, bytes) ==
    FoldLeft(LAMBDA i, x : write_pixel(i, ImageX(x), ImageRow, ColorOf(PixelAt(bytes, x))),
             img, [x \in 1..header.width |-> x - 1])

-----------------------------------------------------------------------------
Init ==
    /\ file \in TgaFiles
    /\ reader = Opened(file.bytes)
    /\ step = "header"
    /\ header = [width |-> 0, height |-> 0]
    /\ row = 0
    /\ rle = NoPacket
    /\ image = NewImage(0, 0)

Failed(result) ==
    /\ result.is_error
    /\ reader' = result.reader
    /\ step' = "error"
    /\ UNCHANGED <<file, header, row, rle, image>>

AfterHeader(h, r) ==
    Then(skip_bytes(r, h.id_field_length), LAMBDA nothing, after :
        IF h.color_map_type = 1 THEN Error(after) ELSE Value(h, after))

read_start ==
    /\ step = "header"
    /\ LET result == Then(read_header(reader), AfterHeader)
       IN  \/ Failed(result)
           \/ /\ ~result.is_error
              /\ header' = result.value
              /\ image' = NewImage(result.value.width, result.value.height)
              /\ reader' = result.reader
              /\ step' = "rows"
              /\ UNCHANGED <<file, row, rle>>

ReadRow ==
    LET size == header.bytes_per_pixel * header.width
    IN  Then(IF header.run_length_encoded THEN read_run_length_encoded(reader, size)
             ELSE read_plain(reader, size),
             LAMBDA s, after : IF IsSupported(header) THEN Value(s, after) ELSE Error(after))

read_row ==
    /\ step = "rows"
    /\ row < header.height
    /\ LET result == ReadRow
       IN  \/ Failed(result)
           \/ /\ ~result.is_error
              /\ image' = write_row(image, result.value.dest)
              /\ rle' = result.value.packet
              /\ reader' = result.reader
              /\ row' = row + 1
              /\ UNCHANGED <<file, step, header>>

rows_read ==
    /\ step = "rows"
    /\ row = header.height
    /\ step' = "ok"
    /\ UNCHANGED <<file, reader, header, row, rle, image>>

Next == read_start \/ read_row \/ rows_read
=============================================================================

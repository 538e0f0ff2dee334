----------------------------- MODULE ImageFiles -----------------------------
(***************************************************************************)
(* lib/file_formats/image.cpp, png.cpp, jpeg.cpp, webp.cpp and exr.cpp,    *)
(* and the MemoryMappedFile that two of them read from: the format of an   *)
(* image is found from its file, then the reader of the format opens the   *)
(* file again.  (Tga is the reader of TGA files.)                          *)
(*                                                                         *)
(* The libraries that decode are external: a call of one fails when the    *)
(* file is not of its format, and may fail when it is.  The file may       *)
(* become another one between any two steps.                               *)
(***************************************************************************)
EXTENDS Integers, Sequences, FiniteSets

CONSTANTS
    MaxReplacements,  \* bound: how often the file becomes another one
    Height            \* bound: rows of an image

VARIABLES
    extension,  \* what the extension of the file's name says
    disk,       \* contents of the file
    replaced,   \* bound: how often the file became another one
    fault,      \* history: whether any call failed that need not have
    held,       \* what is allocated or open
    step,       \* what is done next, "ok" and "error" at the end
    row,        \* output_scanline
    decoded     \* history: contents the image has been decoded from, or {}

imageVars == <<extension, disk, replaced, fault, held, step, row, decoded>>

Formats == {"exr", "jpeg", "png", "webp", "tga"}

\* Those with a magic number at the start.
WithMagic == Formats \ {"tga"}

Contents == Formats \cup {"absent", "empty", "other"}

Init ==
    /\ extension \in Formats \cup {"other"}
    /\ disk \in Contents
    /\ replaced = 0
    /\ fault = FALSE
    /\ held = {}
    /\ step = "magic open"
    /\ row = 0
    /\ decoded = {}

\* Another program replaces or removes the file.
replace ==
    /\ replaced < MaxReplacements
    /\ step \notin {"ok", "error"}
    /\ disk' \in Contents \ {disk}
    /\ replaced' = replaced + 1
    /\ UNCHANGED <<extension, fault, held, step, row, decoded>>

Goto(next, resources) ==
    /\ step' = next
    /\ held' = resources
    /\ UNCHANGED <<extension, disk, replaced>>

\* A call that cannot succeed, or does not.
CallFails(canSucceed, next, resources) ==
    /\ fault' = (fault \/ canSucceed)
    /\ Goto(next, resources)
    /\ UNCHANGED <<row, decoded>>

CallSucceeds(canSucceed, next, resources) ==
    /\ canSucceed
    /\ Goto(next, resources)
    /\ UNCHANGED <<fault, row, decoded>>

-----------------------------------------------------------------------------
(* MemoryMappedFile::map(), for image_format_from_magic() and for WebP.    *)
(* The descriptor is a UniqueFD.                                           *)

MapStep ==
    [open   |-> [magic |-> "magic open", webp |-> "webp open"],
     stat   |-> [magic |-> "magic stat", webp |-> "webp stat"],
     mmap   |-> [magic |-> "magic mmap", webp |-> "webp mmap"],
     mapped |-> [magic |-> "magic mapped", webp |-> "webp mapped"]]

MapFailed(for) == IF for = "magic" THEN "extension" ELSE "error"

map_open(for) ==
    /\ step = MapStep.open[for]
    /\ \/ CallFails(disk # "absent", MapFailed(for), held)
       \/ CallSucceeds(disk # "absent", MapStep.stat[for], held \cup {"fd"})

map_stat(for) ==
    /\ step = MapStep.stat[for]
    /\ \/ CallFails(TRUE, MapFailed(for), held \ {"fd"})
       \/ CallSucceeds(disk = "empty", MapStep.mapped[for], held \ {"fd"})
       \/ CallSucceeds(disk # "empty", MapStep.mmap[for], held)

map_mmap(for) ==
    /\ step = MapStep.mmap[for]
    /\ \/ CallFails(TRUE, MapFailed(for), held \ {"fd"})
       \/ CallSucceeds(TRUE, MapStep.mapped[for], (held \ {"fd"}) \cup {"mapping"})

-----------------------------------------------------------------------------
ReaderOf(format) ==
    CASE format = "exr"  -> "exr load"
      [] format = "jpeg" -> "jpeg open"
      [] format = "png"  -> "png begin"
      [] format = "tga"  -> "tga"
      [] format = "webp" -> "webp open"
      [] OTHER           -> "error"

\* Of an empty file nothing is mapped.
FromMagic == disk \in WithMagic /\ "mapping" \in held

\* The file is unmapped at the end of image_format_from_magic().
format_from_magic ==
    /\ step = "magic mapped"
    /\ Goto(IF FromMagic THEN ReaderOf(disk) ELSE "extension", held \ {"mapping"})
    /\ UNCHANGED <<fault, row, decoded>>

format_from_extension ==
    /\ step = "extension"
    /\ Goto(ReaderOf(extension), held)
    /\ UNCHANGED <<fault, row, decoded>>

\* The image has been decoded, from what the file contains.
Decoded(next, resources) ==
    /\ decoded' = {disk}
    /\ Goto(next, resources)
    /\ UNCHANGED <<fault, row>>

-----------------------------------------------------------------------------
(* webp.cpp: WebPGetInfo() and WebPDecodeRGBInto() of the mapping, which   *)
(* goes at the end.                                                        *)

webp_decode ==
    /\ step = "webp mapped"
    /\ \/ CallFails(disk = "webp" /\ "mapping" \in held, "error", held \ {"mapping"})
       \/ disk = "webp" /\ "mapping" \in held /\ Decoded("ok", held \ {"mapping"})

(* exr.cpp: what LoadEXR() has allocated is freed at the end, and a        *)
(* message, of which there may be none, at once.                           *)

exr_load ==
    /\ step = "exr load"
    /\ \/ \E message \in {{}, {"exr message"}} :
              CallFails(disk = "exr", "exr failed", held \cup message)
       \/ disk = "exr" /\ Decoded("exr size", held \cup {"exr out"})

exr_failed ==
    /\ step = "exr failed"
    /\ Goto("error", held \ {"exr message"})
    /\ UNCHANGED <<fault, row, decoded>>

\* A size that is not positive is an error.
exr_size ==
    /\ step = "exr size"
    /\ \/ CallFails(TRUE, "error", held \ {"exr out"})
       \/ CallSucceeds(TRUE, "ok", held \ {"exr out"})

(* png.cpp: png_image_free() in any case.                                  *)

png_begin ==
    /\ step = "png begin"
    /\ \/ CallFails(disk = "png", "error", held)
       \/ CallSucceeds(disk = "png", "png finish", held \cup {"png"})

png_finish ==
    /\ step = "png finish"
    /\ \/ CallFails(disk = "png", "error", held \ {"png"})
       \/ disk = "png" /\ Decoded("ok", held \ {"png"})

-----------------------------------------------------------------------------
(* jpeg.cpp: an error in the library is a jump to the start of             *)
(* decode_file_to_image(), which destroys what it has created.             *)

\* Mutant: the jump leaves the decompressor to nobody.
jpeg_jump_only(canSucceed) == CallFails(canSucceed, "jpeg close failed", held)

jpeg_jump(canSucceed) == CallFails(canSucceed, "jpeg close failed", held \ {"jpeg"})

jpeg_open ==
    /\ step = "jpeg open"
    /\ \/ CallFails(disk # "absent", "error", held)
       \/ CallSucceeds(disk # "absent", "jpeg create", held \cup {"FILE"})

jpeg_create ==
    /\ step = "jpeg create"
    /\ \/ jpeg_jump(TRUE)
       \/ CallSucceeds(TRUE, "jpeg header", held \cup {"jpeg"})

\* A color space that requires a conversion is an error.
jpeg_header ==
    /\ step = "jpeg header"
    /\ \/ jpeg_jump(disk = "jpeg")
       \/ CallFails(TRUE, "jpeg close failed", held \ {"jpeg"})
       \/ CallSucceeds(disk = "jpeg", "jpeg start", held)

jpeg_start ==
    /\ step = "jpeg start"
    /\ \/ jpeg_jump(disk = "jpeg")
       \/ CallSucceeds(disk = "jpeg", "jpeg rows", held)

jpeg_row ==
    /\ step = "jpeg rows"
    /\ row < Height
    /\ \/ jpeg_jump(disk = "jpeg")
       \/ /\ disk = "jpeg"
          /\ row' = row + 1
          /\ Goto(step, held)
          /\ UNCHANGED <<fault, decoded>>

jpeg_finish ==
    /\ step = "jpeg rows"
    /\ row = Height
    /\ \/ jpeg_jump(disk = "jpeg")
       \/ disk = "jpeg" /\ Decoded("jpeg close", held \ {"jpeg"})

jpeg_close ==
    /\ step \in {"jpeg close", "jpeg close failed"}
    /\ Goto(IF step = "jpeg close" THEN "ok" ELSE "error", held \ {"FILE"})
    /\ UNCHANGED <<fault, row, decoded>>

\* Tga, which maps the file for as long as it reads.
tga_read ==
    /\ step = "tga"
    /\ \/ CallFails(disk = "tga", "error", held)
       \/ disk = "tga" /\ Decoded("ok", held)

Next ==
    \/ replace
    \/ \E for \in {"magic", "webp"} : map_open(for) \/ map_stat(for) \/ map_mmap(for)
    \/ format_from_magic \/ format_from_extension
    \/ webp_decode \/ exr_load \/ exr_failed \/ exr_size \/ png_begin \/ png_finish
    \/ jpeg_open \/ jpeg_create \/ jpeg_header \/ jpeg_start \/ jpeg_row \/ jpeg_finish
    \/ jpeg_close \/ tga_read
=============================================================================

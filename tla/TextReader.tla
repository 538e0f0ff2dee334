----------------------------- MODULE TextReader -----------------------------
(***************************************************************************)
(* lib/io/text_reader.{h,cpp}: a position in text, and the line and column *)
(* of it for messages.  A character is a string of length one.             *)
(***************************************************************************)
EXTENDS Integers, Sequences, SequencesExt, TLC, Result

Newline    == "\n"
Spaces     == {"\t", "\n", "\r", " "}
DigitChars == {"0", "1", "2", "3", "4", "5", "6", "7", "8", "9"}

\* open_file() of a file that can be mapped, and set_string()
Opened(text) == [buffer |-> text, buffer_position |-> 0, line |-> 1, column |-> 1]

at_eof(r) == r.buffer_position >= Len(r.buffer)

Current(r) == r.buffer[r.buffer_position + 1]

at(r, c)      == ~at_eof(r) /\ Current(r) = c
at_digit(r)   == ~at_eof(r) /\ Current(r) \in DigitChars
at_space(r)   == ~at_eof(r) /\ Current(r) \in Spaces
at_newline(r) == at(r, Newline)

next_line(r) == [r EXCEPT !.line = @ + 1, !.column = 1]

next_columns(r, n) == [r EXCEPT !.column = @ + n]

\* next(), where it is not at the end
Next_(r) ==
    LET moved == [r EXCEPT !.buffer_position = @ + 1]
    IN  IF at_newline(r) THEN next_line(moved) ELSE next_columns(moved, 1)

skip_char(r, c) == IF at(r, c) THEN Next_(r) ELSE r

HasString(r, str) ==
    /\ Len(str) <= Len(r.buffer) - r.buffer_position
    /\ SubSeq(r.buffer, r.buffer_position + 1, r.buffer_position + Len(str)) = str

\* skip_string(), of a string that is there
skip_string(r, str) ==
    next_columns([r EXCEPT !.buffer_position = @ + Len(str)], Len(str))

\* As long as the next character is in chars, it is skipped.
RECURSIVE SkipAll(_, _)
SkipAll(r, chars) ==
    IF ~at_eof(r) /\ Current(r) \in chars THEN SkipAll(Next_(r), chars) ELSE r

skip_space(r) == SkipAll(r, Spaces)

\* view()
TextBetween(from, to) == SubSeq(to.buffer, from.buffer_position + 1, to.buffer_position)
=============================================================================

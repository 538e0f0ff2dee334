------------------------------- MODULE Base85 -------------------------------
(***************************************************************************)
(* lib/string/base85.cpp: groups of five digits become four bytes, a last  *)
(* group of n digits n - 1 bytes.                                          *)
(*                                                                         *)
(* The base is a constant, and so is the number of values of a byte: 85    *)
(* and 256 in the code.  A character is its digit, or NoDigit when it is   *)
(* none of the alphabet.                                                   *)
(***************************************************************************)
EXTENDS Integers, Sequences, SequencesExt, Result

CONSTANTS
    Base,         \* digits of the alphabet
    ByteBase,     \* values of a byte
    Base85Files   \* strings to decode: text, and what is known of them

VARIABLES
    file,    \* history: the string
    reader,  \* pos of the last group, as the reader
    step,    \* "decode", then "ok" or "error"
    data     \* decoded_data

base85Vars == <<file, reader, step, data>>

NoDigit == -1

MaxAccumulator == ByteBase ^ 4 - 1

\* The digits of a group, filled up with the last of the alphabet.
Group(str, pos) == [i \in 1..5 |-> IF pos + i <= Len(str) THEN str[pos + i] ELSE Base - 1]

Accumulated(digits) == FoldLeft(LAMBDA sum, digit : sum * Base + digit, 0, digits)

\* Mutant: the last sum may overflow.
OverflowsBeforeLast(group) ==
    Accumulated(SubSeq(group, 1, 4)) > MaxAccumulator \div Base

Overflows(group) ==
    LET accumulator == Accumulated(SubSeq(group, 1, 4))
    IN  \/ accumulator > MaxAccumulator \div Base
        \/ accumulator * Base > MaxAccumulator - group[5]

\* The first n of the four bytes, of an accumulator that wraps.
FirstBytes(accumulator, n) ==
    [i \in 1..n |-> (accumulator \div ByteBase ^ (4 - i)) % ByteBase]

NumBytes(str, pos) == IF Len(str) - pos < 5 THEN Len(str) - pos - 1 ELSE 4

decode_group(str, decoded, pos) ==
    LET group == Group(str, pos)
    IN  IF NoDigit \in {group[i] : i \in 1..5} \/ Overflows(group) THEN Error(pos)
        ELSE Value(decoded \o FirstBytes(Accumulated(group), NumBytes(str, pos)), pos + 5)

base85_decode(str) ==
    FoldLeft(LAMBDA sofar, group :
                 Then(sofar, LAMBDA decoded, pos : decode_group(str, decoded, pos)),
             Value(<<>>, 0), [group \in 1 .. (Len(str) + 4) \div 5 |-> group])

Init ==
    /\ file \in Base85Files
    /\ reader = 0
    /\ step = "decode"
    /\ data = <<>>

decode ==
    /\ step = "decode"
    /\ LET result == base85_decode(file.text)
       IN  /\ reader' = result.reader
           /\ IF result.is_error THEN step' = "error" /\ UNCHANGED data
                                 ELSE step' = "ok" /\ data' = result.value
    /\ UNCHANGED file

Next == decode
=============================================================================

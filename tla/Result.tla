------------------------------- MODULE Result -------------------------------
(***************************************************************************)
(* lib/function/result.h: a value or an error.  What reads from a reader   *)
(* also changes the reader, so a result carries the reader as it was left. *)
(* The text of an error is left out, but for the position of the reader.   *)
(***************************************************************************)

\* What is in the union of a Result that holds an error, read as a value.
NotAValue == "not a value"

Value(value, reader) == [is_error |-> FALSE, value |-> value, reader |-> reader]

Error(reader) == [is_error |-> TRUE, value |-> NotAValue, reader |-> reader]

\* operator bool, and operator* of one that is true.
IsValue(result) == ~result.is_error
ValueIn(result) == result.value

value_or(result, default_value) == IF IsValue(result) THEN ValueIn(result) ELSE default_value

\* if (!result) return result.error();
Then(result, Use(_, _)) ==
    IF IsValue(result) THEN Use(ValueIn(result), result.reader) ELSE result
=============================================================================

------------------------------ MODULE Strings ------------------------------
(***************************************************************************)
(* lib/string/{split,string,duration_format}.{h,cpp} and what lib/log.cpp  *)
(* and the Error of lib/function/result.h say: one call, of one of these   *)
(* functions.                                                              *)
(*                                                                         *)
(* A string is the sequence of its characters, a std::optional a set of    *)
(* one value or none.  A duration is a number of ticks, nanoseconds in the *)
(* code; numbers that are no integers are exact fractions.                 *)
(***************************************************************************)
EXTENDS Matrices, TLC

CONSTANTS
    StringCalls,     \* calls: op, text, its other arguments, and what they should return
    MaxInt,
    MaxFloat,        \* double may be larger
    MaxPower,        \* bound: powers of 10 beyond it are not told apart
    BufferSize,      \* of the first buffer of string_printf(), 1024 in the code
    TicksPerSecond

VARIABLES
    file,    \* history: the call
    reader,  \* [fail, eof]: the std::istringstream of this thread, as it was left
    step,    \* "call", then "ok"
    data     \* op, and what is returned

stringVars == <<file, reader, step, data>>

Repeated(c, n) == [i \in 1..n |-> c]

-----------------------------------------------------------------------------
(* split.h and split.cpp.                                                  *)

PositionsOf(c, str) == {i \in DOMAIN str : str[i] = c}

Before(str, pos) == SubSeq(str, 1, pos - 1)
After(str, pos)  == SubSeq(str, pos + 1, Len(str))

RECURSIVE string_split_to_array(_, _, _)
string_split_to_array(str, c, n) ==
    IF str = <<>> THEN Repeated(<<>>, n)
    ELSE IF n = 1 \/ PositionsOf(c, str) = {} THEN <<str>> \o Repeated(<<>>, n - 1)
    ELSE LET pos == Min(PositionsOf(c, str))
         IN  <<Before(str, pos)>> \o string_split_to_array(After(str, pos), c, n - 1)

\* while (!remaining.empty())
RECURSIVE Pieces(_, _)
Pieces(remaining, c) ==
    IF remaining = <<>> THEN <<>>
    ELSE LET splits == string_split_to_array(remaining, c, 2)
         IN  <<splits[1]>> \o Pieces(splits[2], c)

string_split(str, c) ==
    Pieces(str, c) \o (IF str # <<>> /\ Last(str) = c THEN <<<<>>>> ELSE <<>>)

-----------------------------------------------------------------------------
(* string.cpp.                                                             *)

\* external: std::vsnprintf(), which says how long the whole text is.
vsnprintf(size, text) == [buffer |-> SubSeq(text, 1, Min({Len(text), size - 1})), size |-> Len(text)]

string_printf(text) ==
    LET first == vsnprintf(BufferSize, text)
    IN  IF first.size <= 0 THEN <<>>
        ELSE IF first.size < BufferSize THEN SubSeq(first.buffer, 1, first.size)
        ELSE vsnprintf(first.size + 1, text).buffer

string_center(width, str) ==
    IF width <= Len(str) THEN str
    ELSE LET padding == width - Len(str)
             padding_left == padding \div 2
         IN  Repeated(" ", padding_left) \o str \o Repeated(" ", padding - padding_left)

string_right_align(width, str) ==
    IF width <= Len(str) THEN str ELSE Repeated(" ", width - Len(str)) \o str

\* external: std::tolower()
tolower == "A" :> "a" @@ "B" :> "b"

string_to_lower(str) ==
    [i \in DOMAIN str |-> IF str[i] \in DOMAIN tolower THEN tolower[str[i]] ELSE str[i]]

-----------------------------------------------------------------------------
(* Numbers.                                                                *)

DigitChars == <<"0", "1", "2", "3", "4", "5", "6", "7", "8", "9">>
Digits     == Range(DigitChars)

DigitOf(c) == CHOOSE d \in 0..9 : DigitChars[d + 1] = c

Natural(digits) == FoldLeft(LAMBDA sum, c : 10 * sum + DigitOf(c), 0, digits)

\* How many characters from pos on are some of these; at most one of these.
Run(str, pos, chars) ==
    LET others == {i \in pos + 1 .. Len(str) : str[i] \notin chars}
    IN  IF others = {} THEN Len(str) - pos ELSE Min(others) - pos - 1

OneOf(str, pos, chars) == IF pos < Len(str) /\ str[pos + 1] \in chars THEN 1 ELSE 0

\* external: std::from_chars() of an integer type.
from_chars(str, lowest, highest) ==
    LET sign  == IF lowest < 0 THEN OneOf(str, 0, {"-"}) ELSE 0
        ptr   == sign + Run(str, sign, Digits)
        n     == Natural(SubSeq(str, sign + 1, ptr))
        value == IF sign = 1 THEN -n ELSE n
    IN  [ok |-> ptr > sign /\ value \in lowest..highest, ptr |-> ptr, value |-> value]

string_to_number(str, lowest, highest) ==
    LET result == from_chars(str, lowest, highest)
    IN  IF ~result.ok \/ result.ptr # Len(str) THEN {} ELSE {result.value}

Power10(n) == IF n < 0 THEN Frac(1, 10 ^ (-n)) ELSE Num(10 ^ n)

\* n times 10 to the power, where what is far too small becomes 0 and what is far too large stays so.
Scaled(n, power) ==
    IF n = 0 \/ power < -MaxPower THEN Zero
    ELSE IF power > MaxPower THEN Num(MaxFloat + 3)
    ELSE Mul(Num(n), Power10(power))

\* external: operator>>, of a stream that is good, to a float or double.  It takes spaces and
\* what may be in a number, also when that is none.
Mantissa(str, pos) ==
    LET whole == pos + Run(str, pos, Digits)
        point == whole + OneOf(str, whole, {"."})
        end   == IF point > whole THEN point + Run(str, point, Digits) ELSE whole
    IN  [end |-> end, decimals |-> end - point,
         digits |-> SubSeq(str, pos + 1, whole) \o SubSeq(str, point + 1, end)]

Exponent(str, pos) ==
    LET sign  == pos + 1 + OneOf(str, pos + 1, {"+", "-"})
        end   == sign + Run(str, sign, Digits)
        power == Natural(SubSeq(str, sign + 1, end))
    IN  IF OneOf(str, pos, {"e"}) = 0 THEN [end |-> pos, ok |-> TRUE, power |-> 0]
        ELSE [end |-> end, ok |-> end > sign,
              power |-> IF str[sign] = "-" THEN -power ELSE power]

\* An exponent comes after digits only.
ExponentAfter(m, str) ==
    IF m.digits = <<>> THEN [end |-> m.end, ok |-> FALSE, power |-> 0] ELSE Exponent(str, m.end)

Extracted(str, highest) ==
    LET begin == Run(str, 0, {" ", "\n"})
        sign  == begin + OneOf(str, begin, {"+", "-"})
        Taken(size, e) ==
            [fail |-> ~e.ok \/ Lt(highest, size), eof |-> e.end = Len(str),
             value |-> IF SubSeq(str, begin + 1, sign) = <<"-">> THEN Neg(size) ELSE size]
        With(m, e) == Taken(Scaled(Natural(m.digits), e.power - m.decimals), e)
        From(m)    == With(m, ExponentAfter(m, str))
    IN  From(Mantissa(str, sign))

\* A stream that is not good extracts nothing.
Extract(stream, str, highest) ==
    IF stream.fail \/ stream.eof THEN [fail |-> TRUE, eof |-> stream.eof, value |-> Zero]
    ELSE Extracted(str, highest)

classic_locale_istringstream_get_with_string(stream) == [fail |-> FALSE, eof |-> FALSE]

StreamAfter(str, highest) ==
    Extract(classic_locale_istringstream_get_with_string(reader), str, highest)

ToReal(stream) == IF stream.fail \/ ~stream.eof THEN {} ELSE {stream.value}

HighestReal == "float" :> Num(MaxFloat) @@ "double" :> Num(MaxFloat + 2)

string_to_float(str)  == ToReal(StreamAfter(str, HighestReal["float"]))
string_to_double(str) == ToReal(StreamAfter(str, HighestReal["double"]))

-----------------------------------------------------------------------------
(* duration_format.cpp.                                                    *)

RECURSIVE Decimal(_)
Decimal(n) == IF n < 10 THEN <<DigitChars[n + 1]>>
              ELSE Append(Decimal(n \div 10), DigitChars[(n % 10) + 1])

Padded(width, str) == Repeated("0", width - Len(str)) \o str

Minute == 60 * TicksPerSecond
Hour   == 60 * Minute

\* n / d as an integer, halfway cases to the even one.
Rounded(n, d) ==
    LET q == n \div d
        r == n % d
    IN  IF 2 * r < d \/ (2 * r = d /\ q % 2 = 0) THEN q ELSE q + 1

\* %0*.*f of a number of ticks: its digits, with the last ones after the point.
Fixed(width, precision, ticks) ==
    LET digits == Padded(precision + 1, Decimal(Rounded(ticks * 10 ^ precision, TicksPerSecond)))
        whole  == SubSeq(digits, 1, Len(digits) - precision)
    IN  Padded(width, IF precision = 0 THEN whole
                      ELSE whole \o <<".">> \o SubSeq(digits, Len(whole) + 1, Len(digits)))

duration_format(ns, options) ==
    LET hh == ns \div Hour
        mm == (ns % Hour) \div Minute
        ss == ns % Minute
        precision == options.seconds_precision
        seconds_width == 1 + (IF ns >= 10 * TicksPerSecond THEN 1 ELSE 0)
                           + (IF precision > 0 THEN 1 ELSE 0) + precision
    IN  (IF ns >= Hour THEN Decimal(hh) \o <<":">> ELSE <<>>)
        \o (IF ns >= Minute THEN Padded(2, Decimal(mm)) \o <<":">> ELSE <<>>)
        \o Fixed(seconds_width, precision,
                 IF options.floor_seconds THEN ss - (ss % TicksPerSecond) ELSE ss)

-----------------------------------------------------------------------------
(* log.cpp: a color is one character.                                      *)

level_to_color_start ==
    "INFO" :> <<"green">> @@ "WARNING" :> <<"yellow">> @@ "ERROR" :> <<"red">>

level_to_prefix ==
    "INFO" :> <<"I", "N", "F", "O">> @@ "WARNING" :> <<"W", "A", "R", "N", "I", "N", "G">>
    @@ "ERROR" :> <<"E", "R", "R", "O", "R">>

prepend_prefix(level, message, colorize) ==
    LET prefix == level_to_prefix[level]
        lines  == Pieces(message, "\n")
        Start(i) == IF i = 1 THEN <<>> ELSE <<"\n">> \o Repeated(" ", Len(prefix) + 2)
    IN  (IF colorize THEN level_to_color_start[level] ELSE <<>>) \o prefix
        \o (IF colorize THEN <<"reset">> ELSE <<>>) \o <<":", " ">>
        \o FlattenSeq([i \in DOMAIN lines |-> Start(i) \o lines[i]])

-----------------------------------------------------------------------------
(* The message of an Error, of result.h.                                   *)

error_message(prefix, message) ==
    IF prefix = <<>> THEN message ELSE prefix \o <<":", " ">> \o message

-----------------------------------------------------------------------------
Returned(call) ==
    CASE call.op = "split"       -> string_split(call.text, ",")
      [] call.op = "array"       -> string_split_to_array(call.text, ",", call.n)
      [] call.op = "printf"      -> string_printf(call.text)
      [] call.op = "center"      -> string_center(call.n, call.text)
      [] call.op = "right align" -> string_right_align(call.n, call.text)
      [] call.op = "lower"       -> string_to_lower(call.text)
      [] call.op = "int"         -> string_to_number(call.text, -MaxInt - 1, MaxInt)
      [] call.op = "unsigned"    -> string_to_number(call.text, 0, 2 * MaxInt + 1)
      [] call.op = "float"       -> string_to_float(call.text)
      [] call.op = "double"      -> string_to_double(call.text)
      [] call.op = "duration"    -> duration_format(call.n, call.options)
      [] call.op = "error"       -> error_message(call.text, call.message)
      [] call.op = "log"         -> prepend_prefix(call.level, call.text, call.colorize)

Init ==
    /\ file \in StringCalls
    /\ reader \in [fail : BOOLEAN, eof : BOOLEAN]
    /\ step = "call"
    /\ data = <<>>

convert ==
    /\ step = "call"
    /\ data' = <<file.op, Returned(file)>>
    /\ reader' = IF file.op \in DOMAIN HighestReal
                 THEN [flag \in {"fail", "eof"} |-> StreamAfter(file.text, HighestReal[file.op])[flag]]
                 ELSE reader
    /\ step' = "ok"
    /\ UNCHANGED file

Next == convert
=============================================================================

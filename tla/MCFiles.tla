------------------------------ MODULE MCFiles ------------------------------
(***************************************************************************)
(* Files, of the files that the modules below describe and of the calls of *)
(* the functions for strings, with what each one should return.            *)
(***************************************************************************)
EXTENDS Files, Matrices, TLC

LOCAL BinaryFiles   == INSTANCE MCBinaryFiles
LOCAL DocumentsHere == INSTANCE MCDocuments

MCPlyFiles    == BinaryFiles!MCPlyFiles
MCTgaFiles    == BinaryFiles!MCTgaFiles
MCBase85Files == BinaryFiles!MCBase85Files
MCMeshFiles   == BinaryFiles!MCMeshFiles
MCDocuments   == DocumentsHere!MCDocuments
MCSceneValues == DocumentsHere!MCSceneValues

-----------------------------------------------------------------------------
(* Calls of the functions for strings.                                     *)

Texts(alphabet, n) == UNION {[1..k -> alphabet] : k \in 0..n}

Of(op, text, expected) == [op |-> op, text |-> text, data |-> <<op, expected>>]

WithN(op, n, text, expected) == [op |-> op, n |-> n, text |-> text, data |-> <<op, expected>>]

-----------------------------------------------------------------------------
(* Texts are cut at all commas, or at the first ones; are put between      *)
(* spaces; and stay what they are.                                         *)

\* From the i-th piece to the j-th, of as many as there are commas, and one.
Between(text, i, j) ==
    LET commas == <<0>> \o SetToSortSeq({k \in DOMAIN text : text[k] = ","}, <) \o <<Len(text) + 1>>
    IN  SubSeq(text, commas[i] + 1, commas[j + 1] - 1)

NumPieces(text) ==
    IF text = <<>> THEN 0 ELSE 1 + Cardinality({k \in DOMAIN text : text[k] = ","})

AllPieces(text) == [i \in 1..NumPieces(text) |-> Between(text, i, i)]

FirstPieces(text, n) ==
    [i \in 1..n |-> IF i > NumPieces(text) THEN <<>>
                    ELSE Between(text, i, IF i = n THEN NumPieces(text) ELSE i)]

Spaces(n) == [i \in 1..n |-> " "]

Splitting ==
    {Of("split", t, AllPieces(t)) : t \in Texts({"a", ","}, 4)}
    \cup {WithN("array", n, t, FirstPieces(t, n)) : n \in 1..3, t \in Texts({"a", ","}, 4)}

Aligning ==
    {WithN("right align", n, t, Spaces(Max({0, n - Len(t)})) \o t) : n \in 0..5, t \in Texts({"a"}, 3)}
    \cup {WithN("center", Len(t) + l + r, t, Spaces(l) \o t \o Spaces(r)) :
             t \in Texts({"a"}, 3), l \in 0..0, r \in 0..1}
    \cup {WithN("center", Len(t) + 2 * l + odd, t, Spaces(l) \o t \o Spaces(l + odd)) :
             t \in Texts({"a"}, 3), l \in 1..2, odd \in 0..1}
    \cup {WithN("center", n, <<"a", "a">>, <<"a", "a">>) : n \in 0..2}

Same ==
    {Of("printf", t, t) : t \in Texts({"a", "b"}, 5)}
    \cup {Of("lower", <<"A", "1", c>>, <<"a", "1", "b">>) : c \in {"B", "b"}}

-----------------------------------------------------------------------------
(* Numbers: their texts are put together from their parts.                 *)

Digit(d) == <<"0", "1", "2", "3", "4", "5", "6", "7", "8", "9">>[d + 1]

Zeros(n) == [i \in 1..n |-> "0"]

\* With what is a number in a text, and the number.
Wholes(sign) == {<<sign \o Zeros(z) \o <<Digit(d)>>, d>> : z \in 0..2, d \in 0..9}

Integers ==
    {<<w[1], w[2]>> : w \in Wholes(<<>>)} \cup {<<w[1], -w[2]>> : w \in Wholes(<<"-">>)}

NoIntegers ==
    {<<>>, <<"-">>, <<"+", "1">>, <<" ", "1">>, <<"1", " ">>, <<"1", "-">>, <<"-", "-", "1">>, <<"1", ".">>}

InRange(n, lowest, highest) == {n} \cap (lowest..highest)

ToIntegers ==
    {Of("int", i[1], InRange(i[2], -MaxInt - 1, MaxInt)) : i \in Integers}
    \cup {Of("unsigned", i[1], InRange(i[2], 0, 2 * MaxInt + 1)) : i \in Wholes(<<>>)}
    \cup {Of("unsigned", i[1], {}) : i \in Wholes(<<"-">>)}
    \cup {Of(op, t, {}) : op \in {"int", "unsigned"}, t \in NoIntegers}

\* Mantissas without a sign, powers of 10 and what is before.
Mantissas == {<<<<"2">>, Num(2)>>, <<<<"0", "0", "1", ".">>, Num(1)>>, <<<<".", "5">>, Frac(1, 2)>>,
              <<<<"1", ".", "2", "5">>, Frac(5, 4)>>, <<<<"1", "0">>, Num(10)>>}
Powers    == {<<<<>>, One>>, <<<<"e", "0", "1">>, Num(10)>>, <<<<"e", "+", "0">>, One>>,
              <<<<"e", "-", "1">>, Frac(1, 10)>>}
Befores   == {<<<<>>, One>>, <<<<" ", "\n">>, One>>, <<<<"-">>, Num(-1)>>, <<<<" ", "+">>, One>>}

Reals == {<<b[1] \o m[1] \o p[1], Mul(b[2], Mul(m[2], p[2]))>> :
             b \in Befores, m \in Mantissas, p \in Powers}

NoReals ==
    {<<>>, <<" ">>, <<"-">>, <<".">>, <<"e", "1">>, <<"1", "e">>, <<"1", "e", "-">>, <<"1", " ">>,
     <<"1", ".", "2", ".">>, <<"-", " ", "1">>, <<"+", "-", "1">>, <<"1", "e", "1", ".">>, <<"1", "a">>}

UpTo(x, max) == {y \in {x} : Le(Abs(y), max)}

ToReals ==
    {Of("float", r[1], UpTo(r[2], Num(MaxFloat))) : r \in Reals}
    \cup {Of("double", r[1], UpTo(r[2], Num(MaxFloat + 2))) : r \in Reals}
    \cup {Of(op, t, {}) : op \in {"float", "double"}, t \in NoReals}

-----------------------------------------------------------------------------
(* Durations, of hours, minutes, seconds and ticks: as a whole number of   *)
(* the last digit that is written, halfway cases to the even one, they are *)
(* divided into hours, minutes and seconds.                                *)

TwoDigits(n) == <<Digit(n \div 10), Digit(n % 10)>>
AsFirst(n)   == IF n < 10 THEN <<Digit(n)>> ELSE TwoDigits(n)

NearestEven(n, d) ==
    CHOOSE q \in {n \div d, n \div d + 1} :
        \/ Magnitude(2 * (q * d - n)) < d
        \/ Magnitude(2 * (q * d - n)) = d /\ q % 2 = 0

\* The digits after the point.
Part(n, precision) ==
    CASE precision = 0 -> <<>>
      [] precision = 1 -> <<".", Digit(n)>>
      [] precision = 2 -> <<".">> \o TwoDigits(n)

DurationText(ticks, precision) ==
    LET second == 10 ^ precision
        n == NearestEven(second * ticks, TicksPerSecond)
        h == n \div (3600 * second)
        m == (n \div (60 * second)) % 60
        s == (n \div second) % 60
    IN  (IF h > 0 THEN AsFirst(h) \o <<":">> ELSE <<>>)
        \o (IF h > 0 \/ m > 0 THEN TwoDigits(m) \o <<":", Digit(s \div 10), Digit(s % 10)>>
            ELSE AsFirst(s))
        \o Part(n % second, precision)

\* Less than a minute before rounding, a full one after.
BecomesMinute(s, tick, precision) ==
    NearestEven(10 ^ precision * (TicksPerSecond * s + tick), TicksPerSecond) = 60 * 10 ^ precision

Durations ==
    {LET ticks == TicksPerSecond * (s + 60 * (m + 60 * h)) + tick
     IN  [op |-> "duration", n |-> ticks,
          options |-> [seconds_precision |-> precision, floor_seconds |-> floor],
          rounds_to_minute |-> BecomesMinute(s, IF floor THEN 0 ELSE tick, precision),
          data |-> <<"duration", DurationText(IF floor THEN ticks - tick ELSE ticks, precision)>>] :
        h \in {0, 1, 12}, m \in {0, 1, 59}, s \in {0, 1, 9, 10, 58, 59}, tick \in 0 .. TicksPerSecond - 1,
        precision \in 0..2, floor \in BOOLEAN}

-----------------------------------------------------------------------------
(* Messages, with one line below the other.                                *)

Message(level, text, colorize, expected) ==
    [op |-> "log", level |-> level, text |-> text, colorize |-> colorize,
     data |-> <<"log", expected>>]

Info == <<"I", "N", "F", "O">>

Messages ==
    {Message("INFO", <<>>, FALSE, Info \o <<":", " ">>),
     Message("INFO", <<"a">>, TRUE, <<"green">> \o Info \o <<"reset", ":", " ", "a">>),
     Message("INFO", <<"a", "\n">>, FALSE, Info \o <<":", " ", "a">>),
     Message("INFO", <<"\n", "a", "\n", "\n", "b">>, FALSE,
             Info \o <<":", " ", "\n">> \o Spaces(6) \o <<"a", "\n">> \o Spaces(6)
             \o <<"\n">> \o Spaces(6) \o <<"b">>),
     Message("WARNING", <<"a">>, TRUE,
             <<"yellow", "W", "A", "R", "N", "I", "N", "G", "reset", ":", " ", "a">>),
     Message("ERROR", <<"a", "\n", "b">>, TRUE,
             <<"red", "E", "R", "R", "O", "R", "reset", ":", " ", "a", "\n">> \o Spaces(7) \o <<"b">>)}

Errors ==
    {[op |-> "error", text |-> p, message |-> m,
      data |-> <<"error", IF Len(p) = 0 THEN m ELSE Append(Append(p, ":"), " ") \o m>>] :
        p \in Texts({"a"}, 1), m \in Texts({"b"}, 1)}

MCStringCalls ==
    UNION {Splitting, Aligning, Same, ToIntegers, ToReals, Durations, Errors, Messages}
=============================================================================

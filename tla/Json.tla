-------------------------------- MODULE Json --------------------------------
(***************************************************************************)
(* lib/file_formats/json.cpp: a document of JSON becomes a Variant.        *)
(*                                                                         *)
(* A Variant is <<type, value>>.  The value of a string is its characters, *)
(* of a double an exact fraction, of a vector a sequence of Variants, of a *)
(* map a function from strings to Variants.                                *)
(***************************************************************************)
EXTENDS TextReader, FiniteSets

CONSTANTS
    Documents,  \* texts, and what is known of them
    MaxFloat,   \* see Strings
    MaxPower

VARIABLES
    file,    \* history: the document
    reader,
    step,    \* "document", then "ok" or "error"
    variant  \* the Variant that is read

jsonVars == <<file, reader, step, variant>>

None == <<"none">>

\* string.cpp, for string_to_number<double>()
String == INSTANCE Strings WITH StringCalls <- {}, MaxInt <- 0, BufferSize <- 1,
                                TicksPerSecond <- 1, data <- variant

-----------------------------------------------------------------------------
(* Strings and numbers.                                                    *)

EscapedChar ==
    "b" :> "backspace" @@ "t" :> "\t" @@ "n" :> "\n" @@ "f" :> "\f" @@ "r" :> "\r"
    @@ "\"" :> "\"" @@ "/" :> "/" @@ "\\" :> "\\"

\* The rest of a string, after the first characters of it.
RECURSIVE read_chars(_, _)
read_chars(r, chars) ==
    IF at(r, "\"") THEN Value(<<"string", chars>>, Next_(r))
    ELSE IF at_eof(r) \/ at_newline(r) THEN Error(r)
    ELSE IF ~at(r, "\\") THEN read_chars(Next_(r), Append(chars, Current(r)))
    ELSE LET escape == Next_(r)
         IN  IF at_eof(escape) \/ Current(escape) \notin DOMAIN EscapedChar
             THEN Error(skip_char(escape, "u"))
             ELSE read_chars(Next_(escape), Append(chars, EscapedChar[Current(escape)]))

read_string(r) == IF at(r, "\"") THEN read_chars(Next_(r), <<>>) ELSE Error(r)

digits(r) == IF at_digit(r) THEN Value(<<>>, SkipAll(r, DigitChars)) ELSE Error(r)

integer(r) ==
    IF ~at(r, "0") THEN digits(r)
    ELSE IF at_digit(Next_(r)) THEN Error(Next_(r)) ELSE Value(<<>>, Next_(r))

fraction(r) == IF at(r, ".") THEN digits(Next_(r)) ELSE Value(<<>>, r)

exponent(r) ==
    IF ~at(r, "e") THEN Value(<<>>, r)
    ELSE LET sign == Next_(r)
         IN  digits(IF at(sign, "-") \/ at(sign, "+") THEN Next_(sign) ELSE sign)

\* Of a number that is in range, a set of the one value.
DoubleOrError(values, r) ==
    IF values = {} THEN Error(r) ELSE Value(<<"double", CHOOSE x \in values : TRUE>>, r)

converted(number, r) == DoubleOrError(String!string_to_double(number), r)

read_number(r) ==
    Then(integer(skip_char(r, "-")), LAMBDA i, r1 :
    Then(fraction(r1), LAMBDA f, r2 :
    Then(exponent(r2), LAMBDA e, r3 : converted(TextBetween(r, r3), r3))))

-----------------------------------------------------------------------------
(* Values.                                                                 *)

\* After a value in an array or an object: a comma, which another value
\* follows, or the end.
\* Mutant: the end may follow a comma.
separator_or_end(r, end) ==
    IF at(r, ",") THEN Value(<<>>, skip_space(Next_(r)))
    ELSE IF at(r, end) THEN Value(<<>>, r) ELSE Error(r)

separator(r, end) ==
    LET after == skip_space(Next_(r))
    IN  IF at(r, ",") THEN IF at(after, end) THEN Error(after) ELSE Value(<<>>, after)
        ELSE IF at(r, end) THEN Value(<<>>, r) ELSE Error(r)

RECURSIVE read_value(_), read_elements(_, _), read_members(_, _)

read_elements(r, vector) ==
    IF at(r, "]") THEN Value(<<"vector", vector>>, Next_(r))
    ELSE Then(read_value(r), LAMBDA value, r1 :
         Then(separator(skip_space(r1), "]"), LAMBDA none, r2 :
             read_elements(r2, Append(vector, value))))

read_array(r) == read_elements(skip_space(Next_(r)), <<>>)

read_members(r, map) ==
    IF at(r, "}") THEN Value(<<"map", map>>, Next_(r))
    ELSE Then(read_string(r), LAMBDA key, r1 :
         LET colon == skip_space(r1)
         IN  IF key[2] \in DOMAIN map THEN Error(r1)
             ELSE IF ~at(colon, ":") THEN Error(colon)
             ELSE Then(read_value(Next_(colon)), LAMBDA value, r2 :
                  Then(separator(skip_space(r2), "}"), LAMBDA none, r3 :
                      read_members(r3, (key[2] :> value) @@ map))))

read_object(r) == read_members(skip_space(Next_(r)), <<>>)

Literals ==
    {[text |-> <<"t", "r", "u", "e">>, value |-> <<"bool", TRUE>>],
     [text |-> <<"f", "a", "l", "s", "e">>, value |-> <<"bool", FALSE>>],
     [text |-> <<"n", "u", "l", "l">>, value |-> None]}

read_literal(r) ==
    LET found == {l \in Literals : HasString(r, l.text)}
    IN  IF found = {} THEN Error(r)
        ELSE LET l == CHOOSE l \in found : TRUE IN Value(l.value, skip_string(r, l.text))

read_value(r0) ==
    LET r == skip_space(r0)
    IN  CASE at(r, "{")                   -> read_object(r)
          [] at(r, "[")                   -> read_array(r)
          [] at(r, "\"")                  -> read_string(r)
          [] at_digit(r) \/ at(r, "-")    -> read_number(r)
          [] OTHER                        -> read_literal(r)

Document(r) ==
    Then(read_value(r), LAMBDA value, r1 :
        IF at_eof(skip_space(r1)) THEN Value(value, skip_space(r1)) ELSE Error(skip_space(r1)))

-----------------------------------------------------------------------------
Init ==
    /\ file \in Documents
    /\ reader = Opened(file.text)
    /\ step = "document"
    /\ variant = None

read_document ==
    /\ step = "document"
    /\ LET result == Document(reader)
       IN  /\ reader' = result.reader
           /\ IF result.is_error THEN step' = "error" /\ UNCHANGED variant
                                 ELSE step' = "ok" /\ variant' = result.value
    /\ UNCHANGED file

Next == read_document
=============================================================================

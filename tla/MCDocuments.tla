---------------------------- MODULE MCDocuments ----------------------------
(***************************************************************************)
(* Documents with what each one stands for: JSON texts, and the Variants   *)
(* that scenes are read from.                                              *)
(***************************************************************************)
EXTENDS Matrices, TLC

CONSTANTS MaxInt, MaxFloat, MaxPower

-----------------------------------------------------------------------------
(***************************************************************************)
(* Texts over small alphabets, and what the grammar of JSON says each one  *)
(* stands for: it is split in all possible ways into what the grammar has  *)
(* a text consist of.  Where `all' is TRUE, this is all of JSON, and also  *)
(* strings with control characters that are no newline.  Where it is FALSE *)
(* it is only what is plain: without an `E' in a number, \u in a string,   *)
(* numbers that no double can hold, and keys that are there twice.         *)
(***************************************************************************)

\* From one place to another.
Part(text, i, j) == SubSeq(text, i, j)

Spaces == {" ", "\t", "\n", "\r"}

-----------------------------------------------------------------------------
(* Numbers, strings and literals.                                          *)

Digits == {"0", "1"}

AreDigits(text) == text # <<>> /\ \A i \in DOMAIN text : text[i] \in Digits

IsInteger(text) ==
    LET digits == IF text # <<>> /\ text[1] = "-" THEN Tail(text) ELSE text
    IN  AreDigits(digits) /\ (Len(digits) > 1 => digits[1] # "0")

IsFraction(text) == text = <<>> \/ (text[1] = "." /\ AreDigits(Tail(text)))

IsExponent(text, all) ==
    \/ text = <<>>
    \/ /\ text[1] = "e" \/ (all /\ text[1] = "E")
       /\ \/ AreDigits(Tail(text))
          \/ Len(text) > 2 /\ text[2] \in {"+", "-"} /\ AreDigits(Part(text, 3, Len(text)))

\* What its digits are as an integer, and with its sign.
DigitsOf(text) ==
    LET places(i) == Cardinality({k \in i + 1 .. Len(text) : text[k] \in Digits})
    IN  MapThenSumSet(LAMBDA i : 10 ^ places(i), {i \in DOMAIN text : text[i] = "1"})

IntegerOf(text) ==
    IF \E i \in DOMAIN text : text[i] = "-" THEN -DigitsOf(text) ELSE DigitsOf(text)

\* Of a power that is not within MaxPower: nothing is left of the number, or it is too large.
InTens(n, power) ==
    IF n = 0 \/ power < -MaxPower THEN Zero
    ELSE IF power > MaxPower THEN Num(MaxFloat + 3)
    ELSE IF power < 0 THEN Frac(n, 10 ^ (-power)) ELSE Num(n * 10 ^ power)

\* Where the integer and the fraction of a number end.
Ends(text, all) ==
    {p \in (0 .. Len(text)) \X (0 .. Len(text)) :
        /\ p[1] <= p[2]
        /\ IsInteger(Part(text, 1, p[1]))
        /\ IsFraction(Part(text, p[1] + 1, p[2]))
        /\ IsExponent(Part(text, p[2] + 1, Len(text)), all)}

NumbersOf(text, all) ==
    {x \in {LET decimals == IF p[1] = p[2] THEN 0 ELSE p[2] - p[1] - 1
            IN  InTens(IntegerOf(Part(text, 1, p[2])),
                       IntegerOf(Part(text, p[2] + 1, Len(text))) - decimals) :
               p \in Ends(text, all)} :
        all \/ Le(Abs(x), Num(MaxFloat + 2))}

Escaped == "n" :> "\n" @@ "t" :> "\t" @@ "r" :> "\r" @@ "f" :> "\f" @@ "b" :> "backspace"
           @@ "\"" :> "\"" @@ "\\" :> "\\" @@ "/" :> "/"

HexDigits == {"0", "1", "6", "a"}

\* The character with this code.
Coded(hex) == IF hex = <<"0", "0", "6", "1">> THEN "a" ELSE "some other character"

\* What JSON does not have in a string.
Excluded(all) == {"\"", "\\", "\n"} \cup (IF all THEN {} ELSE {"\t", "\r", "\f", "backspace"})

\* Characters that the text between two quotes stands for.
CharsOf(inner, all) ==
    LET EscapeAt(n, c) == n > 0 /\ inner[n] = "\\" /\ inner[n + 1] = c
        of[n \in 0 .. Len(inner)] ==
            IF n = 0 THEN {<<>>}
            ELSE (IF inner[n] \in Excluded(all) THEN {}
                  ELSE {Append(chars, inner[n]) : chars \in of[n - 1]})
                 \cup (IF inner[n] \in DOMAIN Escaped /\ EscapeAt(n - 1, inner[n])
                       THEN {Append(chars, Escaped[inner[n]]) : chars \in of[n - 2]} ELSE {})
                 \cup (IF all /\ EscapeAt(n - 5, "u") /\ Range(Part(inner, n - 3, n)) \subseteq HexDigits
                       THEN {Append(chars, Coded(Part(inner, n - 3, n))) : chars \in of[n - 6]} ELSE {})
    IN  of[Len(inner)]

Enclosed(text, first, last) == Len(text) >= 2 /\ text[1] = first /\ text[Len(text)] = last

Inner(text) == Part(text, 2, Len(text) - 1)

StringsOf(text, all) == IF Enclosed(text, "\"", "\"") THEN CharsOf(Inner(text), all) ELSE {}

Literals ==
    <<"t", "r", "u", "e">> :> <<"bool", TRUE>> @@ <<"f", "a", "l", "s", "e">> :> <<"bool", FALSE>>
    @@ <<"n", "u", "l", "l">> :> <<"none">>

-----------------------------------------------------------------------------
(* Values: a set of one or none.                                           *)

Trimmed(text) ==
    LET inside == {i \in DOMAIN text : text[i] \notin Spaces}
    IN  IF inside = {} THEN <<>>
        ELSE Part(text, CHOOSE i \in inside : \A j \in inside : i <= j,
                        CHOOSE i \in inside : \A j \in inside : i >= j)

\* The ways to split a text at some of its commas.
Splits(text) ==
    {LET at == SetToSortSeq(commas, <)
         end(k) == IF k > Len(at) THEN Len(text) + 1 ELSE at[k]
         start(k) == IF k = 1 THEN 1 ELSE at[k - 1] + 1
     IN  [k \in 1 .. Len(at) + 1 |-> Part(text, start(k), end(k) - 1)] :
         commas \in SUBSET {i \in DOMAIN text : text[i] = ","}}

RECURSIVE ValuesOf(_, _)

\* Keys and values that a text is a member of an object for.
MembersOf(text, all) ==
    UNION {StringsOf(Trimmed(Part(text, 1, i - 1)), all) \X ValuesOf(Part(text, i + 1, Len(text)), all) :
              i \in {i \in DOMAIN text : text[i] = ":"}}

TheOnly(set) == CHOOSE x \in set : TRUE

VectorsOf(inner, all) ==
    IF Trimmed(inner) = <<>> THEN {<<>>}
    ELSE {[k \in DOMAIN pieces |-> TheOnly(ValuesOf(pieces[k], all))] :
             pieces \in {p \in Splits(inner) : \A k \in DOMAIN p : ValuesOf(p[k], all) # {}}}

\* Of a key that is there twice, the last value.
MapsOf(inner, all) ==
    IF Trimmed(inner) = <<>> THEN {<<>>}
    ELSE LET splits == {p \in Splits(inner) : \A k \in DOMAIN p : MembersOf(p[k], all) # {}}
             member(piece) == TheOnly(MembersOf(piece, all))
             key(p, k) == member(p[k])[1]
             keys(p) == {key(p, k) : k \in DOMAIN p}
         IN  {[c \in keys(p) |-> member(p[Max({k \in DOMAIN p : key(p, k) = c})])[2]] :
                 p \in {q \in splits : all \/ Cardinality(keys(q)) = Len(q)}}

ValuesOf(text, all) ==
    LET t == Trimmed(text)
    IN  {<<"double", x>> : x \in NumbersOf(t, all)}
        \cup {<<"string", chars>> : chars \in StringsOf(t, all)}
        \cup {Literals[l] : l \in {t} \cap DOMAIN Literals}
        \cup {<<"vector", v>> : v \in IF Enclosed(t, "[", "]") THEN VectorsOf(Inner(t), all) ELSE {}}
        \cup {<<"map", m>> : m \in IF Enclosed(t, "{", "}") THEN MapsOf(Inner(t), all) ELSE {}}

-----------------------------------------------------------------------------
(* The texts.                                                              *)

TextsFrom(first, alphabet, n) ==
    UNION {{<<c>> \o t : c \in first, t \in [1..k -> alphabet]} : k \in 0 .. n - 1}

NumberAlphabet == Digits \cup {"-", "+", ".", "e", "E"}
StringAlphabet == {"\"", "\\", "n", "a", "u", "\n", "\t"}
ArrayAlphabet  == {"[", "]", ",", "0", " ", "\n"}
ObjectAlphabet == {"{", "}", "\"", ":", ",", "0", "a", " "}

\* What is one character less, more or other.
Edits(text, alphabet) ==
    UNION {{Part(text, 1, i - 1) \o Part(text, i + 1, Len(text))}
           \cup {[text EXCEPT ![i] = c] : c \in alphabet}
           \cup {Part(text, 1, i) \o <<c>> \o Part(text, i + 1, Len(text)) : c \in alphabet} :
              i \in DOMAIN text}

\* -1.0e-1
JsonNumber == <<"-", "1", ".", "0", "e", "-", "1">>

\* "\u0061"
CodedString == <<"\"", "\\", "u", "0", "0", "6", "1", "\"">>

\* [[ ],0], in two lines
Array == <<"[", "[", " ", "]", ",", "\n", "0", "]">>

\* {"":0}, {"":0,"a":{}} and {"a":0,"a":0}
Objects ==
    {<<"{", "\"", "\"", ":", "0", "}">>,
     <<"{", "\"", "\"", ":", "0", ",", "\"", "a", "\"", ":", "{", "}", "}">>,
     <<"{", "\"", "a", "\"", ":", "0", ",", "\"", "a", "\"", ":", "0", "}">>}

Texts ==
    TextsFrom(Digits \cup {"-", "."}, NumberAlphabet, 4)
    \cup TextsFrom({"\""}, StringAlphabet, 4)
    \cup TextsFrom({"["}, ArrayAlphabet, 4)
    \cup {JsonNumber, CodedString, Array} \cup Objects \cup DOMAIN Literals
    \cup Edits(JsonNumber, NumberAlphabet) \cup Edits(Array, ArrayAlphabet)
    \cup Edits(CodedString, HexDigits \cup StringAlphabet)
    \cup UNION {Edits(o, ObjectAlphabet) : o \in Objects}
    \cup UNION {Edits(l, {"e", " ", "\n"}) : l \in DOMAIN Literals}

MCDocuments == {[text |-> text, variant |-> ValuesOf(text, TRUE),
                 is_plain |-> ValuesOf(text, FALSE) # {}] : text \in Texts}

-----------------------------------------------------------------------------
(***************************************************************************)
(* Variants of scenes with what they mean: transforms as what is done to   *)
(* points, numbers as what they round to, and Variants in which one value  *)
(* is at fault.                                                            *)
(***************************************************************************)

V(x, y, z) == <<Num(x), Num(y), Num(z)>>

(***************************************************************************)
(* Transforms: translate, scale, turn by quarters about an axis, or about  *)
(* any axis by a half, rotate by a quaternion, look_at from somewhere in a *)
(* direction (with what is up, and the axis y of the view), and all in a   *)
(* sequence, the last one first.                                           *)
(***************************************************************************)
Half == Frac(1, 2)

Single ==
    {<<"identity">>, <<"translate", V(1, -2, 3)>>, <<"scale", V(2, -3, 4)>>,
     <<"scale", V(2, 2, 2)>>, <<"turn", 1, 1>>, <<"turn", 2, 1>>, <<"turn", 3, 1>>,
     <<"turn", 3, 2>>, <<"around", V(0, 0, 2), 3>>, <<"half turn", V(3, 0, -4)>>,
     <<"quaternion", <<Half, Half, Neg(Half), Half>>>>,
     <<"quaternion", <<Frac(3, 5), Zero, Zero, Frac(4, 5)>>>>,
     <<"look at", V(1, 2, 3), V(0, 0, -1), V(0, 3, 4), V(0, 1, 0)>>,
     <<"look at", V(0, -1, 0), <<Frac(3, 5), Zero, Frac(4, 5)>>, V(0, 2, 0), V(0, 1, 0)>>}

Quaternions ==
    {<<One, Zero, Zero, Zero>>, <<Zero, One, Zero, Zero>>, <<Zero, Zero, One, Zero>>,
     <<Half, Neg(Half), Half, Half>>, <<Half, Half, Half, Neg(Half)>>,
     <<Zero, Frac(3, 5), Zero, Frac(4, 5)>>, <<Zero, Zero, Frac(4, 5), Frac(3, 5)>>}

\* Not of length one, and a scale that flattens: these are read, but have no inverse.
LongQuaternion == <<"quaternion", <<Num(1), Num(2), Num(3), Num(4)>>>>
Flat           == <<"scale", V(1, 0, 2)>>

InSequence ==
    {<<"all", <<a, b>>>> : a, b \in Single}
    \cup {<<"all", <<<<"translate", V(1, 0, 0)>>, <<"all", <<<<"turn", 3, 1>>, s>>>>,
                     <<"scale", V(1, 2, 1)>>>>>> : s \in Single}

Number(x)  == IF x[2] = 1 THEN <<"int", x[1]>> ELSE <<"double", x>>
Numbers(v) == <<"vector", [i \in DOMAIN v |-> Number(v[i])]>>
MapOf(key, v) == <<"map", key :> v>>

RECURSIVE VariantOf(_), Meaning(_, _)

VariantOf(t) ==
    CASE t[1] = "identity"   -> <<"string", "identity">>
      [] t[1] = "translate"  -> MapOf("translate", Numbers(t[2]))
      [] t[1] = "scale"      -> MapOf("scale", IF t[2] = V(2, 2, 2) THEN Number(Num(2))
                                               ELSE Numbers(t[2]))
      [] t[1] = "turn"       -> MapOf(<<"rotate_x", "rotate_y", "rotate_z">>[t[2]],
                                      Number(Num(90 * t[3])))
      [] t[1] = "around"     -> MapOf("rotate", <<"map", "angle" :> Number(Num(90 * t[3]))
                                                         @@ "axis" :> Numbers(t[2])>>)
      [] t[1] = "half turn"  -> MapOf("rotate", <<"map", "angle" :> Number(Num(180))
                                                         @@ "axis" :> Numbers(t[2])>>)
      [] t[1] = "quaternion" -> MapOf("rotate", Numbers(t[2]))
      [] t[1] = "look at"    -> MapOf("look_at", <<"map", "translation" :> Numbers(t[2])
                                    @@ "center" :> Numbers(Plus(t[2], Times(t[3], Num(5))))
                                    @@ "up" :> Numbers(t[4])>>)
      [] t[1] = "all"        -> <<"vector", [i \in DOMAIN t[2] |-> VariantOf(t[2][i])]>>

\* From the second axis after this one to the third.
QuarterTurn(axis, p) ==
    LET j == (axis % 3) + 1
        k == (j % 3) + 1
    IN  [p EXCEPT ![j] = Neg(p[k]), ![k] = p[j]]

Quarters(axis, n, p) == FoldLeft(LAMBDA q, i : QuarterTurn(axis, q), p, [i \in 1..n |-> i])

\* Hamilton's product of <<x, y, z, w>>.
Hamilton(a, b) ==
    LET v(q) == SubSeq(q, 1, 3)
    IN  Append(Plus(Plus(Times(v(b), a[4]), Times(v(a), b[4])), cross(v(a), v(b))),
               Sub(Mul(a[4], b[4]), dot(v(a), v(b))))

Conjugate(q) == <<Neg(q[1]), Neg(q[2]), Neg(q[3]), q[4]>>

Meaning(t, p) ==
    CASE t[1] = "identity"   -> p
      [] t[1] = "translate"  -> Plus(p, t[2])
      [] t[1] = "scale"      -> [i \in 1..3 |-> Mul(p[i], t[2][i])]
      [] t[1] = "turn"       -> Quarters(t[2], t[3], p)
      [] t[1] = "around"     -> Quarters(3, t[3], p)
      [] t[1] = "half turn"  -> Minus(Times(t[2], Mul(Num(2), Mul(dot(t[2], p),
                                                                  Inv(dot(t[2], t[2]))))), p)
      [] t[1] = "quaternion" -> SubSeq(Hamilton(Hamilton(t[2], Append(p, Zero)),
                                                Conjugate(t[2])), 1, 3)
      [] t[1] = "look at"    -> LET from == Minus(p, t[2])
                                IN  <<dot(cross(t[5], t[3]), from), dot(t[5], from), dot(t[3], from)>>
      [] t[1] = "all"        -> FoldRight(LAMBDA s, q : Meaning(s, q), t[2], p)

TestPoints == {V(0, 0, 0), V(1, 2, -3), V(0, 5, 0)}

Sound(as, v, points, values) ==
    [as |-> as, variant |-> v, points |-> points,
     values |-> {<<as, x>> : x \in values}, faults |-> {}]

At(as, v, path) ==
    [as |-> as, variant |-> v, points |-> {}, values |-> {}, faults |-> {path}]

Transforms ==
    {Sound("transform", VariantOf(t), {<<p, Meaning(t, p)>> : p \in TestPoints}, {}) :
        t \in Single \cup {Flat} \cup InSequence \cup {<<"quaternion", q>> : q \in Quaternions}}
    \cup {Sound("transform", VariantOf(t), {}, {}) :
             t \in {LongQuaternion} \cup {<<"all", <<LongQuaternion, s>>>> : s \in Single}}

-----------------------------------------------------------------------------
(* One value at fault: it is another, or something of it is missing.       *)

RECURSIVE Replacements(_, _)
Replacements(v, path) ==
    {[variant |-> <<"none">>, path |-> path]}
    \cup (IF v[1] = "map"
          THEN {[variant |-> <<"map", [k \in DOMAIN v[2] \ {key} |-> v[2][k]]>>, path |-> path] :
                   key \in DOMAIN v[2]}
               \cup UNION {{[variant |-> <<"map", [v[2] EXCEPT ![key] = r.variant]>>,
                             path |-> r.path] :
                               r \in Replacements(v[2][key], Append(path, <<"key", key>>))} :
                              key \in DOMAIN v[2]}
          ELSE IF v[1] = "vector"
          THEN {[variant |-> <<"vector", Tail(v[2])>>, path |-> path]}
               \cup UNION {{[variant |-> <<"vector", [v[2] EXCEPT ![i] = r.variant]>>,
                             path |-> r.path] :
                               r \in Replacements(v[2][i], Append(path, <<"index", i - 1>>))} :
                              i \in DOMAIN v[2]}
          ELSE {})

Time(t) == <<"double", t>>

Animated(start, end) ==
    <<"map", "start_time" :> Time(start) @@ "end_time" :> Time(end)
             @@ "start_transform" :> VariantOf(<<"turn", 1, 1>>)
             @@ "end_transform" :> VariantOf(<<"all", <<<<"identity">>, <<"scale", V(1, 2, 1)>>>>>>)>>

Faulty ==
    UNION {{At("transform", r.variant, r.path) : r \in Replacements(VariantOf(t), <<>>)} :
              t \in Single \cup {<<"all", <<<<"turn", 3, 1>>, <<"all", <<<<"identity">>, t>>>>>>>> :
                                    t \in Single}}
    \cup {At("animated", r.variant, r.path) : r \in Replacements(Animated(Zero, Half), <<>>)}
    \cup {At("animated", Animated(Half, t), <<>>) : t \in {Zero, Half}}
    \cup {At("transform", v, <<>>) : v \in {MapOf("shear", Number(One)), <<"string", "unit">>,
                                            <<"map", "scale" :> Number(One) @@ "rotate_x" :> Number(One)>>}}
    \cup {At("color", v, <<>>) : v \in {<<"string", "grey">>, <<"none">>, Numbers(<<One>>)}}
    \cup {At("color", <<"vector", <<Number(One), <<"bool", TRUE>>, Number(One)>>>>, <<<<"index", 1>>>>),
          At("image", MapOf("file", <<"string", "a">>), <<>>),
          At("image", MapOf("path", <<"none">>), <<<<"key", "path">>>>),
          At("bool", Number(One), <<>>), At("int", <<"string", "1">>, <<>>)}

-----------------------------------------------------------------------------
(* Numbers, and what each is as another type.                              *)

Ints      == (-MaxInt - 1) .. MaxInt
Unsigneds == 0 .. 2 * MaxInt + 1
Fractions(max) == {Frac(n, 4) : n \in -4 * max .. 4 * max}

AllNumbers ==
    {<<<<"int", n>>, Num(n)>> : n \in Ints}
    \cup {<<<<"unsigned int", n>>, Num(n)>> : n \in Unsigneds}
    \cup {<<<<"float", x>>, x>> : x \in Fractions(MaxFloat)}
    \cup {<<<<"double", x>>, x>> : x \in Fractions(MaxFloat + 2)}

\* The nearest, of two the one that is further from 0.
Nearest(x, range) ==
    {n \in range : LET d == Abs(Sub(Num(n), x))
                   IN  Lt(d, Half) \/ (d = Half /\ Lt(Abs(x), Abs(Num(n))))}

AsNumber(as, v, values) == IF values = {} THEN At(as, v, <<>>) ELSE Sound(as, v, {}, values)

NumbersRead ==
    UNION {{AsNumber("int", n[1], Nearest(n[2], Ints)),
            AsNumber("unsigned int", n[1], Nearest(n[2], Unsigneds)),
            AsNumber("float", n[1], {x \in {n[2]} : Le(Abs(x), Num(MaxFloat))}),
            AsNumber("double", n[1], {n[2]})} : n \in AllNumbers}

Others ==
    {Sound("color", <<"string", "yellow">>, {}, {<<One, One, Zero>>}),
     Sound("color", Numbers(<<Num(-1), Half, Num(2)>>), {}, {<<Zero, Half, One>>}),
     Sound("bool", <<"bool", FALSE>>, {}, {FALSE}),
     Sound("image", MapOf("path", <<"string", "a">>), {}, {<<"a">>}),
     Sound("path or a", MapOf("path", <<"string", "b">>), {}, {<<"b">>}),
     Sound("path or a", MapOf("file", <<"string", "b">>), {}, {<<"a">>}),
     At("path or a", MapOf("path", <<"none">>), <<<<"key", "path">>>>),
     Sound("second", <<"vector", <<<<"none">>, <<"bool", TRUE>>>>>>, {}, {<<"true">>}),
     At("second", <<"vector", <<<<"bool", TRUE>>, <<"none">>>>>>, <<<<"index", 1>>>>),
     At("second", <<"vector", <<<<"bool", TRUE>>>>>>, <<>>),
     At("second", MapOf("path", <<"string", "b">>), <<>>),
     At("string", <<"none">>, <<>>),
     Sound("string", Number(Half), {}, {<<Number(Half)>>}),
     Sound("string",
           <<"vector", <<<<"none">>, MapOf("a", <<"vector", <<<<"bool", FALSE>>, Number(One)>>>>)>>>>,
           {}, {<<"[ ", <<<<"">>, <<"{ ", "a" :> <<"[ ", <<<<"false">>, <<Number(One)>>>>, " ]">>, " }">>>>,
                  " ]">>}),
     Sound("animated", Animated(Zero, Half), {}, {})}

MCSceneValues == Transforms \cup Faulty \cup NumbersRead \cup Others
=============================================================================

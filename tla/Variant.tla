------------------------------ MODULE Variant ------------------------------
(***************************************************************************)
(* lib/containers/variant.{h,cpp} as what is read: types, and how a value  *)
(* is converted to what is asked for (lib/math/numeric_cast.h).            *)
(*                                                                         *)
(* A Variant is <<type, value>>: a map is a function from keys to          *)
(* Variants, a vector a sequence of them, a float or double an exact       *)
(* fraction.  An error holds the path() of the Variant at fault: steps     *)
(* <<"key", k>> and <<"index", i>> from the root, which parent_ leads to.  *)
(***************************************************************************)
EXTENDS Matrices, Result

CONSTANTS
    MaxInt,   \* of int; that of unsigned int is twice as much and one
    MaxFloat  \* of float, where a double may be larger

TypeOf(v) == v[1]
IsA(type, v) == v[1] = type

\* as_map(), as_vector() and the others.
as(v) == v[2]

Keys(v) == IF IsA("map", v) THEN DOMAIN as(v) ELSE {}

KeyPath(path, key)   == Append(path, <<"key", key>>)
IndexPath(path, i)   == Append(path, <<"index", i - 1>>)

-----------------------------------------------------------------------------
(* numeric_cast().                                                         *)

IntegerTypes == {"int", "unsigned int"}
NumberTypes  == IntegerTypes \cup {"float", "double"}

NumberOf(v) == IF TypeOf(v) \in IntegerTypes THEN Num(as(v)) ELSE as(v)

\* std::llround(): halfway cases away from zero.
RoundUp(x) == (2 * x[1] + x[2]) \div (2 * x[2])
llround(x) == IF x[1] < 0 THEN -RoundUp(Neg(x)) ELSE RoundUp(x)

Lowest(type)  == IF type = "int" THEN -MaxInt - 1 ELSE 0
Highest(type) == IF type = "int" THEN MaxInt ELSE 2 * MaxInt + 1

\* Mutant: the value is compared before it is rounded.
WithinRangeUnrounded(type, v) ==
    LET x == NumberOf(v)
    IN  IF type \in IntegerTypes THEN Le(Num(Lowest(type)), x) /\ Lt(x, Num(Highest(type) + 1))
        ELSE type = "float" /\ TypeOf(v) = "double" => Le(Abs(x), Num(MaxFloat))

within_range(type, v) ==
    LET x == NumberOf(v)
    IN  IF type \in IntegerTypes THEN llround(x) \in Lowest(type)..Highest(type)
        ELSE type = "float" /\ TypeOf(v) = "double" => Le(Abs(x), Num(MaxFloat))

CastTo(type, v) == IF type \in IntegerTypes THEN llround(NumberOf(v)) ELSE NumberOf(v)

-----------------------------------------------------------------------------
(* to_bool(), to_int() and the others, get() and to_array().               *)

to_bool(v, path) == IF IsA("bool", v) THEN Value(as(v), path) ELSE Error(path)

to_number(type, v, path) ==
    IF TypeOf(v) \in NumberTypes /\ within_range(type, v) THEN Value(CastTo(type, v), path)
    ELSE Error(path)

RECURSIVE to_string(_, _)

\* Of the texts of elements, in the order of keys or places.
ElementsToString(v) ==
    [k \in DOMAIN as(v) |-> value_or(to_string(as(v)[k], <<>>), <<"">>)]

\* A sequence of words and numbers: the digits of a number are left out.
to_string(v, path) ==
    CASE IsA("none", v)         -> Error(path)
      [] IsA("map", v)          -> Value(<<"{ ", ElementsToString(v), " }">>, path)
      [] IsA("vector", v)       -> Value(<<"[ ", ElementsToString(v), " ]">>, path)
      [] IsA("bool", v)         -> Value(<<IF as(v) THEN "true" ELSE "false">>, path)
      [] TypeOf(v) \in NumberTypes -> Value(<<v>>, path)
      [] IsA("string", v)       -> Value(<<as(v)>>, path)

\* real_t is float, or double.
to_real(v, path) == to_number("float", v, path)

has(v, key) == key \in Keys(v)

HasIndex(v, index) == IsA("vector", v) /\ index < Len(as(v))

IsArray(v, n) == IsA("vector", v) /\ Len(as(v)) = n

get(v, path, key, To(_, _)) ==
    IF has(v, key) THEN To(as(v)[key], KeyPath(path, key)) ELSE Error(path)

get_or(v, path, key, To(_, _), default_value) ==
    IF has(v, key) THEN To(as(v)[key], KeyPath(path, key)) ELSE Value(default_value, path)

get_at(v, path, index, To(_, _)) ==
    IF HasIndex(v, index) THEN To(as(v)[index + 1], IndexPath(path, index + 1)) ELSE Error(path)

to_array(v, path, n, To(_, _)) ==
    IF ~IsArray(v, n) THEN Error(path)
    ELSE FoldLeft(LAMBDA sofar, i :
                      Then(sofar, LAMBDA values, p :
                      Then(To(as(v)[i], IndexPath(path, i)), LAMBDA value, at :
                          Value(Append(values, value), path))),
                  Value(<<>>, path), [i \in 1..n |-> i])

vector_from_variant(v, path)     == to_array(v, path, 3, to_real)
quaternion_from_variant(v, path) == to_array(v, path, 4, to_real)

-----------------------------------------------------------------------------
(* Color::from_variant() (lib/graphics/color.cpp).                         *)

NamedColors ==
    [black  |-> <<Zero, Zero, Zero>>, white |-> <<One, One, One>>, red  |-> <<One, Zero, Zero>>,
     yellow |-> <<One, One, Zero>>,   green |-> <<Zero, One, Zero>>, blue |-> <<Zero, Zero, One>>]

clamp(color) == [i \in DOMAIN color |-> Least(Greatest(color[i], Zero), One)]

color_from_variant(v, path) ==
    IF IsA("string", v) /\ as(v) \in DOMAIN NamedColors THEN Value(NamedColors[as(v)], path)
    ELSE Then(to_array(v, path, 3, to_real), LAMBDA rgb, at : Value(clamp(rgb), at))
=============================================================================

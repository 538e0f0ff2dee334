---------------------------- MODULE VariantTree ----------------------------
(***************************************************************************)
(* lib/containers/variant.{h,cpp} as what is built and moved: Variants are *)
(* at places, those of a map or a vector in its elements, which point to   *)
(* it with parent_ so that path() finds the way to them.                   *)
(*                                                                         *)
(* An element of a map, with its key, and of a vector, with its index,     *)
(* differ in what path() writes only.  Elements are added when their map   *)
(* or vector is built, never by as_map() or as_vector(): new elements      *)
(* would have no parent_.                                                  *)
(***************************************************************************)
EXTENDS Integers, Sequences, SequencesExt, FiniteSets

CONSTANTS
    Variables,   \* Variants that are no element of another
    Elements,    \* places for elements
    MaxElements  \* elements that one map or vector is built with

NULL == "nullptr"

Places == Variables \cup Elements

VARIABLES
    exists,    \* places where there is a Variant
    parent_,
    elements   \* of the map or vector there, <<>> for any other type

variantVars == <<exists, parent_, elements>>

Init ==
    /\ exists = Variables
    /\ parent_ = [p \in Places |-> NULL]
    /\ elements = [p \in Places |-> <<>>]

-----------------------------------------------------------------------------
\* What is at p and in its elements, in at most that many levels.
Below(p) ==
    LET within[n \in 0 .. Cardinality(Elements)] ==
            IF n = 0 THEN {p} ELSE within[n - 1] \cup UNION {Range(elements[q]) : q \in within[n - 1]}
    IN  within[Cardinality(Elements)]

\* Mutant: the elements still point to where they were moved from.
NotReparented(p, children) == parent_

reparent_children(p, children) ==
    [q \in Places |-> IF q \in Range(children) THEN p ELSE parent_[q]]

\* What is destroyed with the value of p: all that is in it.
Inside(p) == Below(p) \ {p}

\* fill_map() and fill_vector(): what was at places from is moved to new elements, one after the
\* other.
fill(new, from) ==
    LET Source(q) == from[CHOOSE i \in DOMAIN new : new[i] = q]
    IN  [q \in Places |-> IF q \in Range(new) THEN elements[Source(q)]
                          ELSE IF q \in Range(from) THEN <<>> ELSE elements[q]]

\* Elements of those, which were moved twice, point to the new ones.
ParentsOnceFilled(new, filled) ==
    [q \in Places |-> IF \E n \in Range(new) : q \in Range(filled[n])
                      THEN CHOOSE n \in Range(new) : q \in Range(filled[n]) ELSE parent_[q]]

\* Variant(Map &&) or Variant(Vector &&), which map() and vector() call with new elements.
build(p, from) ==
    LET free   == SetToSeq(Elements \ exists)
        new    == SubSeq(free, 1, Len(from))
        filled == fill(new, from)
    IN  /\ p \in Variables \cap exists
        /\ p \notin Range(from)
        /\ Range(from) \subseteq Variables
        /\ elements[p] = <<>>
        /\ Len(from) <= Len(free)
        /\ exists' = exists \cup Range(new)
        /\ elements' = [filled EXCEPT ![p] = new]
        /\ parent_' = [q \in Places |-> IF q \in Range(new) THEN reparent_children(p, new)[q]
                                        ELSE ParentsOnceFilled(new, filled)[q]]

(***************************************************************************)
(* initialize_from(): what is at p is destroyed, what was at other is at p *)
(* then.  other is not p, nor in p, nor is p in other: it would be         *)
(* destroyed before it is moved, or move into itself.                      *)
(***************************************************************************)
initialize_from(p, other) ==
    /\ {p, other} \subseteq exists
    /\ other \notin Below(p)
    /\ p \notin Below(other)
    /\ elements' = [q \in Places |-> IF q = p THEN elements[other]
                                     ELSE IF q \in Inside(p) \cup {other} THEN <<>> ELSE elements[q]]
    /\ exists' = exists \ Inside(p)
    /\ parent_' = [q \in Places |-> IF q \in Inside(p) THEN NULL
                                    ELSE reparent_children(p, elements[other])[q]]

\* initialize_from(), from a value without elements.
assign_value(p) ==
    /\ p \in exists
    /\ elements' = [q \in Places |-> IF q \in Below(p) THEN <<>> ELSE elements[q]]
    /\ exists' = exists \ Inside(p)
    /\ parent_' = [q \in Places |-> IF q \in Inside(p) THEN NULL ELSE parent_[q]]

Next ==
    \/ \E p \in Variables, n \in 0..MaxElements : \E from \in [1..n -> Variables] :
           IsInjective(from) /\ build(p, from)
    \/ \E p, other \in Places : initialize_from(p, other)
    \/ \E p \in Places : assign_value(p)

Spec == Init /\ [][Next]_variantVars

-----------------------------------------------------------------------------
(* path(): from the root, the positions in the elements.                   *)

index_in_parent(p) == CHOOSE i \in DOMAIN elements[parent_[p]] : elements[parent_[p]][i] = p

path(p) ==
    LET of[q \in Places, n \in 0 .. Cardinality(Elements)] ==
            IF n = 0 \/ parent_[q] = NULL THEN <<>>
            ELSE Append(of[parent_[q], n - 1], index_in_parent(q))
    IN  of[p, Cardinality(Elements)]

\* Where a path leads to.
Follow(root, way) == FoldLeft(LAMBDA p, i : elements[p][i], root, way)

(***************************************************************************)
(* However Variants are moved into each other and out again, every part of *)
(* one points to what it is in, and its path leads from there to it.       *)
(***************************************************************************)
IsParent(p, q) == q \in exists /\ parent_[q] = p

PathsLead ==
    /\ \A p \in exists : \A q \in Range(elements[p]) : IsParent(p, q)
    /\ \A root \in Variables : \A p \in Below(root) : Follow(root, path(p)) = p
=============================================================================

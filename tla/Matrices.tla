------------------------------ MODULE Matrices ------------------------------
(***************************************************************************)
(* lib/math: vectors, matrices, their inverses and quaternions.            *)
(*                                                                         *)
(* A real_t is an exact fraction <<n, d>> in lowest terms, d > 0: what     *)
(* rounding does is left out, and a division by 0 or the square root of    *)
(* what is no square of a fraction has no value.  A vector is a sequence   *)
(* of fractions, a matrix a sequence of its rows.                          *)
(***************************************************************************)
EXTENDS Integers, Sequences, SequencesExt, FiniteSets

Magnitude(n) == IF n < 0 THEN -n ELSE n

\* Euclid's algorithm.
gcd[a, b \in Nat] == IF b = 0 THEN a ELSE gcd[b, a % b]

Frac(n, d) ==
    LET c    == gcd[Magnitude(n), Magnitude(d)]
        sign == IF d < 0 THEN -1 ELSE 1
    IN  <<sign * (IF n < 0 THEN -(-n \div c) ELSE n \div c), Magnitude(d) \div c>>

Num(n) == <<n, 1>>
Zero   == Num(0)
One    == Num(1)


Add(a, b) ==
    LET c == gcd[a[2], b[2]]
    IN  Frac(a[1] * (b[2] \div c) + b[1] * (a[2] \div c), a[2] * (b[2] \div c))

Neg(a)    == <<-a[1], a[2]>>
Sub(a, b) == Add(a, Neg(b))
Mul(a, b) == LET p == Frac(a[1], b[2])
                 q == Frac(b[1], a[2])
             IN  <<p[1] * q[1], p[2] * q[2]>>
Inv(a)    == Frac(a[2], a[1])
Abs(a)    == <<Magnitude(a[1]), a[2]>>
Lt(a, b)  == Sub(a, b)[1] < 0
Le(a, b)  == ~Lt(b, a)

Least(a, b)    == IF Lt(b, a) THEN b ELSE a
Greatest(a, b) == IF Lt(a, b) THEN b ELSE a

SumOf(s) == FoldLeft(Add, Zero, s)

\* std::sqrt() of the square of a fraction.
RootOf(n) == CHOOSE r \in 0..n : r * r = n
Sqrt(a)   == Frac(RootOf(a[1]), RootOf(a[2]))

-----------------------------------------------------------------------------
(* Vectors.                                                                *)

Plus(v, w)  == [i \in DOMAIN v |-> Add(v[i], w[i])]
Minus(v, w) == [i \in DOMAIN v |-> Sub(v[i], w[i])]
Times(v, s) == [i \in DOMAIN v |-> Mul(v[i], s)]
dot(v, w)   == SumOf([i \in DOMAIN v |-> Mul(v[i], w[i])])

normalize(v) == Times(v, Inv(Sqrt(dot(v, v))))

cross(v, w) ==
    <<Sub(Mul(v[2], w[3]), Mul(v[3], w[2])),
      Sub(Mul(v[3], w[1]), Mul(v[1], w[3])),
      Sub(Mul(v[1], w[2]), Mul(v[2], w[1]))>>

MinOf(v, w) == [i \in DOMAIN v |-> Least(v[i], w[i])]
MaxOf(v, w) == [i \in DOMAIN v |-> Greatest(v[i], w[i])]

-----------------------------------------------------------------------------
(* Matrices.                                                               *)

Diagonal(values) ==
    [i \in DOMAIN values |-> [j \in DOMAIN values |-> IF i = j THEN values[i] ELSE Zero]]

identity == Diagonal([i \in 1..4 |-> One])

\* Of three axes and a translation: the columns.
FromColumns(x, y, z, t) ==
    [i \in 1..4 |-> IF i = 4 THEN <<Zero, Zero, Zero, One>> ELSE <<x[i], y[i], z[i], t[i]>>]

Origin == <<Zero, Zero, Zero>>
XAxis  == <<One, Zero, Zero>>
YAxis  == <<Zero, One, Zero>>
ZAxis  == <<Zero, Zero, One>>

translate_matrix(v) == FromColumns(XAxis, YAxis, ZAxis, v)
scale_matrix(v)     == Diagonal(Append(v, One))

Column(m, j) == [i \in DOMAIN m |-> m[i][j]]
transpose(m) == [i \in DOMAIN m |-> Column(m, i)]
Product(m, right) == [i \in DOMAIN m |-> [j \in DOMAIN m |-> dot(m[i], Column(right, j))]]
upper3x3(m) == [i \in 1..3 |-> SubSeq(m[i], 1, 3)]

x_axis(m)      == SubSeq(Column(m, 1), 1, 3)
y_axis(m)      == SubSeq(Column(m, 2), 1, 3)
z_axis(m)      == SubSeq(Column(m, 3), 1, 3)
translation(m) == SubSeq(Column(m, 4), 1, 3)

swap_columns(m, i, j) ==
    [row \in DOMAIN m |-> [m[row] EXCEPT ![i] = m[row][j], ![j] = m[row][i]]]
swap_rows(m, i, j) == [m EXCEPT ![i] = m[j], ![j] = m[i]]

(***************************************************************************)
(* matrix_inverse_in_place(): Gauss-Jordan elimination.  The pivot is the  *)
(* last of the largest elements in unused rows and columns.                *)
(***************************************************************************)
PivotOf(m, used) ==
    LET free == DOMAIN m \ used
        positions == free \X free
        IsLargest(p) == \A q \in positions : Le(Abs(m[q[1]][q[2]]), Abs(m[p[1]][p[2]]))
        IsAfter(p, q) == p[1] > q[1] \/ (p[1] = q[1] /\ p[2] >= q[2])
        largest == {p \in positions : IsLargest(p)}
    IN  CHOOSE p \in largest : \A q \in largest : IsAfter(p, q)

Eliminate(m, pos) ==
    LET pivot_inv == Inv(m[pos][pos])
        pivot_row == Times([m[pos] EXCEPT ![pos] = One], pivot_inv)
    IN  [row \in DOMAIN m |->
            IF row = pos THEN pivot_row
            ELSE Plus([m[row] EXCEPT ![pos] = Zero], Times(pivot_row, Neg(m[row][pos])))]

PivotStep(s, n) ==
    LET p == PivotOf(s.matrix, s.used)
    IN  [matrix |-> Eliminate(swap_rows(s.matrix, p[1], p[2]), p[2]),
         used   |-> s.used \cup {p[2]},
         pivots |-> Append(s.pivots, p)]

\* Mutant: the columns are put back in the order in which rows were swapped.
InOrder(pivots) == pivots

BackwardsThrough(pivots) == Reverse(pivots)

matrix_inverse(m) ==
    LET last == FoldLeft(PivotStep, [matrix |-> m, used |-> {}, pivots |-> <<>>],
                         [i \in DOMAIN m |-> i])
    IN  FoldLeft(LAMBDA n, p : swap_columns(n, p[1], p[2]), last.matrix,
                 BackwardsThrough(last.pivots))

-----------------------------------------------------------------------------
(* Rotations.  An angle is its sine and cosine.                            *)

rotate_x_matrix(a) ==
    FromColumns(XAxis, <<Zero, a.cos, a.sin>>, <<Zero, Neg(a.sin), a.cos>>, Origin)
rotate_y_matrix(a) ==
    FromColumns(<<a.cos, Zero, Neg(a.sin)>>, YAxis, <<a.sin, Zero, a.cos>>, Origin)
rotate_z_matrix(a) ==
    FromColumns(<<a.cos, a.sin, Zero>>, <<Neg(a.sin), a.cos, Zero>>, ZAxis, Origin)

\* Around an axis: in column j, a * a[j] * (1 - cos) + e[j] * cos + (a x e[j]) * sin.
rotate_matrix(angle, axis) ==
    LET a == normalize(axis)
        t == Sub(One, angle.cos)
        column(j, e) == Plus(Plus(Times(a, Mul(a[j], t)), Times(e, angle.cos)),
                             Times(cross(a, e), angle.sin))
    IN  FromColumns(column(1, XAxis), column(2, YAxis), column(3, ZAxis), Origin)

\* Of a quaternion <<x, y, z, w>>.
rotate_by_quaternion(q) ==
    LET twice(i, j) == Mul(Num(2), Mul(q[i], q[j]))
    IN  FromColumns(
            <<Sub(One, Add(twice(2, 2), twice(3, 3))), Add(twice(1, 2), twice(3, 4)),
              Sub(twice(1, 3), twice(2, 4))>>,
            <<Sub(twice(1, 2), twice(3, 4)), Sub(One, Add(twice(1, 1), twice(3, 3))),
              Add(twice(2, 3), twice(1, 4))>>,
            <<Add(twice(1, 3), twice(2, 4)), Sub(twice(2, 3), twice(1, 4)),
              Sub(One, Add(twice(1, 1), twice(2, 2)))>>,
            Origin)

max_diagonal_position(m) ==
    CHOOSE i \in 1..3 : \A j \in 1..3 : IF j < i THEN Lt(m[j][j], m[i][i]) ELSE Le(m[j][j], m[i][i])

\* Matrix3x3::rotation(): the quaternion of a rotation.
rotation(m) ==
    LET trace == Add(m[1][1], Add(m[2][2], m[3][3]))
        half(s) == Mul(s, Frac(1, 2))
        over(s) == IF s = Zero THEN Zero ELSE half(Inv(s))
        big == Sqrt(Add(trace, One))
        i == max_diagonal_position(m)
        j == (i % 3) + 1
        k == (j % 3) + 1
        s == Sqrt(Add(Sub(Sub(m[i][i], m[j][j]), m[k][k]), One))
    IN  IF Lt(Zero, trace)
        THEN <<Mul(Sub(m[3][2], m[2][3]), over(big)), Mul(Sub(m[1][3], m[3][1]), over(big)),
               Mul(Sub(m[2][1], m[1][2]), over(big)), half(big)>>
        ELSE [n \in 1..4 |-> CASE n = i -> half(s)
                               [] n = j -> Mul(Add(m[j][i], m[i][j]), over(s))
                               [] n = k -> Mul(Add(m[k][i], m[i][k]), over(s))
                               [] n = 4 -> Mul(Sub(m[k][j], m[j][k]), over(s))]

look_at_matrix(translation_, center, up) ==
    LET z == normalize(Minus(center, translation_))
        x == normalize(cross(normalize(up), z))
    IN  FromColumns(x, cross(z, x), z, translation_)
=============================================================================

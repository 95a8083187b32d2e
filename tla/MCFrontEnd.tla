----------------------------- MODULE MCFrontEnd -----------------------------
(* Programs over the tensors A, A_1 and B, the scalar s and the output B, Z  *)
(* or A itself: every combination of shapes, slices and trees below,         *)
(* programs with as many references as there are registers and with one      *)
(* more, and programs in the wrong order, with too much or too little.       *)
EXTENDS FrontEndCorrect

A  == <<"A">>
A1 == <<"A", 1>>
B  == <<"B">>
S  == <<"s">>
Zn == <<"Z">>

Tens(n, dims) == [do |-> "tensor", name |-> n, dims |-> dims, dtype |-> "int"]
Scal(t) == [do |-> "scalar", name |-> S, dtype |-> t]
R(n, slices) == [name |-> n, slices |-> slices]
To(n, slices, rs, tree) == [do |-> "assign", name |-> n, slices |-> slices,
                              refs |-> rs, tree |-> tree]
L(k) == <<[kind |-> "leaf", name |-> k]>>
Op(o, x, y) ==
    x \o [i \in DOMAIN y |-> IF y[i].kind = "op"
                             THEN [y[i] EXCEPT !.a = @ + Len(x), !.b = @ + Len(x)] ELSE y[i]]
      \o <<[kind |-> "op", op |-> o, a |-> Len(x), b |-> Len(x) + Len(y)]>>

Sl(f, t) == [from |-> f, to |-> t]
Mid == Sl(1, -1)    Fst == Sl(Open, -2)    Lst == Sl(2, Open)    All == Sl(Open, Open)
Cut == Sl(0, 1)

\* x[s, .., s], the first n dimensions.
Each(s, n) == [d \in 1 .. n |-> s]

Shapes == {<<4>>, <<3, 4>>, <<4, 4>>, <<3, 3, 4>>}
SliceSets(n) == {<< >>, Each(Mid, n), Each(Lst, n), <<Fst>>, Each(Cut, n)}
Trees == {Op("add", L(1), Op("add", L(2), L(3))), Op("mul", L(1), Op("sub", L(2), L(3))),
          Op("sub", Op("mul", L(1), L(2)), L(3)),
          Op("add", L(1), Op("mul", L(2), L(3)))}

Pair(m, n) == <<Tens(A, m), Tens(A1, n), Tens(B, m), Scal("int")>>

Regulars == {Pair(m, n) \o <<To(o, u, <<R(A, u), R(x, u), R(y, v)>>, t)>> :
               m \in Shapes, n \in {<<3, 4>>}, o \in {A, B, Zn}, x \in {A, A1},
               y \in {A, S}, u \in SliceSets(2), v \in {<< >>, <<Fst, Mid>>}, t \in Trees}

Shifted == {Pair(m, m) \o <<To(o, u, <<R(A, v), R(A, w), R(A1, v)>>, t)>> :
              m \in Shapes, o \in {B, Zn}, u \in {<< >>, Each(Mid, 2)},
              v \in SliceSets(2), w \in {Each(Mid, 2), Each(Fst, 2)}, t \in Trees}

One == To(B, << >>, <<R(A, << >>)>>, L(1))
Odd == {<< >>, <<Tens(A, <<4>>)>>, <<Tens(A, <<4>>), One, Tens(B, << >>)>>, <<One>>, <<Tens(A, <<4>>), One, One>>,
        <<Tens(A, <<4>>), One, Tens(A, <<8>>)>>, <<Scal("int"), To(B, << >>, <<R(S, << >>)>>, L(1))>>,
        <<Tens(A, <<4>>), Scal("float"),
          To(B, << >>, <<R(A, << >>), R(S, << >>)>>, Op("mul", L(1), L(2)))>>,
        <<Tens(A, <<4>>), Scal("int"),
          To(B, << >>, <<R(A, << >>), R(S, <<Mid>>)>>, Op("mul", L(1), L(2)))>>,
        <<Tens(A, <<4>>), Tens(B, <<4>>), To(B, << >>,
           <<R(A, <<Mid>>), R(B, <<Mid>>), R(A, <<Fst>>), R(B, <<Lst>>)>>,
           Op("mul", Op("add", L(1), L(2)), Op("sub", L(3), L(4))))>>}

\* A + (A + (... + (A + s)))), with n references to A, then m scalars.
Chain(n) ==
    LET c[k \in 1 .. n] == IF k = 1 THEN L(n) ELSE Op("add", L(n + 1 - k), c[k - 1])
    IN  c[n]
Many(dims, n, m) ==
    <<Tens(A, dims)>> \o [k \in 1 .. m |-> [Scal("int") EXCEPT !.name = <<"s", k>>]]
      \o <<To(Zn, << >>, [k \in 1 .. n + m |-> R(IF k <= n THEN A ELSE <<"s", k - n>>, << >>)],
              Chain(n + m))>>

\* As many references and scalars as there are registers for (eight in two
\* dimensions and one scalar, five in three and two, one in seven and two), and
\* more.
Crowded == {Many(<<4, 4>>, 8, 1), Many(<<4, 4>>, 8, 2), Many(<<4, 4>>, 9, 0),
            Many(<<2, 2, 4>>, 5, 2), Many(<<2, 2, 4>>, 5, 3), Many(<<2, 2, 4>>, 6, 0),
            Many(<<1, 1, 1, 1, 1, 1, 1>>, 1, 2), Many(<<1, 1, 1, 1, 1, 1, 1, 1>>, 1, 0)}

MCPrograms == Crowded \cup Regulars \cup Shifted \cup Odd
=============================================================================

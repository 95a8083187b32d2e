---------------------------- MODULE MCQpuKernel ----------------------------
(***************************************************************************)
(* Small instances of QpuKernel: 3 QPUs, groups of 2 tiles of 2 elements,  *)
(* 16-bit words whose low 12 bits mul24 multiplies, and data words kept as *)
(* the terms that compute them.                                            *)
(***************************************************************************)
EXTENDS QpuKernelCorrect

MCAlu(op, x, y) == <<op, x, y>>
MCImm(w)        == <<"imm", w>>
MCCell(a)       == <<"cell", a>>

\* Functions from 0, written as sequences.
Z(s) == [i \in 0 .. Len(s) - 1 |-> s[i + 1]]

Set(ti, si)     == [ti |-> ti, si |-> si, init |-> TRUE,  op |-> "add"]
Do(op, ti, si)  == [ti |-> ti, si |-> si, init |-> FALSE, op |-> op]

\* C[1:19] = s * A[1:19] - B[:18]: four whole groups, shares 2, 1 and 1, and
\* two elements left over.
Vector ==
    [n |-> 2, d |-> 1, s |-> 1, ptr |-> Z(<<0, 80>>), out |-> 160,
     start |-> Z(<<Z(<<1>>), Z(<<0>>)>>), ostart |-> Z(<<1>>),
     dim |-> Z(<<20>>), size |-> Z(<<18>>), scalar |-> Z(<<7>>),
     steps |-> <<Set(0, 0), Do("sub", 1, None)>>]

\* A[1:5, 1:6] = A[1:5, 1:6] * B[:4, :5] in place; shares 2, 1 and 1 rows, and an
\* element left over in each row.
InPlace ==
    [n |-> 2, d |-> 2, s |-> 0, ptr |-> Z(<<0, 120>>), out |-> 0,
     start |-> Z(<<Z(<<1, 1>>), Z(<<0, 0>>)>>), ostart |-> Z(<<1, 1>>),
     dim |-> Z(<<6, 5>>), size |-> Z(<<5, 4>>), scalar |-> Z(<<>>),
     steps |-> <<Set(0, None), Do("mul", 1, None)>>]

\* C[:3, :2, :8] = (s + A[:3, :2, 1:9]): three dimensions, two groups a row, one
\* plane for each QPU, a scalar step.
Cube ==
    [n |-> 1, d |-> 3, s |-> 1, ptr |-> Z(<<0>>), out |-> 400,
     start |-> Z(<<Z(<<1, 0, 0>>)>>), ostart |-> Z(<<0, 0, 0>>),
     dim |-> Z(<<9, 3, 3>>), size |-> Z(<<8, 2, 3>>), scalar |-> Z(<<7>>),
     steps |-> <<Set(None, 0), Do("add", 0, None)>>]

MCCalls == {Vector, InPlace, Cube}

ASSUME RegularCalls == \A c \in MCCalls : Regular(c)

\* Two rows for three QPUs: C = A + B on 2 x 4 matrices.
Short ==
    [n |-> 2, d |-> 2, s |-> 0, ptr |-> Z(<<0, 32>>), out |-> 64,
     start |-> Z(<<Z(<<0, 0>>), Z(<<0, 0>>)>>), ostart |-> Z(<<0, 0>>),
     dim |-> Z(<<4, 2>>), size |-> Z(<<4, 2>>), scalar |-> Z(<<>>),
     steps |-> <<Set(0, None), Do("add", 1, None)>>]

MCShortCalls == {Short}

=============================================================================

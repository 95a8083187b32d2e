-------------------------- MODULE FrontEndCorrect --------------------------
(***************************************************************************)
(* What a program means, said without maps, generated names or strides,    *)
(* and the properties of FrontEnd stated against it.                       *)
(***************************************************************************)
EXTENDS FrontEnd

-----------------------------------------------------------------------------
(* The reference.                                                          *)

\* The declarations of a name that stand before statement a.
Declarations(p, a, do, n) == {j \in 1 .. a - 1 : p[j].do = do /\ p[j].name = n}

\* A tensor hides a scalar; the last declaration counts.
Resolved(p, a, n) ==
    LET ts == Declarations(p, a, "tensor", n)
    IN  p[Max(IF ts # {} THEN ts ELSE Declarations(p, a, "scalar", n))]

KnownRef(p, a, r) ==
    \/ Declarations(p, a, "tensor", r.name) # {}
    \/ Declarations(p, a, "scalar", r.name) # {} /\ r.slices = << >>

TreeBy(p, a) == Labelled(p[a].tree, [k \in DOMAIN p[a].refs |-> Resolved(p, a, p[a].refs[k].name).do])

\* The references of assignment a that are tensors, the scalars it uses, and the
\* dimensions of the tensor it names first.
TensorRefs(p, a) == {k \in DOMAIN p[a].refs : Resolved(p, a, p[a].refs[k].name).do = "tensor"}
ScalarNames(p, a) == {p[a].refs[k].name : k \in DOMAIN p[a].refs \ TensorRefs(p, a)}
Rank(p, a) == Len(Resolved(p, a, p[a].refs[Min(TensorRefs(p, a))].name).dims)

\* A QPU has 32 registers of each file.  File A holds for every reference a
\* pointer and its starts, the same for the output, for every dimension a stride
\* and a count, and the scalars; file B four constants, four words to spare, for
\* every dimension a counter, for every reference a pointer, and eight tiles.
FitsQpu(p, a) ==
    LET n    == Cardinality(TensorRefs(p, a))
        rank == Rank(p, a)
    IN  /\ (n + 1) * (1 + rank) + 2 * rank + Cardinality(ScalarNames(p, a)) <= 32
        /\ 4 + 4 + rank + n + 8 <= 32

\* No tensor is without a dimension; one expression, of declared names of one
\* dtype, that one accumulator and the registers can compute; an output that is
\* sliced is declared.
WellFormed(p) ==
    /\ \A j \in DOMAIN p : p[j].do = "tensor" => p[j].dims # << >>
    /\ \E a \in DOMAIN p :
        /\ {j \in DOMAIN p : p[j].do = "assign"} = {a}
        /\ \A r \in Range(p[a].refs) : KnownRef(p, a, r)
        /\ Cardinality({Resolved(p, a, r.name).dtype : r \in Range(p[a].refs)}) = 1
        /\ p[a].slices # << >> => Declarations(p, a, "tensor", p[a].name) # {}
        /\ ~Flat!Rejected(TreeBy(p, a))
        /\ FitsQpu(p, a)

\* Row-major position of an index, outermost dimension first.
Position(dims, ix) ==
    LET upto[k \in 0 .. Len(dims)] == IF k = 0 THEN 0 ELSE upto[k - 1] * dims[k] + ix[k]
    IN  upto[Len(dims)]

\* The element a sliced tensor has at index x of the expression.
Element(dims, slices, x) ==
    Position(dims, [d \in DOMAIN dims |-> (IF d <= Len(slices) THEN slices[d][1] ELSE 0) + x[D - d]])

-----------------------------------------------------------------------------
(* The programs the compiler has no check for, and gets right.             *)

Generated == phase = "generated"
Assigned == Declared(out.name, tensors)
OutDims == LastDecl(out.name, tensors).dims

NoRedeclaration == \A i, j \in DOMAIN tensors : tensors[i].name = tensors[j].name => i = j

InBounds(slices, dims) ==
    \A d \in DOMAIN slices : d <= Len(dims) =>
        /\ 0 <= slices[d][1] /\ slices[d][1] < slices[d][2] /\ slices[d][2] <= dims[d]

\* Tensors of one rank whose dimensions agree but for the outermost ...
SameRows == \A l \in TensorLeaves :
    LET dims == DeclOf(l).dims
    IN  Len(dims) = D /\ \A d \in 2 .. D : dims[d] = DeclOf(First).dims[d]

\* ... with slices of one extent inside them.
SameExtents == \A l \in TensorLeaves :
    LET s == RefOf(l).slices
    IN  /\ Len(s) = D /\ InBounds(s, DeclOf(l).dims)
        /\ \A d \in 1 .. D : Extent(s[d]) = Extent(RefOf(First).slices[d])

Regular == Generated /\ NoRedeclaration /\ SameRows /\ SameExtents

Index == {x \in [Dims -> 0 .. Max({Size(d) : d \in Dims}) - 1] : \A d \in Dims : x[d] < Size(d)}

-----------------------------------------------------------------------------
(* Properties.                                                             *)

\* Type invariant: the maps count what the lists hold, and every reference has a
\* name of its own.
TypeOK ==
    /\ phase \in {"parse", "rejected", "generated"}
    /\ next \in 1 .. Len(prog) + 1 /\ arg \in Nat
    /\ {t.do : t \in Range(tensors)} \subseteq {"tensor"}
    /\ {t.do : t \in Range(scalars)} \subseteq {"scalar"}
    /\ \A l \in DOMAIN leaves : leaves[l].rank \in Nat
    /\ \A n \in DOMAIN refCount :
         refCount[n] = Cardinality({j \in DOMAIN refs : refs[j].base = n})
    /\ Cardinality({r.gen : r \in Range(refs)}) = Len(refs)

\* The parser and the compiler's assertions, those of the register allocation
\* among them, between them accept a program when it is well formed, and only then.
AcceptsWellFormed ==
    /\ Generated => WellFormed(prog)
    /\ phase = "rejected" => ~WellFormed(prog)

\* Of a regular program the kernel reads, for every reference and at every index,
\* the element the program names there, inside the part of buf that is the
\* tensor's: whatever the order the steps come in, the position of the
\* reference's base in buf, and the names chosen.
ReadsWrittenSlices ==
    Regular => \A l \in TensorLeaves : \A x \in Index :
        LET base == RefOf(l).base
            at == WordFor(base, RefOf(l).slices, x) - Off(base)
        IN  at = Element(DeclOf(l).dims, RefOf(l).slices, x) /\ at \in 0 .. Elems(base) - 1

\* The parts of buf are apart, those of the tensors declared and, after them, that
\* of an output that is not: the sums of sizes the header writes for each of them
\* leave out none that comes before.
Part(n) == Off(n) .. Off(n) + (IF Declared(n, tensors) THEN Elems(n) ELSE OutElems) - 1

PartsApart ==
    Generated /\ NoRedeclaration
      /\ (\A j \in DOMAIN tensors : \A d \in DOMAIN tensors[j].dims : tensors[j].dims[d] >= 0)
    => \A m, n \in {tensors[j].name : j \in DOMAIN tensors} \cup {out.name} :
         m # n => Part(m) \cap Part(n) = {}

\* And it stores to the element of the output the program names, inside the part
\* of buf that is the output's, if the output has the inputs' rows and a slice
\* as large as theirs.
StoresToWrittenSlice ==
    Regular /\ Assigned /\ Len(OutDims) = D
      /\ (\A d \in 2 .. D : OutDims[d] = DeclOf(First).dims[d])
      /\ (\A d \in 1 .. D : (IF d <= Len(out.slices) THEN out.slices[d][1] ELSE 0) \in
                               0 .. OutDims[d] - Size(D - d))
    => \A x \in Index :
        LET at == WordFor(out.name, out.slices, x) - Off(out.name)
        IN  at = Element(OutDims, out.slices, x) /\ at \in 0 .. Elems(out.name) - 1

\* An output that is not declared has room for the elements of the slice, but is
\* stored to with the row length of the whole tensor.  The kernel stays within
\* it, and out of the code that follows, exactly when the slice is a contiguous
\* piece: beyond some dimension all extents are 1, before it the rows are whole.
Contiguous == \E k \in 1 .. D :
    /\ \A d \in 1 .. k - 1 : Extent(RefOf(First).slices[d]) = 1
    /\ \A d \in k + 1 .. D : Size(D - d) = DeclOf(First).dims[d]

UndeclaredOutputFits ==
    Regular /\ ~Assigned =>
        ((\A x \in Index : WordFor(out.name, << >>, x) < Off(out.name) + OutElems) <=> Contiguous)
=============================================================================

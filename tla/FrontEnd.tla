------------------------------ MODULE FrontEnd ------------------------------
(***************************************************************************)
(* From an APPiL program to what the generated driver passes to a kernel:  *)
(* the parser (Parser.cpp) reads the program statement by statement and    *)
(* reference by reference; at the end the compiler types the expression,   *)
(* orders its tensors (analyze_kernel), allocates registers (build_kernel) *)
(* and lays out buffers and uniforms (generate_caller_code).               *)
(*                                                                         *)
(* A program is a sequence of statements                                   *)
(*   [do |-> "tensor", name, dims, dtype]  [do |-> "scalar", name, dtype]  *)
(*   [do |-> "assign", name, slices, refs, tree]                           *)
(* where refs are the references of the expression in the order they are   *)
(* written, each [name, slices], and tree is as in ExprFlatten, with nodes *)
(* [kind |-> "leaf", name |-> k] for the k-th of them.  A slice is         *)
(* [from, to], either of them Open.  A bare expression is one assigned to  *)
(* Z (or an error, if it begins with a slice).  A name is a sequence:      *)
(* name_i is the sequence of name with i at its end.                       *)
(***************************************************************************)
EXTENDS Integers, Sequences, Functions, FiniteSetsExt

CONSTANTS Programs, Open

VARIABLES
    prog,      \* the program
    next,      \* the statement parsed next
    arg,       \* the reference parsed next in an expression, 0 outside
    tensors, scalars,   \* declarations so far
    refs,      \* slice_refs: [base, gen, slices], one for each tensor reference
    leaves,    \* what each reference became: [kind, name, rank, dtype]
    refCount,  \* references to each name so far
    out,       \* the assignment: [name, slices, tree], or NoOut
    phase      \* "parse", then "rejected" or "generated"

vars == <<prog, next, arg, tensors, scalars, refs, leaves, refCount, out, phase>>

Flat == INSTANCE ExprFlatten WITH Exprs <- {}, Envs <- {}, expr <- out,
            steps <- << >>, ip <- 0, acc <- << >>
Layout == INSTANCE KernelLayout

-----------------------------------------------------------------------------
(* Programs.                                                               *)

\* A tree with the kinds of its leaves filled in.
Labelled(tree, kinds) ==
    [i \in DOMAIN tree |->
       LET n == tree[i] IN IF n.kind = "op" THEN n ELSE [kind |-> kinds[n.name], name |-> n.name]]

IsSeq(s) == Len(s) \in Nat /\ s = [i \in 1 .. Len(s) |-> s[i]]
IsSlice(s) == {s.from, s.to} \subseteq Int \cup {Open}
IsRef(r) == IsSeq(r.name) /\ IsSeq(r.slices) /\ \A d \in DOMAIN r.slices : IsSlice(r.slices[d])

IsStatement(s) ==
    /\ s.do \in {"tensor", "scalar", "assign"} /\ IsSeq(s.name)
    /\ s.do = "tensor" => s.dims \in Seq(Int)
    /\ s.do = "assign" =>
         /\ IsRef(s) /\ IsSeq(s.refs) /\ \A k \in DOMAIN s.refs : IsRef(s.refs[k])
         /\ \A i \in DOMAIN s.tree : s.tree[i].kind # "op" => s.tree[i].name \in DOMAIN s.refs
         /\ \A kinds \in [DOMAIN s.refs -> {"tensor", "scalar"}] :
              Flat!IsTree(Labelled(s.tree, kinds))

ASSUME ProgramsAssumption ==
    /\ Open \notin Int
    /\ \A p \in Programs : IsSeq(p) /\ \A j \in DOMAIN p : IsStatement(p[j])

-----------------------------------------------------------------------------
(* The parser.                                                             *)

NoOut == << >>
Stmt == prog[next]
NamesIn(p) == {p[j].name : j \in DOMAIN p}
                \cup UNION {{r.name : r \in Range(p[j].refs)} :
                              j \in {i \in DOMAIN p : p[i].do = "assign"}}
Declared(n, decls) == \E j \in DOMAIN decls : decls[j].name = n

\* tensor_map and scalar_map keep the last declaration of a name.
LastDecl(n, decls) == decls[Max({j \in DOMAIN decls : decls[j].name = n})]

Init ==
    /\ prog \in Programs
    /\ next = 1 /\ arg = 0
    /\ tensors = << >> /\ scalars = << >> /\ refs = << >> /\ leaves = << >>
    /\ refCount = [n \in NamesIn(prog) |-> 0]
    /\ out = NoOut /\ phase = "parse"

AtStmt(do) == phase = "parse" /\ arg = 0 /\ next <= Len(prog) /\ Stmt.do = do

Reject ==
    /\ phase' = "rejected"
    /\ UNCHANGED <<prog, next, arg, tensors, scalars, refs, leaves, refCount, out>>

MakeTensor ==
    /\ AtStmt("tensor") /\ Stmt.dims # << >>
    /\ tensors' = Append(tensors, Stmt) /\ next' = next + 1
    /\ UNCHANGED <<prog, arg, scalars, refs, leaves, refCount, out, phase>>

RejectTensor == AtStmt("tensor") /\ Stmt.dims = << >> /\ Reject

MakeScalar ==
    /\ AtStmt("scalar")
    /\ scalars' = Append(scalars, Stmt) /\ next' = next + 1
    /\ UNCHANGED <<prog, arg, tensors, refs, leaves, refCount, out, phase>>

\* parse_slicedim: bounds below zero count from the end; nothing else is checked.
Bound(b, omitted, size) == IF b = Open THEN omitted ELSE IF b < 0 THEN size + b ELSE b
SliceDim(s, size) == <<Bound(s.from, 0, size), Bound(s.to, size, size)>>

\* Slices written beyond the last dimension are of a dimension of size 1.
SliceList(slices, dims) ==
    [d \in DOMAIN slices |-> SliceDim(slices[d], IF d <= Len(dims) THEN dims[d] ELSE 1)]

\* Dimensions without a slice are taken whole.
Padded(slices, dims) ==
    SliceList(slices, dims)
      \o [d \in 1 .. Max({0, Len(dims) - Len(slices)}) |-> <<0, dims[Len(slices) + d]>>]

\* parse_output_assignment; a second expression and slices of an output that is
\* not declared are errors.
OutputOK == out = NoOut /\ (Stmt.slices # << >> => Declared(Stmt.name, tensors))

BeginAssign ==
    /\ AtStmt("assign") /\ OutputOK
    /\ out' = [name |-> Stmt.name, tree |-> Stmt.tree,
               slices |-> IF Stmt.slices = << >> THEN << >>
                          ELSE SliceList(Stmt.slices, LastDecl(Stmt.name, tensors).dims)]
    /\ arg' = 1
    /\ UNCHANGED <<prog, next, tensors, scalars, refs, leaves, refCount, phase>>

RejectAssign == AtStmt("assign") /\ ~OutputOK /\ Reject

InExpr == phase = "parse" /\ arg > 0
Ref == Stmt.refs[arg]

\* Mutant: the counter of references stays where it is.
TensorFactorUncounted ==
    /\ InExpr /\ arg <= Len(Stmt.refs) /\ Declared(Ref.name, tensors)
    /\ LET gen  == Append(Ref.name, refCount[Ref.name])
           decl == LastDecl(Ref.name, tensors)
       IN  /\ refs' = Append(refs, [base |-> Ref.name, gen |-> gen,
                        slices |-> Padded(Ref.slices, decl.dims)])
           /\ leaves' = Append(leaves, [kind |-> "tensor", name |-> gen, rank |-> Len(decl.dims),
                                     dtype |-> decl.dtype])
    /\ arg' = arg + 1
    /\ UNCHANGED <<prog, next, tensors, scalars, refCount, out, phase>>

\* parse_factor: a tensor gets a name of its own at every reference.
TensorFactor ==
    /\ InExpr /\ arg <= Len(Stmt.refs) /\ Declared(Ref.name, tensors)
    /\ LET gen  == Append(Ref.name, refCount[Ref.name])
           decl == LastDecl(Ref.name, tensors)
       IN  /\ refs' = Append(refs, [base |-> Ref.name, gen |-> gen,
                        slices |-> Padded(Ref.slices, decl.dims)])
           /\ leaves' = Append(leaves, [kind |-> "tensor", name |-> gen, rank |-> Len(decl.dims),
                                     dtype |-> decl.dtype])
    /\ refCount' = [refCount EXCEPT ![Ref.name] = @ + 1]
    /\ arg' = arg + 1
    /\ UNCHANGED <<prog, next, tensors, scalars, out, phase>>

ScalarFactor ==
    /\ InExpr /\ arg <= Len(Stmt.refs)
    /\ ~Declared(Ref.name, tensors) /\ Declared(Ref.name, scalars)
    /\ Ref.slices = << >>          \* a '[' after it would not parse
    /\ leaves' = Append(leaves, [kind |-> "scalar", name |-> Ref.name, rank |-> 0,
                                 dtype |-> LastDecl(Ref.name, scalars).dtype])
    /\ arg' = arg + 1
    /\ UNCHANGED <<prog, next, tensors, scalars, refs, refCount, out, phase>>

RejectFactor ==
    /\ InExpr /\ arg <= Len(Stmt.refs) /\ ~Declared(Ref.name, tensors)
    /\ Declared(Ref.name, scalars) => Ref.slices # << >>
    /\ Reject

EndAssign ==
    /\ InExpr /\ arg > Len(Stmt.refs)
    /\ arg' = 0 /\ next' = next + 1
    /\ UNCHANGED <<prog, tensors, scalars, refs, leaves, refCount, out, phase>>

-----------------------------------------------------------------------------
(* The compiler.                                                           *)

\* The tree with what its leaves are.
Tree == Labelled(out.tree, [l \in DOMAIN leaves |-> leaves[l].kind])

TensorLeaves == {l \in DOMAIN leaves : leaves[l].kind = "tensor"}

\* compatible_and_broadcast asks only for one dtype: the levels of a tensor of
\* rank r are d0 .. d(r - 1), so that those of two operands never conflict and
\* the one of lower rank is broadcast.
OneDtype == \A l, m \in DOMAIN leaves : leaves[l].dtype = leaves[m].dtype

\* KernelInfo has as many dimensions as the tensor written first, and each scalar
\* once.
D    == leaves[Min(TensorLeaves)].rank
Dims == 0 .. D - 1
ScalarsUsed == {leaves[l].name : l \in DOMAIN leaves \ TensorLeaves}

\* Mutant: the assertion of emit_preamble is missing.
RegistersFitB == Layout!RbFits(Cardinality(TensorLeaves), D)

\* The assertions of build_kernel and emit_preamble: pointers, starts, strides,
\* counts and scalars have a register each.
RegistersFit ==
    LET n == Cardinality(TensorLeaves)
    IN  Layout!RbFits(n, D) /\ Layout!RaFits(n, D, Cardinality(ScalarsUsed))

Compiles == out # NoOut /\ OneDtype /\ ~Flat!Rejected(Tree) /\ RegistersFit

AtEnd == phase = "parse" /\ arg = 0 /\ next > Len(prog)

Generate ==
    /\ AtEnd /\ Compiles
    /\ phase' = "generated"
    /\ UNCHANGED <<prog, next, arg, tensors, scalars, refs, leaves, refCount, out>>

RejectProgram == AtEnd /\ ~Compiles /\ Reject

Next == \/ MakeTensor \/ RejectTensor \/ MakeScalar
        \/ BeginAssign \/ RejectAssign
        \/ TensorFactor \/ ScalarFactor \/ RejectFactor \/ EndAssign
        \/ Generate \/ RejectProgram

Spec == Init /\ [][Next]_vars

-----------------------------------------------------------------------------
(* What the driver passes (generate_caller_code).  Dimension 0 is the      *)
(* innermost, as in KernelLayout; positions are in words of buf.           *)

\* slice_map and tensor_map: the reference and the declaration of a leaf.
RefOf(l)  == CHOOSE r \in Range(refs) : r.gen = leaves[l].name
DeclOf(l) == LastDecl(RefOf(l).base, tensors)

\* KernelInfo: the tensor the steps read first.
First == LET steps == Flat!Flatten(Tree)
         IN  steps[Min({j \in DOMAIN steps : steps[j].leaf \in TensorLeaves})].leaf

\* dim_size and slice_size, of the first tensor alone.
Dim(d)  == DeclOf(First).dims[D - d]
Extent(s) == s[2] - s[1]
Size(d) == IF D - d <= Len(RefOf(First).slices) THEN Extent(RefOf(First).slices[D - d]) ELSE Dim(d)

\* Mutant: the slices are taken innermost first.
StartInnermostFirst(slices, d) == IF d + 1 <= Len(slices) THEN slices[d + 1][1] ELSE 0
\* slice_start.
Start(slices, d) == IF D - d <= Len(slices) THEN slices[D - d][1] ELSE 0

Product(seq) ==
    LET upto[k \in 0 .. Len(seq)] == IF k = 0 THEN 1 ELSE upto[k - 1] * seq[k]
    IN  upto[Len(seq)]
Elems(n) == Product(LastDecl(n, tensors).dims)             \* the macro <n>_N
Before(j) ==
    LET upto[k \in 0 .. j - 1] == IF k = 0 THEN 0 ELSE upto[k - 1] + Elems(tensors[k].name)
    IN  upto[j - 1]

\* Mutant: the last element is counted too.
OutElemsInclusive == Product([d \in DOMAIN RefOf(First).slices |-> Extent(RefOf(First).slices[d]) + 1])

\* An output that is not declared has as many words as the first reference's
\* slices have elements, and comes last.
OutElems == Product([d \in DOMAIN RefOf(First).slices |-> Extent(RefOf(First).slices[d])])

\* Mutant: the output that is not declared is put where the last tensor is.
OffShort(n) == Before(IF Declared(n, tensors) THEN Max({j \in DOMAIN tensors : tensors[j].name = n})
                      ELSE Len(tensors))

\* The macros <n>_OFF.
Off(n) == Before(IF Declared(n, tensors) THEN Max({j \in DOMAIN tensors : tensors[j].name = n})
                 ELSE Len(tensors) + 1)

\* Mutant: slice_size where dim_size is meant.
StrideOfSlices(d) == Product([e \in 1 .. d |-> Size(e - 1)])
Stride(d) == Product([e \in 1 .. d |-> Dim(e - 1)])

\* The word the kernel reads or writes at index x of the loop nest (see
\* QpuKernelCorrect.ElementAt).
WordFor(base, slices, x) ==
    LET upto[k \in 0 .. D] == IF k = 0 THEN 0 ELSE
              upto[k - 1] + (Start(slices, k - 1) + x[k - 1]) * Stride(k - 1)
    IN  Off(base) + upto[D]
=============================================================================

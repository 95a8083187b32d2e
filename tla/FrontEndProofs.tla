---------------------------- MODULE FrontEndProofs ----------------------------
(***************************************************************************)
(* Theorems about FrontEnd, for any programs.                              *)
(*                                                                         *)
(* Until the end, the lists are what the statements before next make of    *)
(* them (DeclsOK, RefsOK, LeavesOK): declarations in order, references     *)
(* with names of their own, leaves with the kinds and types the program    *)
(* gives them.  So the checks at the end are about the program itself      *)
(* (Accepts).                                                              *)
(*                                                                         *)
(* Sums and products are recursive functions,                              *)
(* h[k] = h[k - 1] * a[k] + b[k] (Folds).  The kernel's sum over strides,  *)
(* innermost dimension first, is then the row-major position, outermost    *)
(* first, by Horner's rule; the position of an index inside the dimensions *)
(* is below their product; and the last element of a slice is below the    *)
(* product of its extents exactly when no row is left before it is full    *)
(* (PieceFits, FitsIsPiece).                                               *)
(***************************************************************************)
EXTENDS FrontEndCorrect, SequenceTheorems, FiniteSetTheorems, WellFoundedInduction, TLAPS

Shown == INSTANCE ExprFlattenProofs WITH Exprs <- {}, Envs <- {}, expr <- out,
             steps <- << >>, ip <- 0, acc <- << >>

-----------------------------------------------------------------------------
(* Sequences and largest members.                                          *)

LEMMA SeqIs ==
    ASSUME NEW s, IsSeq(s)
    PROVE  /\ Len(s) \in Nat /\ DOMAIN s = 1 .. Len(s)
           /\ s \in Seq(Range(s))
           /\ \A i \in 1 .. Len(s) : s[i] \in Range(s)
<1> DEFINE n == Len(s)
<1>1. n \in Nat /\ s = [i \in 1 .. n |-> s[i]]  BY DEF IsSeq
<1> HIDE DEF n
<1>2. DOMAIN s = 1 .. n  BY <1>1
<1>3. \A i \in 1 .. n : s[i] \in Range(s)  BY <1>2 DEF Range
<1>4. s \in [1 .. n -> Range(s)]  BY <1>1, <1>3
<1>5. s \in Seq(Range(s))  BY <1>1, <1>4
<1> QED  BY <1>1, <1>2, <1>3, <1>5 DEF n

LEMMA SeqIsSeq ==
    ASSUME NEW S, NEW s \in Seq(S)
    PROVE  IsSeq(s)
<1>1. s \in [1 .. Len(s) -> S] /\ Len(s) \in Nat  OBVIOUS
<1> QED  BY <1>1 DEF IsSeq

LEMMA AppendIs ==
    ASSUME NEW s, IsSeq(s), NEW x
    PROVE  /\ IsSeq(Append(s, x)) /\ Len(Append(s, x)) = Len(s) + 1
           /\ DOMAIN Append(s, x) = 1 .. Len(s) + 1
           /\ \A i \in 1 .. Len(s) : Append(s, x)[i] = s[i]
           /\ Append(s, x)[Len(s) + 1] = x
<1> DEFINE S == Range(s) \cup {x}
           t == Append(s, x)
<1>1. s \in Seq(S) /\ x \in S
  <2>1. s \in Seq(Range(s))  BY SeqIs
  <2> QED  BY <2>1
<1> HIDE DEF S
<1>2. t \in Seq(S) /\ Len(t) = Len(s) + 1 /\ t[Len(s) + 1] = x
      /\ \A i \in 1 .. Len(s) : t[i] = s[i]
  BY <1>1
<1> HIDE DEF t
<1>3. IsSeq(t) /\ DOMAIN t = 1 .. Len(t)  BY <1>2, SeqIsSeq
<1> QED  BY <1>2, <1>3 DEF t

\* A name with a number at its end tells both.
Alike(s, x, t, y) == Append(s, x) = Append(t, y)

LEMMA AppendTells ==
    ASSUME NEW s, NEW t, IsSeq(s), IsSeq(t), NEW x, NEW y, Alike(s, x, t, y)
    PROVE  s = t /\ x = y
<1> USE DEF Alike
<1>1. Len(s) = Len(t)
  <2>1. Len(s) + 1 = Len(t) + 1  BY AppendIs
  <2> QED  BY <2>1, SeqIs
<1>2. \A i \in 1 .. Len(s) : s[i] = t[i]  BY <1>1, AppendIs
<1>3. x = y  BY <1>1, AppendIs
<1>4. s = [i \in 1 .. Len(s) |-> s[i]] /\ t = [i \in 1 .. Len(s) |-> t[i]]  BY <1>1 DEF IsSeq
<1>5. [i \in 1 .. Len(s) |-> s[i]] = [i \in 1 .. Len(s) |-> t[i]]  BY <1>2
<1> QED  BY <1>3, <1>4, <1>5

LEMMA MaxIs ==
    ASSUME NEW S, S \subseteq Int, NEW m \in S, \A k \in S : k <= m
    PROVE  Max(S) = m
<1>1. \A k \in S : (\A j \in S : k >= j) => k = m  OBVIOUS
<1>2. \A j \in S : m >= j  OBVIOUS
<1> QED  BY <1>1, <1>2 DEF Max

LEMMA MaxOf ==
    ASSUME NEW n \in Int, NEW S, S \subseteq Nat, S # {}, \A k \in S : k <= n
    PROVE  Max(S) \in S /\ \A k \in S : k <= Max(S)
<1> DEFINE T == {n - k : k \in S}
<1>0. S \subseteq Int  OBVIOUS
<1>1. T \subseteq Nat /\ T # {}
  <2>1. \A k \in S : n - k \in Nat  OBVIOUS
  <2>2. PICK k \in S : TRUE  OBVIOUS
  <2>3. n - k \in T  BY <2>2
  <2> QED  BY <2>1, <2>3
<1>2. PICK t \in T : \A u \in T : t <= u
  <2> HIDE DEF T
  <2> QED  BY <1>1, Shown!LeastNumber
<1>3. PICK m \in S : t = n - m  BY <1>2
<1>4. \A k \in S : k <= m
  <2>1. ASSUME NEW k \in S PROVE k <= m
    <3>1. t <= n - k  BY <1>2
    <3> QED  BY <1>3, <3>1
  <2> QED  BY <2>1
<1> HIDE DEF T
<1>5. Max(S) = m  BY <1>0, <1>4, MaxIs
<1> QED  BY <1>4, <1>5

LEMMA MinOf ==
    ASSUME NEW S, S \subseteq Nat, S # {}
    PROVE  Min(S) \in S
<1>1. PICK m \in S : \A k \in S : m <= k  BY Shown!LeastNumber
<1> QED  BY <1>1 DEF Min

-----------------------------------------------------------------------------
(* Programs.                                                               *)

LEMMA ProgramIs ==
    ASSUME NEW p \in Programs
    PROVE  /\ Len(p) \in Nat /\ DOMAIN p = 1 .. Len(p) /\ p \in Seq(Range(p))
           /\ \A j \in 1 .. Len(p) : IsStatement(p[j])
BY ProgramsAssumption, SeqIs

LEMMA NamesAre ==
    ASSUME NEW p \in Programs
    PROVE  /\ \A j \in 1 .. Len(p) : p[j].name \in NamesIn(p)
           /\ \A j \in 1 .. Len(p) : p[j].do = "assign" =>
                \A k \in 1 .. Len(p[j].refs) : p[j].refs[k].name \in NamesIn(p)
           /\ \A n \in NamesIn(p) : IsSeq(n)
<1>1. \A j \in 1 .. Len(p) : p[j].name \in NamesIn(p)  BY ProgramIs DEF NamesIn
<1>2. ASSUME NEW j \in 1 .. Len(p), p[j].do = "assign"
      PROVE  IsSeq(p[j].refs) /\ \A k \in DOMAIN p[j].refs : IsRef(p[j].refs[k])
  BY <1>2, ProgramIs DEF IsStatement
<1>3. ASSUME NEW j \in 1 .. Len(p), p[j].do = "assign", NEW k \in 1 .. Len(p[j].refs)
      PROVE  p[j].refs[k].name \in NamesIn(p)
  <2>1. p[j].refs[k] \in Range(p[j].refs)  BY <1>2, <1>3, SeqIs
  <2>2. j \in {i \in DOMAIN p : p[i].do = "assign"}  BY <1>3, ProgramIs
  <2>3. p[j].refs[k].name \in {r.name : r \in Range(p[j].refs)}  BY <2>1
  <2> QED  BY <2>2, <2>3 DEF NamesIn
<1>4. ASSUME NEW n \in NamesIn(p) PROVE IsSeq(n)
  <2>1. CASE n \in {p[j].name : j \in DOMAIN p}
    <3>1. PICK j \in 1 .. Len(p) : n = p[j].name  BY <2>1, ProgramIs
    <3> QED  BY <3>1, ProgramIs DEF IsStatement
  <2>2. CASE ~(n \in {p[j].name : j \in DOMAIN p})
    <3>1. PICK j \in DOMAIN p : p[j].do = "assign" /\ n \in {r.name : r \in Range(p[j].refs)}
      BY <1>4, <2>2 DEF NamesIn
    <3>2. j \in 1 .. Len(p)  BY ProgramIs
    <3>3. PICK r \in Range(p[j].refs) : n = r.name  BY <3>1
    <3>4. PICK k \in DOMAIN p[j].refs : r = p[j].refs[k]  BY <3>3 DEF Range
    <3>5. IsRef(r)  BY <1>2, <3>1, <3>2, <3>4
    <3> QED  BY <3>3, <3>5 DEF IsRef
  <2> QED  BY <2>1, <2>2
<1> QED  BY <1>1, <1>3, <1>4

-----------------------------------------------------------------------------
(* Declarations: the list and the map of the parser hold what stands       *)
(* before the statement parsed next.                                       *)

LEMMA LastDeclared ==
    ASSUME NEW decls, IsSeq(decls), NEW n, Declared(n, decls)
    PROVE  \E j \in 1 .. Len(decls) : decls[j].name = n /\ LastDecl(n, decls) = decls[j]
<1> DEFINE S == {j \in DOMAIN decls : decls[j].name = n}
<1>1. DOMAIN decls = 1 .. Len(decls) /\ Len(decls) \in Nat  BY SeqIs
<1>2. S \subseteq Nat /\ (\A k \in S : k <= Len(decls)) /\ Len(decls) \in Int  BY <1>1
<1>3. S # {}  BY DEF Declared
<1>4. S \subseteq 1 .. Len(decls) /\ (\A k \in S : decls[k].name = n)  BY <1>1
<1>5. LastDecl(n, decls) = decls[Max(S)]  BY DEF LastDecl
<1> HIDE DEF S
<1>6. Max(S) \in S  BY <1>2, <1>3, MaxOf
<1> QED  BY <1>4, <1>5, <1>6

LEMMA AppendDeclared ==
    ASSUME NEW decls, IsSeq(decls), NEW st, NEW n
    PROVE  /\ Declared(n, Append(decls, st)) <=> Declared(n, decls) \/ st.name = n
           /\ st.name = n => LastDecl(n, Append(decls, st)) = st
           /\ st.name # n => LastDecl(n, Append(decls, st)) = LastDecl(n, decls)
                               \/ ~Declared(n, decls)
<1> DEFINE more == Append(decls, st)
           S == {j \in DOMAIN decls : decls[j].name = n}
           T == {j \in DOMAIN more : more[j].name = n}
           m == Len(decls)
<1>1. DOMAIN decls = 1 .. m /\ m \in Nat  BY SeqIs
<1>2. /\ DOMAIN more = 1 .. m + 1 /\ more[m + 1] = st
      /\ \A i \in 1 .. m : more[i] = decls[i]
  BY AppendIs
<1>3. LastDecl(n, more) = more[Max(T)] /\ LastDecl(n, decls) = decls[Max(S)]  BY DEF LastDecl
<1>4. \A j : j \in T <=> j \in S \/ (j = m + 1 /\ st.name = n)
  <2> HIDE DEF more, m
  <2>1. \A j : j \in 1 .. m + 1 <=> j \in 1 .. m \/ j = m + 1  BY <1>1
  <2> QED  BY <1>1, <1>2, <2>1
<1>5. S \subseteq 1 .. m  BY <1>1
<1>6. (Declared(n, more) <=> T # {}) /\ (Declared(n, decls) <=> S # {})  BY DEF Declared
<1> HIDE DEF more, S, T, m
<1>7. Declared(n, more) <=> Declared(n, decls) \/ st.name = n  BY <1>4, <1>6
<1>8. ASSUME st.name = n PROVE LastDecl(n, more) = st
  <2>1. m + 1 \in T  BY <1>4, <1>8
  <2>0. \A k \in T : k \in 1 .. m \/ k = m + 1  BY <1>4, <1>5
  <2>4. T \subseteq Int /\ \A k \in T : k <= m + 1  BY <1>1, <2>0
  <2>2. Max(T) = m + 1  BY <2>1, <2>4, MaxIs
  <2> QED  BY <1>2, <1>3, <2>2
<1>9. ASSUME st.name # n, Declared(n, decls) PROVE LastDecl(n, more) = LastDecl(n, decls)
  <2>1. T = S  BY <1>4, <1>9
  <2>2. S \subseteq Nat /\ m \in Int /\ (\A k \in S : k <= m) /\ S # {}
    BY <1>1, <1>5, <1>6, <1>9
  <2>3. Max(S) \in S  BY <2>2, MaxOf
  <2> QED  BY <1>2, <1>3, <1>5, <2>1, <2>3
<1> QED  BY <1>7, <1>8, <1>9 DEF more

LEMMA DeclarationsSame ==
    ASSUME NEW p, NEW a \in Nat, NEW do, NEW n, ~(p[a].do = do /\ p[a].name = n)
    PROVE  Declarations(p, a + 1, do, n) = Declarations(p, a, do, n)
<1>1. \A j : j \in 1 .. (a + 1) - 1 <=> j \in 1 .. a - 1 \/ (j = a /\ a >= 1)  OBVIOUS
<1> QED  BY <1>1 DEF Declarations

LEMMA DeclarationsMore ==
    ASSUME NEW p, NEW a \in Nat, a >= 1, NEW do, NEW n, p[a].do = do, p[a].name = n
    PROVE  Declarations(p, a + 1, do, n) # {} /\ Max(Declarations(p, a + 1, do, n)) = a
<1> DEFINE S == Declarations(p, a + 1, do, n)
<1>1. a \in S  BY DEF Declarations
<1>2. S \subseteq Int /\ \A k \in S : k <= a  BY DEF Declarations
<1> HIDE DEF S
<1>3. Max(S) = a  BY <1>1, <1>2, MaxIs
<1> QED  BY <1>1, <1>3 DEF S

\* decls are the declarations of kind do before statement a.
Matches(p, a, do, decls, n) ==
    /\ Declared(n, decls) <=> Declarations(p, a, do, n) # {}
    /\ Declared(n, decls) => LastDecl(n, decls) = p[Max(Declarations(p, a, do, n))]

Recorded(p, a, do, decls) ==
    /\ IsSeq(decls)
    /\ \A j \in 1 .. Len(decls) :
         /\ IsStatement(decls[j]) /\ decls[j].do = do
         /\ do = "tensor" => decls[j].dims # << >>
    /\ \A n \in NamesIn(p) : Matches(p, a, do, decls, n)

LEMMA RecordedSame ==
    ASSUME NEW p, NEW a \in Nat, NEW do, NEW decls, Recorded(p, a, do, decls), p[a].do # do
    PROVE  Recorded(p, a + 1, do, decls)
<1>1. ASSUME NEW n \in NamesIn(p) PROVE Matches(p, a + 1, do, decls, n)
  <2>1. Declarations(p, a + 1, do, n) = Declarations(p, a, do, n)  BY DeclarationsSame
  <2>2. Matches(p, a, do, decls, n)  BY DEF Recorded
  <2> QED  BY <2>1, <2>2 DEF Matches
<1> QED  BY <1>1 DEF Recorded

LEMMA RecordedMore ==
    ASSUME NEW p, NEW a \in Nat, a >= 1, NEW do, NEW decls, Recorded(p, a, do, decls),
           p[a].do = do, IsStatement(p[a]), do = "tensor" => p[a].dims # << >>
    PROVE  Recorded(p, a + 1, do, Append(decls, p[a]))
<1> DEFINE st == p[a]
           more == Append(decls, st)
<1>1. IsSeq(decls)  BY DEF Recorded
<1>2. /\ IsSeq(more) /\ Len(more) = Len(decls) + 1 /\ Len(decls) \in Nat
      /\ more[Len(decls) + 1] = st /\ \A i \in 1 .. Len(decls) : more[i] = decls[i]
  BY <1>1, AppendIs, SeqIs
<1>3. ASSUME NEW j \in 1 .. Len(more)
      PROVE  /\ IsStatement(more[j]) /\ more[j].do = do
             /\ do = "tensor" => more[j].dims # << >>
  <2>1. CASE j \in 1 .. Len(decls)  BY <1>2, <2>1 DEF Recorded
  <2>2. CASE ~(j \in 1 .. Len(decls))
    <3>1. j = Len(decls) + 1  BY <1>2, <2>2
    <3> QED  BY <1>2, <3>1
  <2> QED  BY <2>1, <2>2
<1>4. ASSUME NEW n \in NamesIn(p) PROVE Matches(p, a + 1, do, more, n)
  <2>1. CASE st.name = n
    <3>1. Declared(n, more) /\ LastDecl(n, more) = st  BY <1>1, <2>1, AppendDeclared
    <3>2. Declarations(p, a + 1, do, n) # {} /\ Max(Declarations(p, a + 1, do, n)) = a
      BY <2>1, DeclarationsMore
    <3> QED  BY <3>1, <3>2 DEF Matches
  <2>2. CASE st.name # n
    <3>1. /\ Declared(n, more) <=> Declared(n, decls)
          /\ Declared(n, decls) => LastDecl(n, more) = LastDecl(n, decls)
      BY <1>1, <2>2, AppendDeclared
    <3>2. Declarations(p, a + 1, do, n) = Declarations(p, a, do, n)  BY <2>2, DeclarationsSame
    <3>3. Matches(p, a, do, decls, n)  BY DEF Recorded
    <3> QED  BY <3>1, <3>2, <3>3 DEF Matches
  <2> QED  BY <2>1, <2>2
<1> QED  BY <1>2, <1>3, <1>4 DEF Recorded

\* A tensor's declaration has dimensions.
LEMMA TensorDeclared ==
    ASSUME NEW p, NEW a, NEW decls, Recorded(p, a, "tensor", decls), NEW n, Declared(n, decls)
    PROVE  LastDecl(n, decls).dims \in Seq(Int) /\ LastDecl(n, decls).dims # << >>
<1>1. PICK j \in 1 .. Len(decls) : LastDecl(n, decls) = decls[j]
  BY LastDeclared DEF Recorded
<1>2. IsStatement(decls[j]) /\ decls[j].do = "tensor" /\ decls[j].dims # << >>
  BY DEF Recorded
<1> QED  BY <1>1, <1>2 DEF IsStatement

-----------------------------------------------------------------------------
(* Slices.                                                                 *)

LEMMA BoundInt ==
    ASSUME NEW b \in Int \cup {Open}, NEW omitted \in Int, NEW size \in Int
    PROVE  Bound(b, omitted, size) \in Int
BY ProgramsAssumption DEF Bound

LEMMA SliceListIs ==
    ASSUME NEW r, IsRef(r), NEW dims \in Seq(Int)
    PROVE  SliceList(r.slices, dims) \in Seq(Int \X Int)
<1> DEFINE s == r.slices
<1>1. IsSeq(s) /\ \A d \in DOMAIN s : IsSlice(s[d])  BY DEF IsRef
<1> HIDE DEF s
<1>2. DOMAIN s = 1 .. Len(s) /\ Len(s) \in Nat  BY <1>1, SeqIs
<1>3. ASSUME NEW d \in 1 .. Len(s), NEW size \in Int PROVE SliceDim(s[d], size) \in Int \X Int
  <2>1. s[d].from \in Int \cup {Open} /\ s[d].to \in Int \cup {Open}
    BY <1>1, <1>2 DEF IsSlice
  <2>2. Bound(s[d].from, 0, size) \in Int
    <3> DEFINE b == s[d].from
    <3>1. b \in Int \cup {Open} /\ 0 \in Int  BY <2>1
    <3> HIDE DEF b
    <3> QED  BY <3>1, BoundInt DEF b
  <2>3. Bound(s[d].to, size, size) \in Int
    <3> DEFINE b == s[d].to
    <3>1. b \in Int \cup {Open}  BY <2>1
    <3> HIDE DEF b
    <3> QED  BY <3>1, BoundInt DEF b
  <2> QED  BY <2>2, <2>3 DEF SliceDim
<1>4. \A d \in 1 .. Len(s) : (IF d <= Len(dims) THEN dims[d] ELSE 1) \in Int  OBVIOUS
<1>5. \A d \in 1 .. Len(s) : SliceDim(s[d], IF d <= Len(dims) THEN dims[d] ELSE 1) \in Int \X Int
  BY <1>3, <1>4
<1>6. SliceList(s, dims) \in [1 .. Len(s) -> Int \X Int]  BY <1>2, <1>5 DEF SliceList
<1>7. SliceList(s, dims) \in Seq(Int \X Int)  BY <1>2, <1>6
<1> QED  BY <1>7 DEF s

LEMMA PaddedIs ==
    ASSUME NEW r, IsRef(r), NEW dims \in Seq(Int)
    PROVE  Padded(r.slices, dims) \in Seq(Int \X Int)
<1> DEFINE s == r.slices
           m == Max({0, Len(dims) - Len(s)})
           rest == [d \in 1 .. m |-> <<0, dims[Len(s) + d]>>]
<1>1. Len(s) \in Nat  BY SeqIs DEF IsRef
<1> HIDE DEF s
<1>2. m \in Nat /\ (m = 0 \/ m = Len(dims) - Len(s))
  <2> DEFINE S == {0, Len(dims) - Len(s)}
  <2>1. S \subseteq Int  BY <1>1
  <2>2. CASE Len(dims) - Len(s) >= 0
    <3>1. \A k \in S : k <= Len(dims) - Len(s)  BY <1>1, <2>2
    <3>2. Max(S) = Len(dims) - Len(s)
      <4>1. Len(dims) - Len(s) \in S  OBVIOUS
      <4> HIDE DEF S
      <4> QED  BY <2>1, <3>1, <4>1, MaxIs
    <3> QED  BY <1>1, <2>2, <3>2
  <2>3. CASE ~(Len(dims) - Len(s) >= 0)
    <3>1. \A k \in S : k <= 0  BY <1>1, <2>3
    <3>2. Max(S) = 0
      <4>1. 0 \in S  OBVIOUS
      <4> HIDE DEF S
      <4> QED  BY <2>1, <3>1, <4>1, MaxIs
    <3> QED  BY <3>2
  <2> QED  BY <2>2, <2>3
<1> HIDE DEF m
<1>3. \A d \in 1 .. m : Len(s) + d \in 1 .. Len(dims)  BY <1>1, <1>2
<1>4. \A d \in 1 .. m : dims[Len(s) + d] \in Int  BY <1>3
<1>5. rest \in [1 .. m -> Int \X Int]  BY <1>4
<1>6. rest \in Seq(Int \X Int)
  <2> HIDE DEF rest
  <2> QED  BY <1>2, <1>5
<1>7. SliceList(s, dims) \in Seq(Int \X Int)  BY SliceListIs DEF s
<1>8. Padded(s, dims) = SliceList(s, dims) \o rest  BY DEF Padded, m
<1> HIDE DEF rest
<1>9. Padded(s, dims) \in Seq(Int \X Int)  BY <1>6, <1>7, <1>8
<1> QED  BY <1>9 DEF s

-----------------------------------------------------------------------------
(* The invariant.                                                          *)

\* The statements begun are those up to Begun ...
Begun == IF arg > 0 THEN next ELSE next - 1

Assigns(p, m) == {j \in 1 .. m : p[j].do = "assign"}

\* ... and of the references of assignment a so many are read.
Read(a) == IF arg > 0 THEN arg - 1 ELSE Len(prog[a].refs)

PlaceOK ==
    /\ prog \in Programs /\ phase \in {"parse", "rejected", "generated"}
    /\ next \in 1 .. Len(prog) + 1 /\ arg \in Nat
    /\ arg > 0 => /\ next <= Len(prog) /\ Stmt.do = "assign"
                  /\ arg <= Len(Stmt.refs) + 1 /\ out # NoOut
    /\ \A j \in 1 .. next - 1 : prog[j].do = "tensor" => prog[j].dims # << >>

DeclsOK == Recorded(prog, next, "tensor", tensors) /\ Recorded(prog, next, "scalar", scalars)

\* A reference with what it was generated from.
RefIs(names, r, count, decls) ==
    /\ r.base \in names /\ Declared(r.base, decls)
    /\ r.slices \in Seq(Int \X Int)
    /\ \E c \in Nat : c < count[r.base] /\ r.gen = Append(r.base, c)

Gens(rs) == {rs[j].gen : j \in 1 .. Len(rs)}
RefsTo(rs, n) == {j \in 1 .. Len(rs) : rs[j].base = n}

\* References to names, each with a name of its own, and their counters.
RefsAre(names, rs, count, decls) ==
    /\ IsSeq(rs) /\ count \in [names -> Nat]
    /\ \A n \in names : count[n] = Cardinality(RefsTo(rs, n))
    /\ \A j \in 1 .. Len(rs) : RefIs(names, rs[j], count, decls)
    /\ IsFiniteSet(Gens(rs)) /\ Cardinality(Gens(rs)) = Len(rs)

RefsOK == RefsAre(NamesIn(prog), refs, refCount, tensors)

\* A leaf with the reference it was made from, number k of assignment a.
LeafIs(p, a, k, leaf, rs) ==
    /\ KnownRef(p, a, p[a].refs[k])
    /\ leaf.kind \in {"tensor", "scalar"} /\ leaf.rank \in Nat
    /\ leaf.kind = Resolved(p, a, p[a].refs[k].name).do
    /\ leaf.dtype = Resolved(p, a, p[a].refs[k].name).dtype
    /\ leaf.kind = "tensor" =>
         /\ leaf.rank = Len(Resolved(p, a, p[a].refs[k].name).dims)
         /\ \E j \in 1 .. Len(rs) : rs[j].gen = leaf.name
    /\ leaf.kind = "scalar" => leaf.name = p[a].refs[k].name

\* Assignment a is the one begun, and read so far.
AssignIs(a) ==
    /\ a \in 1 .. Len(prog) /\ Assigns(prog, Begun) = {a}
    /\ out.name = prog[a].name /\ out.tree = prog[a].tree /\ out.slices \in Seq(Int \X Int)
    /\ prog[a].slices # << >> => Declarations(prog, a, "tensor", prog[a].name) # {}
    /\ Len(leaves) = Read(a)
    /\ \A k \in 1 .. Read(a) : LeafIs(prog, a, k, leaves[k], refs)

LeavesOK ==
    /\ IsSeq(leaves)
    /\ out = NoOut => Assigns(prog, Begun) = {} /\ leaves = << >>
    /\ out # NoOut => \E a \in 1 .. Len(prog) : AssignIs(a)

OutcomeOK ==
    /\ AcceptsWellFormed
    /\ Generated => out # NoOut /\ arg = 0 /\ next = Len(prog) + 1 /\ Compiles

Inv == PlaceOK /\ DeclsOK /\ RefsOK /\ LeavesOK /\ OutcomeOK

-----------------------------------------------------------------------------
(* Places and declarations.                                                *)

LEMMA InitInv == Init => Inv
<1> SUFFICES ASSUME Init PROVE Inv  OBVIOUS
<1>0. Len(prog) \in Nat  BY ProgramIs DEF Init
<1>1. PlaceOK  BY <1>0 DEF Init, PlaceOK
<1>2. ASSUME NEW do PROVE Recorded(prog, next, do, << >>)
  <2>1. IsSeq(<< >>)  BY DEF IsSeq
  <2>2. \A n : ~Declared(n, << >>) /\ Declarations(prog, 1, do, n) = {}
    BY DEF Declared, Declarations
  <2> QED  BY <2>1, <2>2 DEF Init, Recorded, Matches
<1>3. DeclsOK  BY <1>2 DEF Init, DeclsOK
<1>4. RefsOK
  <2>1. IsSeq(<< >>)  BY DEF IsSeq
  <2>2. Gens(<< >>) = {} /\ \A n : RefsTo(<< >>, n) = {}  BY DEF Gens, RefsTo
  <2>3. IsFiniteSet({}) /\ Cardinality({}) = 0  BY FS_EmptySet
  <2>4. refCount \in [NamesIn(prog) -> Nat]  BY DEF Init
  <2>5. \A n \in NamesIn(prog) : refCount[n] = 0  BY DEF Init
  <2>6. refs = << >> /\ Len(<< >>) = 0  BY DEF Init
  <2>7. \A n \in NamesIn(prog) : refCount[n] = Cardinality(RefsTo(<< >>, n))
    BY <2>2, <2>3, <2>5
  <2>8. \A j \in 1 .. Len(<< >>) : FALSE  BY <2>6
  <2> QED  BY <2>1, <2>2, <2>3, <2>4, <2>6, <2>7, <2>8 DEF RefsOK, RefsAre
<1>5. LeavesOK
  <2>1. IsSeq(<< >>)  BY DEF IsSeq
  <2>2. Assigns(prog, Begun) = {}  BY DEF Init, Begun, Assigns
  <2> QED  BY <2>1, <2>2 DEF Init, LeavesOK
<1>6. OutcomeOK  BY DEF Init, OutcomeOK, AcceptsWellFormed, Generated
<1> QED  BY <1>1, <1>3, <1>4, <1>5, <1>6 DEF Inv

\* The statement parsed, and the reference.
LEMMA StmtIs ==
    ASSUME PlaceOK, next <= Len(prog)
    PROVE  /\ Len(prog) \in Nat /\ next \in 1 .. Len(prog) /\ IsStatement(Stmt) /\ Stmt = prog[next]
           /\ Stmt.name \in NamesIn(prog)
           /\ Stmt.do = "assign" =>
                /\ IsRef(Stmt) /\ Len(Stmt.refs) \in Nat
                /\ \A k \in 1 .. Len(Stmt.refs) :
                     IsRef(Stmt.refs[k]) /\ Stmt.refs[k].name \in NamesIn(prog)
<1>1. prog \in Programs /\ next \in 1 .. Len(prog) /\ Len(prog) \in Nat
  BY ProgramIs DEF PlaceOK
<1>2. IsStatement(Stmt) /\ Stmt = prog[next] /\ Stmt.name \in NamesIn(prog)
  BY <1>1, ProgramIs, NamesAre DEF Stmt
<1>3. ASSUME Stmt.do = "assign"
      PROVE  /\ IsRef(Stmt) /\ Len(Stmt.refs) \in Nat
             /\ \A k \in 1 .. Len(Stmt.refs) :
                  IsRef(Stmt.refs[k]) /\ Stmt.refs[k].name \in NamesIn(prog)
  <2>1. IsRef(Stmt) /\ IsSeq(Stmt.refs) /\ \A k \in DOMAIN Stmt.refs : IsRef(Stmt.refs[k])
    BY <1>2, <1>3 DEF IsStatement
  <2>2. DOMAIN Stmt.refs = 1 .. Len(Stmt.refs) /\ Len(Stmt.refs) \in Nat  BY <2>1, SeqIs
  <2>3. \A k \in 1 .. Len(Stmt.refs) : Stmt.refs[k].name \in NamesIn(prog)
    BY <1>1, <1>2, <1>3, NamesAre
  <2> QED  BY <2>1, <2>2, <2>3
<1> QED  BY <1>1, <1>2, <1>3

LEMMA StepPlace == Inv /\ [Next]_vars => PlaceOK'
<1> SUFFICES ASSUME Inv, [Next]_vars PROVE PlaceOK'  OBVIOUS
<1>0. PlaceOK /\ Len(prog) \in Nat  BY ProgramIs DEF Inv, PlaceOK
<1>1. CASE UNCHANGED vars  BY <1>0, <1>1 DEF PlaceOK, vars, Stmt
<1>2. ASSUME NEW do \in {"tensor", "scalar"}, AtStmt(do), next' = next + 1,
             UNCHANGED <<prog, arg, phase>>, do = "tensor" => Stmt.dims # << >>
      PROVE  PlaceOK'
  <2>1. \A j \in 1 .. (next + 1) - 1 : prog[j].do = "tensor" => prog[j].dims # << >>
    <3>1. \A j \in 1 .. (next + 1) - 1 : j \in 1 .. next - 1 \/ j = next
      BY <1>0 DEF PlaceOK
    <3> QED  BY <1>0, <1>2, <3>1 DEF PlaceOK, AtStmt, Stmt
  <2>2. next + 1 \in 1 .. Len(prog) + 1 /\ ~(arg > 0)  BY <1>0, <1>2 DEF PlaceOK, AtStmt
  <2> QED  BY <1>0, <1>2, <2>1, <2>2 DEF PlaceOK
<1>3. CASE MakeTensor  BY <1>2, <1>3 DEF MakeTensor
<1>4. CASE MakeScalar  BY <1>2, <1>4 DEF MakeScalar
<1>5. CASE BeginAssign
  <2>1. next <= Len(prog) /\ Stmt.do = "assign"  BY <1>5 DEF BeginAssign, AtStmt
  <2>2. Len(Stmt.refs) \in Nat  BY <1>0, <2>1, StmtIs
  <2>3. out' # NoOut
    <3>1. "name" \in DOMAIN out'  BY <1>5 DEF BeginAssign
    <3> QED  BY <3>1 DEF NoOut
  <2> QED  BY <1>0, <1>5, <2>1, <2>2, <2>3 DEF BeginAssign, PlaceOK, Stmt
<1>6. ASSUME InExpr, arg <= Len(Stmt.refs), arg' = arg + 1, UNCHANGED <<prog, next, phase, out>>
      PROVE  PlaceOK'
  <2>1. next <= Len(prog) /\ Stmt.do = "assign" /\ out # NoOut  BY <1>0, <1>6 DEF InExpr, PlaceOK
  <2>2. Len(Stmt.refs) \in Nat  BY <1>0, <2>1, StmtIs
  <2> QED  BY <1>0, <1>6, <2>1, <2>2 DEF PlaceOK, Stmt
<1>7. CASE TensorFactor  BY <1>6, <1>7 DEF TensorFactor
<1>8. CASE ScalarFactor  BY <1>6, <1>8 DEF ScalarFactor
<1>9. CASE EndAssign
  <2>1. next \in 1 .. Len(prog) /\ prog[next].do = "assign"
    BY <1>0, <1>9 DEF EndAssign, InExpr, PlaceOK, Stmt
  <2>2. \A j \in 1 .. (next + 1) - 1 : j \in 1 .. next - 1 \/ j = next  BY <2>1
  <2>3. \A j \in 1 .. (next + 1) - 1 : prog[j].do = "tensor" => prog[j].dims # << >>
    BY <1>0, <2>1, <2>2 DEF PlaceOK
  <2> QED  BY <1>0, <1>9, <2>1, <2>3 DEF EndAssign, PlaceOK
<1>10. CASE Generate  BY <1>0, <1>10 DEF Generate, PlaceOK, Stmt
<1>11. ASSUME Reject PROVE PlaceOK'  BY <1>0, <1>11 DEF Reject, PlaceOK, Stmt
<1> QED
  BY <1>1, <1>3, <1>4, <1>5, <1>7, <1>8, <1>9, <1>10, <1>11
  DEF Next, RejectTensor, RejectAssign, RejectFactor, RejectProgram

LEMMA StepDecls == Inv /\ [Next]_vars => DeclsOK'
<1> SUFFICES ASSUME Inv, [Next]_vars PROVE DeclsOK'  OBVIOUS
<1>0. /\ PlaceOK /\ next \in Nat /\ next >= 1
      /\ Recorded(prog, next, "tensor", tensors) /\ Recorded(prog, next, "scalar", scalars)
  BY DEF Inv, PlaceOK, DeclsOK
<1>1. ASSUME UNCHANGED <<prog, next, tensors, scalars>> PROVE DeclsOK'
  BY <1>0, <1>1 DEF DeclsOK
<1>2. CASE MakeTensor
  <2>1. prog[next].do = "tensor" /\ prog[next].dims # << >> /\ next <= Len(prog)
    BY <1>2 DEF MakeTensor, AtStmt, Stmt
  <2>2. IsStatement(prog[next])  BY <1>0, <2>1, StmtIs DEF Stmt
  <2>3. Recorded(prog, next + 1, "tensor", Append(tensors, prog[next]))
    BY <1>0, <2>1, <2>2, RecordedMore
  <2>4. Recorded(prog, next + 1, "scalar", scalars)  BY <1>0, <2>1, RecordedSame
  <2> QED  BY <1>2, <2>3, <2>4 DEF MakeTensor, DeclsOK, Stmt
<1>3. CASE MakeScalar
  <2>1. prog[next].do = "scalar" /\ next <= Len(prog)  BY <1>3 DEF MakeScalar, AtStmt, Stmt
  <2>2. IsStatement(prog[next])  BY <1>0, <2>1, StmtIs DEF Stmt
  <2>3. Recorded(prog, next + 1, "scalar", Append(scalars, prog[next]))
    BY <1>0, <2>1, <2>2, RecordedMore
  <2>4. Recorded(prog, next + 1, "tensor", tensors)  BY <1>0, <2>1, RecordedSame
  <2> QED  BY <1>3, <2>3, <2>4 DEF MakeScalar, DeclsOK, Stmt
<1>4. CASE EndAssign
  <2>1. prog[next].do = "assign"  BY <1>0, <1>4 DEF EndAssign, InExpr, PlaceOK, Stmt
  <2>2. Recorded(prog, next + 1, "scalar", scalars)  BY <1>0, <2>1, RecordedSame
  <2>3. Recorded(prog, next + 1, "tensor", tensors)  BY <1>0, <2>1, RecordedSame
  <2> QED  BY <1>4, <2>2, <2>3 DEF EndAssign, DeclsOK
<1>5. CASE BeginAssign  BY <1>1, <1>5 DEF BeginAssign
<1>6. CASE TensorFactor  BY <1>1, <1>6 DEF TensorFactor
<1>7. CASE ScalarFactor  BY <1>1, <1>7 DEF ScalarFactor
<1>8. CASE Generate  BY <1>1, <1>8 DEF Generate
<1>9. ASSUME Reject PROVE DeclsOK'  BY <1>1, <1>9 DEF Reject
<1>10. CASE UNCHANGED vars  BY <1>1, <1>10 DEF vars
<1> QED
  BY <1>2, <1>3, <1>4, <1>5, <1>6, <1>7, <1>8, <1>9, <1>10
  DEF Next, RejectTensor, RejectAssign, RejectFactor, RejectProgram

-----------------------------------------------------------------------------
(* References.                                                             *)

LEMMA DeclaredMore ==
    ASSUME NEW decls, IsSeq(decls), NEW st, NEW n, Declared(n, decls)
    PROVE  Declared(n, Append(decls, st))
BY AppendDeclared

\* The references are what they were when declarations are added.
LEMMA RefsKept ==
    ASSUME NEW names, NEW rs, NEW count, NEW decls, NEW later, RefsAre(names, rs, count, decls),
           \A n \in names : Declared(n, decls) => Declared(n, later)
    PROVE  RefsAre(names, rs, count, later)
<1>1. \A r : RefIs(names, r, count, decls) => RefIs(names, r, count, later)  BY DEF RefIs
<1> QED  BY <1>1 DEF RefsAre

\* One more reference, with a name of its own.
LEMMA RefsMore ==
    ASSUME NEW names, NEW rs, NEW count, NEW decls, RefsAre(names, rs, count, decls),
           NEW n \in names, \A k \in names : IsSeq(k), Declared(n, decls),
           NEW r, r.base = n, r.gen = Append(n, count[n]), r.slices \in Seq(Int \X Int)
    PROVE  RefsAre(names, Append(rs, r), [count EXCEPT ![n] = @ + 1], decls)
<1> DEFINE more == Append(rs, r)
           up == [count EXCEPT ![n] = @ + 1]
           m == Len(rs)
<1>1. IsSeq(rs) /\ m \in Nat  BY SeqIs DEF RefsAre
<1>3. /\ count \in [names -> Nat] /\ up \in [names -> Nat]
      /\ up[n] = count[n] + 1 /\ count[n] \in Nat
      /\ \A k \in names : k # n => up[k] = count[k]
  BY DEF RefsAre
<1> HIDE DEF up
<1>4. IsSeq(more) /\ Len(more) = m + 1 /\ more[m + 1] = r /\ \A i \in 1 .. m : more[i] = rs[i]
  BY <1>1, AppendIs
<1> HIDE DEF more, m
<1>0. \A j : j \in 1 .. m + 1 <=> j \in 1 .. m \/ j = m + 1  BY <1>1
<1>5. ASSUME NEW j \in 1 .. m + 1 PROVE RefIs(names, more[j], up, decls)
  <2>1. CASE j \in 1 .. m
    <3> DEFINE b == rs[j].base
    <3>1. RefIs(names, rs[j], count, decls)  BY <2>1 DEF RefsAre, m
    <3>2. b \in names  BY <3>1 DEF RefIs
    <3>3. PICK c \in Nat : c < count[b] /\ rs[j].gen = Append(b, c)  BY <3>1 DEF RefIs
    <3>4. c < up[b]
      <4> HIDE DEF b
      <4>1. count[b] \in Nat /\ up[b] \in Nat  BY <1>3, <3>2
      <4>2. up[b] = count[b] \/ up[b] = count[b] + 1  BY <1>3, <3>2
      <4> QED  BY <3>3, <4>1, <4>2
    <3>5. more[j] = rs[j]  BY <1>4, <2>1
    <3> QED  BY <3>1, <3>3, <3>4, <3>5 DEF RefIs
  <2>2. CASE ~(j \in 1 .. m)
    <3>1. more[j] = r  BY <1>0, <1>4, <2>2
    <3>2. count[n] < up[n] /\ count[n] \in Nat  BY <1>3
    <3> QED  BY <3>1, <3>2 DEF RefIs
  <2> QED  BY <2>1, <2>2
<1>6. ASSUME NEW k \in names PROVE up[k] = Cardinality(RefsTo(more, k))
  <2>1. RefsTo(rs, k) \subseteq 1 .. m  BY DEF RefsTo, m
  <2>2. IsFiniteSet(1 .. m)  BY <1>1, FS_Interval
  <2>3. IsFiniteSet(RefsTo(rs, k))  BY <2>1, <2>2, FS_Subset
  <2>4. count[k] = Cardinality(RefsTo(rs, k))  BY DEF RefsAre
  <2>5. CASE k = n
    <3>1. RefsTo(more, k) = RefsTo(rs, k) \cup {m + 1}
      BY <1>0, <1>4, <2>5 DEF RefsTo, m
    <3>2. m + 1 \notin RefsTo(rs, k)  BY <1>1, <2>1
    <3>3. Cardinality(RefsTo(more, k)) = Cardinality(RefsTo(rs, k)) + 1
      BY <2>3, <3>1, <3>2, FS_AddElement
    <3> QED  BY <1>3, <2>4, <2>5, <3>3
  <2>6. CASE k # n
    <3>1. RefsTo(more, k) = RefsTo(rs, k)  BY <1>0, <1>4, <2>6 DEF RefsTo, m
    <3> QED  BY <1>3, <2>4, <2>6, <3>1
  <2> QED  BY <2>5, <2>6
<1>7. Gens(more) = Gens(rs) \cup {r.gen}
  <2>1. ASSUME NEW g \in Gens(more) PROVE g \in Gens(rs) \cup {r.gen}
    <3>1. PICK j \in 1 .. m + 1 : g = more[j].gen  BY <1>4, <2>1 DEF Gens
    <3> QED  BY <1>0, <1>4, <3>1 DEF Gens, m
  <2>2. ASSUME NEW g \in Gens(rs) PROVE g \in Gens(more)
    <3>1. PICK j \in 1 .. m : g = rs[j].gen  BY <2>2 DEF Gens, m
    <3>2. j \in 1 .. Len(more) /\ more[j] = rs[j]  BY <1>0, <1>4, <3>1
    <3> QED  BY <3>1, <3>2 DEF Gens
  <2>3. r.gen \in Gens(more)
    <3>1. m + 1 \in 1 .. Len(more)  BY <1>1, <1>4
    <3> QED  BY <1>4, <3>1 DEF Gens
  <2> QED  BY <2>1, <2>2, <2>3
<1>8. r.gen \notin Gens(rs)
  <2>1. SUFFICES ASSUME r.gen \in Gens(rs) PROVE FALSE  OBVIOUS
  <2>2. PICK j \in 1 .. m : r.gen = rs[j].gen  BY <2>1 DEF Gens, m
  <2> DEFINE b == rs[j].base
  <2>3. RefIs(names, rs[j], count, decls)  BY DEF RefsAre, m
  <2>4. PICK c \in Nat : c < count[b] /\ r.gen = Append(b, c)  BY <2>2, <2>3 DEF RefIs
  <2>5. IsSeq(b) /\ IsSeq(n)  BY <2>3 DEF RefIs
  <2>6. Append(n, count[n]) = Append(b, c)  BY <2>4
  <2>7. n = b /\ count[n] = c
    <3> DEFINE x == count[n]
    <3>1. IsSeq(b) /\ IsSeq(n) /\ Alike(n, x, b, c)  BY <2>5, <2>6 DEF Alike
    <3> HIDE DEF b, x
    <3>2. n = b /\ x = c  BY <3>1, AppendTells
    <3> QED  BY <3>2 DEF x
  <2> HIDE DEF b
  <2> QED  BY <1>3, <2>4, <2>7
<1>9. IsFiniteSet(Gens(more)) /\ Cardinality(Gens(more)) = m + 1
  <2>1. IsFiniteSet(Gens(rs)) /\ Cardinality(Gens(rs)) = m  BY DEF RefsAre, m
  <2> QED  BY <1>7, <1>8, <2>1, FS_AddElement
<1>10. RefsAre(names, more, up, decls)  BY <1>3, <1>4, <1>5, <1>6, <1>9 DEF RefsAre
<1> QED  BY <1>10 DEF more, up

LEMMA StepRefs == Inv /\ [Next]_vars => RefsOK'
<1> SUFFICES ASSUME Inv, [Next]_vars PROVE RefsOK'  OBVIOUS
<1>0. /\ PlaceOK /\ RefsOK /\ prog \in Programs
      /\ Recorded(prog, next, "tensor", tensors)
  BY DEF Inv, PlaceOK, DeclsOK
<1>1. ASSUME UNCHANGED <<prog, tensors, refs, refCount>> PROVE RefsOK'
  BY <1>0, <1>1 DEF RefsOK
<1>2. CASE MakeTensor
  <2>1. tensors' = Append(tensors, Stmt) /\ UNCHANGED <<prog, refs, refCount>>
    BY <1>2 DEF MakeTensor
  <2>2. \A n : Declared(n, tensors) => Declared(n, Append(tensors, Stmt))
    BY <1>0, DeclaredMore DEF Recorded
  <2>3. RefsAre(NamesIn(prog), refs, refCount, Append(tensors, Stmt))
    BY <1>0, <2>2, RefsKept DEF RefsOK
  <2> QED  BY <2>1, <2>3 DEF RefsOK
<1>3. CASE TensorFactor
  <2> DEFINE n == Ref.name
             dims == LastDecl(n, tensors).dims
             slices == Padded(Ref.slices, dims)
  <2>1. next <= Len(prog) /\ Stmt.do = "assign" /\ arg \in 1 .. Len(Stmt.refs)
        /\ Declared(n, tensors)
    <3>1. arg > 0 /\ arg \in Nat /\ arg <= Len(Stmt.refs)
      BY <1>0, <1>3 DEF TensorFactor, InExpr, PlaceOK
    <3>2. next <= Len(prog) /\ Stmt.do = "assign"  BY <1>0, <3>1 DEF PlaceOK
    <3>3. Len(Stmt.refs) \in Nat  BY <1>0, <3>2, StmtIs
    <3> QED  BY <1>3, <3>1, <3>2, <3>3 DEF TensorFactor
  <2>2. IsRef(Ref) /\ n \in NamesIn(prog)  BY <1>0, <2>1, StmtIs DEF Ref
  <2>3. \A m \in NamesIn(prog) : IsSeq(m)  BY <1>0, NamesAre
  <2>4. dims \in Seq(Int)  BY <1>0, <2>1, TensorDeclared
  <2>5. slices \in Seq(Int \X Int)
    <3> HIDE DEF dims
    <3> QED  BY <2>2, <2>4, PaddedIs
  <2> DEFINE r == [base |-> n, gen |-> Append(n, refCount[n]), slices |-> slices]
  <2>6. /\ refs' = Append(refs, r) /\ refCount' = [refCount EXCEPT ![n] = @ + 1]
        /\ UNCHANGED <<prog, tensors>>
    BY <1>3 DEF TensorFactor
  <2>7. r.base = n /\ r.gen = Append(n, refCount[n]) /\ r.slices \in Seq(Int \X Int)  BY <2>5
  <2> HIDE DEF n, dims, slices, r
  <2>8. RefsAre(NamesIn(prog), Append(refs, r), [refCount EXCEPT ![n] = @ + 1], tensors)
    BY <1>0, <2>1, <2>2, <2>3, <2>7, RefsMore DEF RefsOK
  <2> QED  BY <2>6, <2>8 DEF RefsOK
<1>4. CASE EndAssign  BY <1>1, <1>4 DEF EndAssign
<1>5. CASE BeginAssign  BY <1>1, <1>5 DEF BeginAssign
<1>6. CASE MakeScalar  BY <1>1, <1>6 DEF MakeScalar
<1>7. CASE ScalarFactor  BY <1>1, <1>7 DEF ScalarFactor
<1>8. CASE Generate  BY <1>1, <1>8 DEF Generate
<1>9. ASSUME Reject PROVE RefsOK'  BY <1>1, <1>9 DEF Reject
<1>10. CASE UNCHANGED vars  BY <1>1, <1>10 DEF vars
<1> QED
  BY <1>2, <1>3, <1>4, <1>5, <1>6, <1>7, <1>8, <1>9, <1>10
  DEF Next, RejectTensor, RejectAssign, RejectFactor, RejectProgram

-----------------------------------------------------------------------------
(* Leaves.                                                                 *)

LEMMA AssignsSame ==
    ASSUME NEW p, NEW m \in Nat, p[m].do # "assign"
    PROVE  Assigns(p, m) = Assigns(p, m - 1)
<1>1. \A j : j \in 1 .. m - 1 => j \in 1 .. m  OBVIOUS
<1>2. \A j : j \in 1 .. m => j \in 1 .. m - 1 \/ j = m  OBVIOUS
<1> QED  BY <1>1, <1>2 DEF Assigns

LEMMA AssignsMore ==
    ASSUME NEW p, NEW m \in Nat, m >= 1, p[m].do = "assign", Assigns(p, m - 1) = {}
    PROVE  Assigns(p, m) = {m}
<1>1. \A j : j \in 1 .. m => j \in 1 .. m - 1 \/ j = m  OBVIOUS
<1>2. m \in 1 .. m  OBVIOUS
<1> QED  BY <1>1, <1>2 DEF Assigns

\* What the maps give for a name is what the program means by it.
LEMMA ResolvedTensor ==
    ASSUME NEW p, NEW a, NEW ts, Recorded(p, a, "tensor", ts), NEW n \in NamesIn(p),
           Declared(n, ts)
    PROVE  /\ Declarations(p, a, "tensor", n) # {}
           /\ Resolved(p, a, n) = LastDecl(n, ts) /\ Resolved(p, a, n).do = "tensor"
<1>1. Matches(p, a, "tensor", ts, n)  BY DEF Recorded
<1>2. /\ Declarations(p, a, "tensor", n) # {}
      /\ LastDecl(n, ts) = p[Max(Declarations(p, a, "tensor", n))]
  BY <1>1 DEF Matches
<1>3. PICK j \in 1 .. Len(ts) : LastDecl(n, ts) = ts[j]  BY LastDeclared DEF Recorded
<1>4. LastDecl(n, ts).do = "tensor"  BY <1>3 DEF Recorded
<1> QED  BY <1>2, <1>4 DEF Resolved

LEMMA ResolvedScalar ==
    ASSUME NEW p, NEW a, NEW ts, Recorded(p, a, "tensor", ts), NEW n \in NamesIn(p),
           ~Declared(n, ts), NEW ss, Recorded(p, a, "scalar", ss), Declared(n, ss)
    PROVE  /\ Declarations(p, a, "scalar", n) # {}
           /\ Resolved(p, a, n) = LastDecl(n, ss) /\ Resolved(p, a, n).do = "scalar"
<1>1. Matches(p, a, "tensor", ts, n) /\ Matches(p, a, "scalar", ss, n)  BY DEF Recorded
<1>2. /\ Declarations(p, a, "scalar", n) # {} /\ Declarations(p, a, "tensor", n) = {}
      /\ LastDecl(n, ss) = p[Max(Declarations(p, a, "scalar", n))]
  BY <1>1 DEF Matches
<1>3. PICK j \in 1 .. Len(ss) : LastDecl(n, ss) = ss[j]  BY LastDeclared DEF Recorded
<1>4. LastDecl(n, ss).do = "scalar"  BY <1>3 DEF Recorded
<1> QED  BY <1>2, <1>4 DEF Resolved

\* A leaf still has its reference when another is added.
LEMMA LeafKept ==
    ASSUME NEW p, NEW a, NEW k, NEW leaf, NEW rs, IsSeq(rs), LeafIs(p, a, k, leaf, rs), NEW r
    PROVE  LeafIs(p, a, k, leaf, Append(rs, r))
<1>1. ASSUME NEW j \in 1 .. Len(rs)
      PROVE  j \in 1 .. Len(Append(rs, r)) /\ Append(rs, r)[j] = rs[j]
  BY AppendIs, SeqIs
<1> QED  BY <1>1 DEF LeafIs

\* One more leaf of the assignment being read.
LEMMA LeavesMore ==
    ASSUME PlaceOK, LeavesOK, InExpr, arg <= Len(Stmt.refs),
           UNCHANGED <<prog, next, out>>, arg' = arg + 1,
           NEW leaf, leaves' = Append(leaves, leaf),
           \A k, x : LeafIs(prog, next, k, x, refs) => LeafIs(prog, next, k, x, refs'),
           LeafIs(prog, next, arg, leaf, refs')
    PROVE  LeavesOK'
<1>1. arg \in Nat /\ arg > 0 /\ next \in Nat /\ out # NoOut  BY DEF PlaceOK, InExpr
<1>2. PICK a \in 1 .. Len(prog) : AssignIs(a)  BY <1>1 DEF LeavesOK
<1>3. Begun = next /\ Read(a) = arg - 1  BY <1>1 DEF Begun, Read
<1>4. a = next
  <2>1. a \in Assigns(prog, next)  BY <1>2, <1>3 DEF AssignIs
  <2>2. next \in Assigns(prog, next)
    <3>1. next \in 1 .. next /\ prog[next].do = "assign"  BY <1>1 DEF PlaceOK, Stmt
    <3> QED  BY <3>1 DEF Assigns
  <2> QED  BY <1>2, <1>3, <2>2 DEF AssignIs
<1>5. IsSeq(leaves) /\ Len(leaves) = arg - 1  BY <1>2, <1>3 DEF AssignIs, LeavesOK
<1> DEFINE more == Append(leaves, leaf)
<1>6. IsSeq(more) /\ Len(more) = arg /\ more[arg] = leaf
      /\ \A k \in 1 .. arg - 1 : more[k] = leaves[k]
  <2>1. /\ IsSeq(more) /\ Len(more) = Len(leaves) + 1 /\ more[Len(leaves) + 1] = leaf
        /\ \A k \in 1 .. Len(leaves) : more[k] = leaves[k]
    BY <1>5, AppendIs
  <2>2. Len(leaves) + 1 = arg  BY <1>1, <1>5
  <2> HIDE DEF more
  <2> QED  BY <1>5, <2>1, <2>2
<1> HIDE DEF more
<1>7. \A k \in 1 .. arg : LeafIs(prog, next, k, more[k], refs')
  <2>1. ASSUME NEW k \in 1 .. arg PROVE LeafIs(prog, next, k, more[k], refs')
    <3>1. CASE k = arg  BY <1>6, <3>1
    <3>2. CASE k # arg
      <4>1. k \in 1 .. arg - 1  BY <1>1, <3>2
      <4>2. LeafIs(prog, next, k, leaves[k], refs)  BY <1>2, <1>3, <1>4, <4>1 DEF AssignIs
      <4> QED  BY <1>6, <4>1, <4>2
    <3> QED  BY <3>1, <3>2
  <2> QED  BY <2>1
<1>8. Begun' = next /\ Read(next)' = arg  BY <1>1 DEF Begun, Read
<1>9. AssignIs(next)'
  <2>1. /\ next \in 1 .. Len(prog) /\ Assigns(prog, next) = {next}
        /\ out.name = prog[next].name /\ out.tree = prog[next].tree
        /\ out.slices \in Seq(Int \X Int)
        /\ prog[next].slices # << >> =>
             Declarations(prog, next, "tensor", prog[next].name) # {}
    BY <1>2, <1>3, <1>4 DEF AssignIs
  <2>2. leaves' = more  BY DEF more
  <2> QED  BY <1>6, <1>7, <1>8, <2>1, <2>2 DEF AssignIs
<1>10. next \in 1 .. Len(prog)  BY <1>4
<1>11. IsSeq(leaves') /\ out' # NoOut  BY <1>1, <1>6 DEF more
<1>12. \E b \in 1 .. Len(prog)' : AssignIs(b)'  BY <1>9, <1>10
<1> QED  BY <1>11, <1>12 DEF LeavesOK

LEMMA LeavesTensor ==
    ASSUME Inv, TensorFactor
    PROVE  LeavesOK'
<1> DEFINE n == Ref.name
           decl == LastDecl(n, tensors)
           gen == Append(n, refCount[n])
           r == [base |-> n, gen |-> gen, slices |-> Padded(Ref.slices, decl.dims)]
           leaf == [kind |-> "tensor", name |-> gen, rank |-> Len(decl.dims), dtype |-> decl.dtype]
<1>0. PlaceOK /\ LeavesOK /\ Recorded(prog, next, "tensor", tensors) /\ IsSeq(refs)
  BY DEF Inv, DeclsOK, RefsOK, RefsAre
<1>1. /\ InExpr /\ arg <= Len(Stmt.refs) /\ Declared(n, tensors)
      /\ UNCHANGED <<prog, next, out>> /\ arg' = arg + 1
      /\ refs' = Append(refs, r) /\ leaves' = Append(leaves, leaf)
  BY DEF TensorFactor
<1>2. arg \in 1 .. Len(Stmt.refs) /\ n \in NamesIn(prog)
  <2>1. arg > 0 /\ arg \in Nat /\ next <= Len(prog) /\ Stmt.do = "assign"
    BY <1>0, <1>1 DEF InExpr, PlaceOK
  <2>2. Len(Stmt.refs) \in Nat  BY <1>0, <2>1, StmtIs
  <2>3. arg \in 1 .. Len(Stmt.refs)  BY <1>1, <2>1, <2>2
  <2> QED  BY <1>0, <2>1, <2>3, StmtIs DEF Ref
<1>3. n = prog[next].refs[arg].name /\ Ref = prog[next].refs[arg]  BY DEF Ref, Stmt
<1>4. /\ Declarations(prog, next, "tensor", n) # {}
      /\ Resolved(prog, next, n) = decl /\ decl.do = "tensor"
  BY <1>0, <1>1, <1>2, ResolvedTensor
<1>5. Len(decl.dims) \in Nat  BY <1>0, <1>1, TensorDeclared, LenProperties
<1>6. r.gen = gen /\ leaf.kind = "tensor" /\ leaf.name = gen /\ leaf.rank = Len(decl.dims)
      /\ leaf.dtype = decl.dtype
  OBVIOUS
<1> HIDE DEF n, decl, gen, r, leaf
<1>7. /\ Len(Append(refs, r)) = Len(refs) + 1 /\ Append(refs, r)[Len(refs) + 1] = r
      /\ Len(refs) + 1 \in 1 .. Len(refs) + 1
  BY <1>0, AppendIs, SeqIs
<1>8. LeafIs(prog, next, arg, leaf, Append(refs, r))
  BY <1>3, <1>4, <1>5, <1>6, <1>7 DEF LeafIs, KnownRef
<1>9. \A k, x : LeafIs(prog, next, k, x, refs) => LeafIs(prog, next, k, x, Append(refs, r))
  BY <1>0, LeafKept
<1> QED  BY <1>0, <1>1, <1>8, <1>9, LeavesMore

LEMMA LeavesScalar ==
    ASSUME Inv, ScalarFactor
    PROVE  LeavesOK'
<1> DEFINE n == Ref.name
           decl == LastDecl(n, scalars)
           leaf == [kind |-> "scalar", name |-> n, rank |-> 0, dtype |-> decl.dtype]
<1>0. PlaceOK /\ LeavesOK /\ Recorded(prog, next, "tensor", tensors)
      /\ Recorded(prog, next, "scalar", scalars)
  BY DEF Inv, DeclsOK
<1>1. /\ InExpr /\ arg <= Len(Stmt.refs) /\ ~Declared(n, tensors) /\ Declared(n, scalars)
      /\ Ref.slices = << >>
      /\ UNCHANGED <<prog, next, out, refs>> /\ arg' = arg + 1
      /\ leaves' = Append(leaves, leaf)
  BY DEF ScalarFactor
<1>2. arg \in 1 .. Len(Stmt.refs) /\ n \in NamesIn(prog)
  <2>1. arg > 0 /\ arg \in Nat /\ next <= Len(prog) /\ Stmt.do = "assign"
    BY <1>0, <1>1 DEF InExpr, PlaceOK
  <2>2. Len(Stmt.refs) \in Nat  BY <1>0, <2>1, StmtIs
  <2>3. arg \in 1 .. Len(Stmt.refs)  BY <1>1, <2>1, <2>2
  <2> QED  BY <1>0, <2>1, <2>3, StmtIs DEF Ref
<1>3. n = prog[next].refs[arg].name /\ Ref = prog[next].refs[arg]  BY DEF Ref, Stmt
<1>4. /\ Declarations(prog, next, "scalar", n) # {}
      /\ Resolved(prog, next, n) = decl /\ decl.do = "scalar"
  BY <1>0, <1>1, <1>2, ResolvedScalar
<1>5. leaf.kind = "scalar" /\ leaf.name = n /\ leaf.rank = 0 /\ leaf.dtype = decl.dtype  OBVIOUS
<1> HIDE DEF n, decl, leaf
<1>6. LeafIs(prog, next, arg, leaf, refs)
  BY <1>1, <1>3, <1>4, <1>5 DEF LeafIs, KnownRef
<1> QED  BY <1>0, <1>1, <1>6, LeavesMore

LEMMA LeavesBegin ==
    ASSUME Inv, BeginAssign
    PROVE  LeavesOK'
<1>0. PlaceOK /\ LeavesOK /\ Recorded(prog, next, "tensor", tensors)
  BY DEF Inv, DeclsOK
<1>1. /\ AtStmt("assign") /\ OutputOK /\ arg' = 1 /\ UNCHANGED <<prog, next, leaves, refs>>
      /\ out' = [name |-> Stmt.name, tree |-> Stmt.tree,
                 slices |-> IF Stmt.slices = << >> THEN << >>
                            ELSE SliceList(Stmt.slices, LastDecl(Stmt.name, tensors).dims)]
  BY DEF BeginAssign
<1>2. arg = 0 /\ next <= Len(prog) /\ Stmt.do = "assign" /\ next \in Nat /\ next >= 1
  BY <1>0, <1>1 DEF AtStmt, PlaceOK
<1>3. /\ next \in 1 .. Len(prog) /\ IsRef(Stmt) /\ Stmt = prog[next]
      /\ Stmt.name \in NamesIn(prog)
  BY <1>0, <1>2, StmtIs
<1>4. Assigns(prog, next) = {next}
  <2>1. Assigns(prog, next - 1) = {}  BY <1>0, <1>1, <1>2 DEF LeavesOK, Begun, OutputOK
  <2> QED  BY <1>2, <1>3, <2>1, AssignsMore
<1>5. leaves = << >> /\ Len(leaves) = 0 /\ IsSeq(leaves)
  BY <1>0, <1>1 DEF LeavesOK, OutputOK
<1>6. out'.slices \in Seq(Int \X Int)
  <2>1. CASE Stmt.slices = << >>
    <3>1. out'.slices = << >>  BY <1>1, <2>1
    <3> QED  BY <3>1
  <2>2. CASE Stmt.slices # << >>
    <3> DEFINE dims == LastDecl(Stmt.name, tensors).dims
    <3>1. Declared(Stmt.name, tensors)  BY <1>1, <2>2 DEF OutputOK
    <3>2. dims \in Seq(Int)  BY <1>0, <3>1, TensorDeclared
    <3>3. out'.slices = SliceList(Stmt.slices, dims)  BY <1>1, <2>2
    <3> HIDE DEF dims
    <3> QED  BY <1>3, <3>2, <3>3, SliceListIs
  <2> QED  BY <2>1, <2>2
<1>7. out'.name = prog[next].name /\ out'.tree = prog[next].tree  BY <1>1, <1>3
<1>8. prog[next].slices # << >> => Declarations(prog, next, "tensor", prog[next].name) # {}
  BY <1>0, <1>1, <1>3, ResolvedTensor DEF OutputOK
<1>9. Begun' = next /\ Read(next)' = 0  BY <1>1 DEF Begun, Read
<1>10. AssignIs(next)'
  <2>1. \A k \in 1 .. 0 : FALSE  OBVIOUS
  <2> QED  BY <1>1, <1>3, <1>4, <1>5, <1>6, <1>7, <1>8, <1>9, <2>1 DEF AssignIs
<1>11. out' # NoOut
  <2>1. "name" \in DOMAIN out'  BY <1>1
  <2> QED  BY <2>1 DEF NoOut
<1>12. \E a \in 1 .. Len(prog)' : AssignIs(a)'  BY <1>1, <1>3, <1>10
<1> QED  BY <1>1, <1>5, <1>11, <1>12 DEF LeavesOK

\* Nothing changes about the assignment when a step only moves on.
LEMMA LeavesKept ==
    ASSUME LeavesOK, UNCHANGED <<prog, leaves, refs, out>>, Assigns(prog, Begun') = Assigns(prog, Begun),
           \A a \in 1 .. Len(prog) : AssignIs(a) => Read(a)' = Read(a)
    PROVE  LeavesOK'
<1>1. \A a \in 1 .. Len(prog) : AssignIs(a) => AssignIs(a)'  BY DEF AssignIs
<1>2. out = NoOut => Assigns(prog, Begun)' = {} /\ leaves' = << >>  BY DEF LeavesOK
<1> QED  BY <1>1, <1>2 DEF LeavesOK

LEMMA StepLeaves == Inv /\ [Next]_vars => LeavesOK'
<1> SUFFICES ASSUME Inv, [Next]_vars PROVE LeavesOK'  OBVIOUS
<1>0. PlaceOK /\ LeavesOK /\ next \in Nat /\ arg \in Nat /\ next >= 1  BY DEF Inv, PlaceOK
<1>1. ASSUME UNCHANGED <<prog, next, arg, leaves, refs, out>> PROVE LeavesOK'
  <2>1. Begun' = Begun /\ \A a : Read(a)' = Read(a)  BY <1>1 DEF Begun, Read
  <2> QED  BY <1>0, <1>1, <2>1, LeavesKept
<1>2. ASSUME NEW do \in {"tensor", "scalar"}, AtStmt(do), next' = next + 1,
             UNCHANGED <<prog, arg, leaves, refs, out>>
      PROVE  LeavesOK'
  <2>1. arg = 0 /\ prog[next].do # "assign"  BY <1>2 DEF AtStmt, Stmt
  <2>2. Begun' = next /\ Begun = next - 1  BY <1>0, <1>2, <2>1 DEF Begun
  <2>3. Assigns(prog, next) = Assigns(prog, next - 1)  BY <1>0, <2>1, AssignsSame
  <2>4. \A a : Read(a)' = Read(a)  BY <1>2 DEF Read
  <2> QED  BY <1>0, <1>2, <2>2, <2>3, <2>4, LeavesKept
<1>3. CASE MakeTensor  BY <1>2, <1>3 DEF MakeTensor
<1>4. CASE MakeScalar  BY <1>2, <1>4 DEF MakeScalar
<1>5. CASE EndAssign
  <2>1. arg > 0 /\ arg > Len(Stmt.refs) /\ arg' = 0 /\ next' = next + 1
        /\ UNCHANGED <<prog, leaves, refs, out>>
    BY <1>5 DEF EndAssign, InExpr
  <2>2. next <= Len(prog) /\ Stmt.do = "assign" /\ arg <= Len(Stmt.refs) + 1
    BY <1>0, <2>1 DEF PlaceOK
  <2>3. arg - 1 = Len(prog[next].refs)
    <3>1. Len(Stmt.refs) \in Nat  BY <1>0, <2>2, StmtIs
    <3>2. arg = Len(Stmt.refs) + 1  BY <1>0, <2>1, <2>2, <3>1
    <3> QED  BY <3>1, <3>2 DEF Stmt
  <2>4. Begun = next /\ Begun' = next  BY <1>0, <2>1 DEF Begun
  <2>5. ASSUME NEW a \in 1 .. Len(prog), AssignIs(a) PROVE Read(a)' = Read(a)
    <3>1. next \in Assigns(prog, next)
      <4>1. next \in 1 .. next /\ prog[next].do = "assign"  BY <1>0, <2>2 DEF Stmt
      <4> QED  BY <4>1 DEF Assigns
    <3>2. a = next  BY <2>4, <2>5, <3>1 DEF AssignIs
    <3> QED  BY <1>0, <2>1, <2>3, <3>2 DEF Read
  <2> QED  BY <1>0, <2>1, <2>4, <2>5, LeavesKept
<1>6. CASE BeginAssign  BY <1>6, LeavesBegin
<1>7. CASE TensorFactor  BY <1>7, LeavesTensor
<1>8. CASE ScalarFactor  BY <1>8, LeavesScalar
<1>9. CASE Generate  BY <1>1, <1>9 DEF Generate
<1>10. ASSUME Reject PROVE LeavesOK'  BY <1>1, <1>10 DEF Reject
<1>11. CASE UNCHANGED vars  BY <1>1, <1>11 DEF vars
<1> QED
  BY <1>3, <1>4, <1>5, <1>6, <1>7, <1>8, <1>9, <1>10, <1>11
  DEF Next, RejectTensor, RejectAssign, RejectFactor, RejectProgram

-----------------------------------------------------------------------------
(* What is accepted.                                                       *)

\* At the end the leaves are the references of the assignment, with the kinds
\* and dtypes the program gives them.
LEMMA AtEndIs ==
    ASSUME Inv, arg = 0, NEW a \in 1 .. Len(prog), AssignIs(a)
    PROVE  /\ prog[a].do = "assign" /\ IsSeq(prog[a].refs)
           /\ DOMAIN prog[a].refs = 1 .. Len(prog[a].refs)
           /\ DOMAIN leaves = 1 .. Len(prog[a].refs)
           /\ \A k \in 1 .. Len(prog[a].refs) : LeafIs(prog, a, k, leaves[k], refs)
           /\ Tree = TreeBy(prog, a)
           /\ Flat!IsTree(Tree)
<1>0. prog \in Programs /\ IsStatement(prog[a])  BY ProgramIs DEF Inv, PlaceOK
<1>1. prog[a].do = "assign"
  <2>1. a \in Assigns(prog, Begun)  BY DEF AssignIs
  <2> QED  BY <2>1 DEF Assigns
<1>2. IsSeq(prog[a].refs)  BY <1>0, <1>1 DEF IsStatement
<1> DEFINE n == Len(prog[a].refs)
<1>3. DOMAIN prog[a].refs = 1 .. n /\ n \in Nat  BY <1>2, SeqIs
<1>4. Read(a) = n  BY DEF Read
<1>5. IsSeq(leaves) /\ Len(leaves) = n  BY <1>4 DEF Inv, LeavesOK, AssignIs
<1>6. DOMAIN leaves = 1 .. n  BY <1>5, SeqIs
<1>7. \A k \in 1 .. n : LeafIs(prog, a, k, leaves[k], refs)  BY <1>4 DEF AssignIs
<1> DEFINE kinds == [l \in 1 .. n |-> leaves[l].kind]
<1>8. kinds = [k \in 1 .. n |-> Resolved(prog, a, prog[a].refs[k].name).do]
  BY <1>7 DEF LeafIs
<1>9. kinds \in [1 .. n -> {"tensor", "scalar"}]  BY <1>7 DEF LeafIs
<1>10. Tree = Labelled(prog[a].tree, kinds)  BY <1>6 DEF Tree, AssignIs
<1>11. TreeBy(prog, a) = Labelled(prog[a].tree, kinds)  BY <1>3, <1>8 DEF TreeBy
<1> HIDE DEF kinds, n
<1>12. Flat!IsTree(Labelled(prog[a].tree, kinds))
  BY <1>0, <1>1, <1>3, <1>9 DEF IsStatement
<1> QED  BY <1>1, <1>2, <1>3, <1>6, <1>7, <1>10, <1>11, <1>12 DEF n

\* A node of the tree that is a leaf stands for a reference, of its kind.
LEMMA NodeIs ==
    ASSUME Inv, arg = 0, NEW a \in 1 .. Len(prog), AssignIs(a), NEW i \in DOMAIN Tree,
           Tree[i].kind # "op"
    PROVE  Tree[i].name \in DOMAIN leaves /\ Tree[i].kind = leaves[Tree[i].name].kind
<1>1. prog[a].do = "assign" /\ DOMAIN leaves = DOMAIN prog[a].refs  BY AtEndIs
<1>2. prog \in Programs /\ IsStatement(prog[a])  BY ProgramIs DEF Inv, PlaceOK
<1>3. out.tree = prog[a].tree  BY DEF AssignIs
<1> DEFINE t == prog[a].tree
           kinds == [l \in DOMAIN leaves |-> leaves[l].kind]
<1>4. DOMAIN Tree = DOMAIN t
      /\ Tree[i] = IF t[i].kind = "op" THEN t[i]
                   ELSE [kind |-> kinds[t[i].name], name |-> t[i].name]
  BY <1>3 DEF Tree, Labelled
<1>5. \A j \in DOMAIN t : t[j].kind # "op" => t[j].name \in DOMAIN leaves
  BY <1>1, <1>2 DEF IsStatement
<1>6. t[i].kind # "op"  BY <1>4
<1>7. Tree[i].kind = kinds[t[i].name] /\ Tree[i].name = t[i].name  BY <1>4, <1>6
<1>8. t[i].name \in DOMAIN leaves  BY <1>4, <1>5, <1>6
<1> QED  BY <1>7, <1>8

\* The statements of kind assign, when all are begun.
LEMMA AssignsAre ==
    ASSUME Inv, AtEnd
    PROVE  {j \in DOMAIN prog : prog[j].do = "assign"} = Assigns(prog, Begun)
<1>1. DOMAIN prog = 1 .. Len(prog) /\ Len(prog) \in Nat  BY ProgramIs DEF Inv, PlaceOK
<1>2. Begun = Len(prog)  BY <1>1 DEF Inv, PlaceOK, AtEnd, Begun
<1> QED  BY <1>1, <1>2 DEF Assigns

Dtypes(p, a) == {Resolved(p, a, r.name).dtype : r \in Range(p[a].refs)}

LEMMA DtypesAre ==
    ASSUME Inv, arg = 0, NEW a \in 1 .. Len(prog), AssignIs(a)
    PROVE  Dtypes(prog, a) = {leaves[k].dtype : k \in DOMAIN leaves}
<1>1. DOMAIN leaves = DOMAIN prog[a].refs
      /\ \A k \in DOMAIN leaves : LeafIs(prog, a, k, leaves[k], refs)
  BY AtEndIs
<1>2. \A k \in DOMAIN leaves :
        leaves[k].dtype = Resolved(prog, a, prog[a].refs[k].name).dtype
  BY <1>1 DEF LeafIs
<1>3. \A r : r \in Range(prog[a].refs) <=> \E k \in DOMAIN leaves : r = prog[a].refs[k]
  BY <1>1 DEF Range
<1>4. ASSUME NEW x \in Dtypes(prog, a) PROVE x \in {leaves[k].dtype : k \in DOMAIN leaves}
  <2>1. PICK r \in Range(prog[a].refs) : x = Resolved(prog, a, r.name).dtype
    BY <1>4 DEF Dtypes
  <2>2. PICK k \in DOMAIN leaves : r = prog[a].refs[k]  BY <1>3, <2>1
  <2> QED  BY <1>2, <2>1, <2>2
<1>5. ASSUME NEW k \in DOMAIN leaves PROVE leaves[k].dtype \in Dtypes(prog, a)
  <2>1. prog[a].refs[k] \in Range(prog[a].refs)  BY <1>3
  <2>2. leaves[k].dtype = Resolved(prog, a, prog[a].refs[k].name).dtype  BY <1>2
  <2> QED  BY <2>1, <2>2 DEF Dtypes
<1> QED  BY <1>4, <1>5

LEMMA DtypesFinite ==
    ASSUME Inv, arg = 0, NEW a \in 1 .. Len(prog), AssignIs(a)
    PROVE  IsFiniteSet(Dtypes(prog, a))
<1> DEFINE n == Len(prog[a].refs)
           T == {leaves[k].dtype : k \in DOMAIN leaves}
           f == [k \in 1 .. n |-> leaves[k].dtype]
<1>1. DOMAIN leaves = 1 .. n /\ n \in Nat  BY AtEndIs, SeqIs
<1>2. IsFiniteSet(1 .. n)
  <2>1. 1 \in Int /\ n \in Int  BY <1>1
  <2> HIDE DEF n
  <2> QED  BY <2>1, FS_Interval
<1>3. f \in Surjection(1 .. n, T)  BY <1>1 DEF Surjection
<1> HIDE DEF f
<1>4. IsFiniteSet(T)  BY <1>2, <1>3, FS_Surjection
<1> QED  BY <1>4, DtypesAre

\* The registers the compiler counts are those the program's text asks for.
LEMMA RegistersAre ==
    ASSUME Inv, arg = 0, NEW a \in 1 .. Len(prog), AssignIs(a), Flat!HasTensor(Tree)
    PROVE  RegistersFit <=> FitsQpu(prog, a)
<1> DEFINE T == TensorLeaves
           U == DOMAIN leaves \ T
           S == ScalarsUsed
           n == Len(prog[a].refs)
<1>1. /\ DOMAIN leaves = 1 .. n /\ DOMAIN prog[a].refs = 1 .. n /\ n \in Nat
      /\ \A k \in 1 .. n : LeafIs(prog, a, k, leaves[k], refs)
  BY AtEndIs, SeqIs
<1>2. T = TensorRefs(prog, a)  BY <1>1 DEF TensorLeaves, TensorRefs, LeafIs
<1>3. S = ScalarNames(prog, a)
  <2>1. ASSUME NEW k \in U PROVE leaves[k].name = prog[a].refs[k].name
    <3>1. k \in 1 .. n /\ leaves[k].kind # "tensor"  BY <1>1 DEF TensorLeaves
    <3> QED  BY <1>1, <3>1 DEF LeafIs
  <2>2. S = {leaves[k].name : k \in U}  BY DEF ScalarsUsed
  <2>3. ScalarNames(prog, a) = {prog[a].refs[k].name : k \in U}  BY <1>1, <1>2 DEF ScalarNames
  <2> HIDE DEF S, U
  <2> QED  BY <2>1, <2>2, <2>3
<1>4. D = Rank(prog, a) /\ D \in Nat
  <2>1. PICK i \in DOMAIN Tree : Tree[i].kind = "tensor"  BY DEF Flat!HasTensor
  <2>2. Tree[i].name \in DOMAIN leaves /\ leaves[Tree[i].name].kind = "tensor"
    BY <2>1, NodeIs
  <2>3. T # {}  BY <2>2 DEF TensorLeaves
  <2>4. T \subseteq 1 .. n  BY <1>1 DEF TensorLeaves
  <2>5. Min(T) \in T
    <3> HIDE DEF T
    <3>1. T \subseteq Nat  BY <1>1, <2>4
    <3> QED  BY <2>3, <3>1, MinOf
  <2>6. Min(T) \in 1 .. n /\ leaves[Min(T)].kind = "tensor"  BY <2>4, <2>5 DEF TensorLeaves
  <2>7. leaves[Min(T)].rank \in Nat
        /\ leaves[Min(T)].rank = Len(Resolved(prog, a, prog[a].refs[Min(T)].name).dims)
    BY <1>1, <2>6 DEF LeafIs
  <2> QED  BY <1>2, <2>7 DEF D, Rank
<1>5. Cardinality(T) \in Nat /\ Cardinality(S) \in Nat
  <2>1. IsFiniteSet(1 .. n)
    <3>1. 1 \in Int /\ n \in Int  BY <1>1
    <3> HIDE DEF n
    <3> QED  BY <3>1, FS_Interval
  <2>2. T \subseteq 1 .. n /\ U \subseteq 1 .. n  BY <1>1 DEF TensorLeaves
  <2>3. IsFiniteSet(T) /\ IsFiniteSet(U)
    <3> HIDE DEF T, U, n
    <3> QED  BY <2>1, <2>2, FS_Subset
  <2> DEFINE f == [k \in U |-> leaves[k].name]
  <2>4. S = {leaves[k].name : k \in U}  BY DEF ScalarsUsed
  <2>5. f \in Surjection(U, S)
    <3> HIDE DEF U, S
    <3> QED  BY <2>4 DEF Surjection
  <2> HIDE DEF f, T, U, S
  <2>6. IsFiniteSet(S)  BY <2>3, <2>5, FS_Surjection
  <2> QED  BY <2>3, <2>6, FS_CardinalityType
<1> DEFINE x == Cardinality(T)
           y == Cardinality(S)
<1>6. RegistersFit <=> 8 + D + x + 8 <= 32 /\ x + 1 + (x + 1) * D + 2 * D + y - 1 < 32
  BY DEF RegistersFit, Layout!RbFits, Layout!RaFits
<1>7. FitsQpu(prog, a) <=>
        (x + 1) * (1 + D) + 2 * D + y <= 32 /\ 4 + 4 + D + x + 8 <= 32
  BY <1>2, <1>3, <1>4 DEF FitsQpu
<1>8. x \in Nat /\ y \in Nat  BY <1>5
<1> HIDE DEF x, y
<1>9. (x + 1) * (1 + D) = x + 1 + (x + 1) * D /\ (x + 1) * D \in Nat
  <2>1. \A i, j \in Nat : (i + 1) * (1 + j) = i + 1 + (i + 1) * j /\ (i + 1) * j \in Nat
    OBVIOUS
  <2> QED  BY <1>4, <1>8, <2>1
<1>10. x + 1 + (x + 1) * D + 2 * D + y - 1 < 32
       <=> (x + 1) * (1 + D) + 2 * D + y <= 32
  <2> DEFINE m == (x + 1) * D
             l == (x + 1) * (1 + D)
             r == D
  <2>1. m \in Nat /\ r \in Nat /\ l = x + 1 + m  BY <1>4, <1>9
  <2> HIDE DEF m, l, r
  <2>2. x + 1 + m + 2 * r + y - 1 < 32 <=> l + 2 * r + y <= 32  BY <1>8, <2>1
  <2> QED  BY <2>2 DEF m, l, r
<1>11. 8 + D + x + 8 <= 32 <=> 4 + 4 + D + x + 8 <= 32  BY <1>4, <1>8
<1> QED  BY <1>6, <1>7, <1>10, <1>11

LEMMA AcceptedIsWellFormed ==
    ASSUME Inv, AtEnd, Compiles
    PROVE  WellFormed(prog)
<1>0. PlaceOK /\ LeavesOK /\ arg = 0 /\ next > Len(prog) /\ next \in 1 .. Len(prog) + 1
      /\ DOMAIN prog = 1 .. Len(prog) /\ Len(prog) \in Nat
  BY ProgramIs DEF Inv, AtEnd, PlaceOK
<1>1. PICK a \in 1 .. Len(prog) : AssignIs(a)  BY <1>0 DEF LeavesOK, Compiles
<1>2. {j \in DOMAIN prog : prog[j].do = "assign"} = {a}  BY <1>1, AssignsAre DEF AssignIs
<1>3. /\ DOMAIN prog[a].refs = DOMAIN leaves /\ Tree = TreeBy(prog, a)
      /\ \A k \in DOMAIN leaves : LeafIs(prog, a, k, leaves[k], refs)
  BY <1>0, <1>1, AtEndIs
<1>4. \A r \in Range(prog[a].refs) : KnownRef(prog, a, r)
  <2>1. ASSUME NEW r \in Range(prog[a].refs) PROVE KnownRef(prog, a, r)
    <3>1. PICK k \in DOMAIN leaves : r = prog[a].refs[k]  BY <1>3 DEF Range
    <3> QED  BY <1>3, <3>1 DEF LeafIs
  <2> QED  BY <2>1
<1>5. Cardinality(Dtypes(prog, a)) = 1
  <2>1. PICK i \in DOMAIN Tree : Tree[i].kind = "tensor"
    BY DEF Compiles, Flat!Rejected, Flat!HasTensor
  <2>2. Tree[i].name \in DOMAIN leaves  BY <1>0, <1>1, <2>1, NodeIs
  <2> DEFINE x == leaves[Tree[i].name].dtype
  <2>3. \A k \in DOMAIN leaves : leaves[k].dtype = x  BY <2>2 DEF Compiles, OneDtype
  <2>4. Dtypes(prog, a) = {x}
    <3>1. Dtypes(prog, a) = {leaves[k].dtype : k \in DOMAIN leaves}  BY <1>0, <1>1, DtypesAre
    <3> HIDE DEF x
    <3> QED  BY <2>2, <2>3, <3>1 DEF x
  <2> QED  BY <2>4, FS_Singleton
<1>6. \A j \in DOMAIN prog : prog[j].do = "tensor" => prog[j].dims # << >>
  <2>1. next - 1 = Len(prog)  BY <1>0
  <2> QED  BY <1>0, <2>1 DEF PlaceOK
<1>7. prog[a].slices # << >> => Declarations(prog, a, "tensor", prog[a].name) # {}
  BY <1>1 DEF AssignIs
<1>8. ~Flat!Rejected(TreeBy(prog, a))  BY <1>3 DEF Compiles
<1>9. FitsQpu(prog, a)
  <2>1. Flat!HasTensor(Tree) /\ RegistersFit  BY DEF Compiles, Flat!Rejected
  <2> QED  BY <1>0, <1>1, <2>1, RegistersAre
<1> QED  BY <1>0, <1>2, <1>4, <1>5, <1>6, <1>7, <1>8, <1>9 DEF WellFormed, Dtypes

\* The assignment of a well-formed program.
IsAssignment(a) ==
    /\ a \in DOMAIN prog
    /\ {j \in DOMAIN prog : prog[j].do = "assign"} = {a}
    /\ \A r \in Range(prog[a].refs) : KnownRef(prog, a, r)
    /\ Cardinality(Dtypes(prog, a)) = 1
    /\ prog[a].slices # << >> => Declarations(prog, a, "tensor", prog[a].name) # {}
    /\ ~Flat!Rejected(TreeBy(prog, a))
    /\ FitsQpu(prog, a)

LEMMA WellFormedIs == WellFormed(prog) => \E a : IsAssignment(a)
BY DEF WellFormed, IsAssignment, Dtypes

LEMMA RejectedIsNot ==
    ASSUME Inv, Next, Reject
    PROVE  ~WellFormed(prog)
<1> SUFFICES ASSUME WellFormed(prog) PROVE FALSE  OBVIOUS
<1>0. /\ PlaceOK /\ LeavesOK /\ Recorded(prog, next, "tensor", tensors)
      /\ Recorded(prog, next, "scalar", scalars)
      /\ DOMAIN prog = 1 .. Len(prog) /\ Len(prog) \in Nat /\ next \in Nat /\ next >= 1
      /\ phase' = "rejected"
  BY ProgramIs DEF Inv, PlaceOK, DeclsOK, Reject
<1>1. PICK a : IsAssignment(a)  BY WellFormedIs
<1>2. ASSUME next <= Len(prog), Stmt.do = "assign" PROVE a = next
  <2>1. next \in DOMAIN prog /\ prog[next].do = "assign"  BY <1>0, <1>2 DEF Stmt
  <2> QED  BY <1>1, <2>1 DEF IsAssignment
<1>3. ASSUME RejectTensor PROVE FALSE
  <2>1. next \in DOMAIN prog /\ prog[next].do = "tensor" /\ prog[next].dims = << >>
    BY <1>0, <1>3 DEF RejectTensor, AtStmt, Stmt
  <2> QED  BY <2>1 DEF WellFormed
<1>4. ASSUME RejectAssign PROVE FALSE
  <2>1. arg = 0 /\ next <= Len(prog) /\ Stmt.do = "assign" /\ ~OutputOK
    BY <1>4 DEF RejectAssign, AtStmt
  <2>2. a = next  BY <1>2, <2>1
  <2>3. CASE out # NoOut
    <3>1. PICK b \in 1 .. Len(prog) : AssignIs(b)  BY <1>0, <2>3 DEF LeavesOK
    <3>2. b \in Assigns(prog, next - 1)  BY <2>1, <3>1 DEF AssignIs, Begun
    <3>3. b \in 1 .. next - 1 /\ prog[b].do = "assign"  BY <3>2 DEF Assigns
    <3>4. b \in DOMAIN prog /\ b # next  BY <1>0, <3>1, <3>3
    <3> QED  BY <1>1, <2>2, <3>3, <3>4 DEF IsAssignment
  <2>4. CASE out = NoOut
    <3>1. Stmt.slices # << >> /\ ~Declared(Stmt.name, tensors)  BY <2>1, <2>4 DEF OutputOK
    <3>2. Stmt.name \in NamesIn(prog)  BY <1>0, <2>1, StmtIs
    <3>3. Declarations(prog, next, "tensor", Stmt.name) = {}
      BY <1>0, <3>1, <3>2 DEF Recorded, Matches
    <3> QED  BY <1>1, <2>2, <3>1, <3>3 DEF IsAssignment, Stmt
  <2> QED  BY <2>3, <2>4
<1>5. ASSUME RejectFactor PROVE FALSE
  <2>1. /\ arg > 0 /\ arg <= Len(Stmt.refs) /\ ~Declared(Ref.name, tensors)
        /\ Declared(Ref.name, scalars) => Ref.slices # << >>
    BY <1>5 DEF RejectFactor, InExpr
  <2>2. next <= Len(prog) /\ Stmt.do = "assign" /\ arg \in Nat  BY <1>0, <2>1 DEF PlaceOK
  <2>3. a = next  BY <1>2, <2>2
  <2>4. Len(Stmt.refs) \in Nat /\ IsStatement(Stmt)  BY <1>0, <2>2, StmtIs
  <2>5. arg \in 1 .. Len(Stmt.refs)  BY <2>1, <2>2, <2>4
  <2>6. Ref.name \in NamesIn(prog)  BY <1>0, <2>2, <2>5, StmtIs DEF Ref
  <2>7. Ref \in Range(prog[next].refs)
    <3>1. IsSeq(Stmt.refs)  BY <2>2, <2>4 DEF IsStatement
    <3> QED  BY <2>5, <3>1, SeqIs DEF Ref, Stmt
  <2>8. KnownRef(prog, next, Ref)  BY <1>1, <2>3, <2>7 DEF IsAssignment
  <2>9. /\ Matches(prog, next, "tensor", tensors, Ref.name)
        /\ Matches(prog, next, "scalar", scalars, Ref.name)
    BY <1>0, <2>6 DEF Recorded
  <2> QED  BY <2>1, <2>8, <2>9 DEF KnownRef, Matches
<1>6. ASSUME RejectProgram PROVE FALSE
  <2>1. AtEnd /\ arg = 0 /\ ~Compiles  BY <1>6 DEF RejectProgram, AtEnd
  <2>2. Assigns(prog, Begun) = {a}  BY <1>1, <2>1, AssignsAre DEF IsAssignment
  <2>3. out # NoOut  BY <1>0, <2>2 DEF LeavesOK
  <2>4. PICK b \in 1 .. Len(prog) : AssignIs(b)  BY <1>0, <2>3 DEF LeavesOK
  <2>5. a = b  BY <2>2, <2>4 DEF AssignIs
  <2>6. OneDtype
    <3>1. IsFiniteSet(Dtypes(prog, a))  BY <2>1, <2>4, <2>5, DtypesFinite
    <3>2. PICK x : Dtypes(prog, a) = {x}
      <4>1. Cardinality(Dtypes(prog, a)) = 1  BY <1>1 DEF IsAssignment
      <4> QED  BY <3>1, <4>1, FS_Singleton
    <3>3. Dtypes(prog, a) = {leaves[k].dtype : k \in DOMAIN leaves}
      BY <2>1, <2>4, <2>5, DtypesAre
    <3>4. \A k \in DOMAIN leaves : leaves[k].dtype = x  BY <3>2, <3>3
    <3> QED  BY <3>4 DEF OneDtype
  <2>7. Tree = TreeBy(prog, a)  BY <2>1, <2>4, <2>5, AtEndIs
  <2>8. ~Flat!Rejected(Tree)  BY <1>1, <2>7 DEF IsAssignment
  <2>9. RegistersFit
    <3>1. Flat!HasTensor(Tree)  BY <2>8 DEF Flat!Rejected
    <3> QED  BY <1>1, <2>1, <2>4, <2>5, <3>1, RegistersAre DEF IsAssignment
  <2> QED  BY <2>1, <2>3, <2>6, <2>8, <2>9 DEF Compiles
<1>7. phase = "parse"
  <2>1. CASE RejectTensor  BY <2>1 DEF RejectTensor, AtStmt
  <2>2. CASE RejectAssign  BY <2>2 DEF RejectAssign, AtStmt
  <2>3. CASE RejectFactor  BY <2>3 DEF RejectFactor, InExpr
  <2>4. CASE RejectProgram  BY <2>4 DEF RejectProgram, AtEnd
  <2>5. ASSUME phase' = phase, InExpr \/ AtStmt("tensor") \/ AtStmt("scalar") \/ AtStmt("assign")
        PROVE  FALSE
    BY <1>0, <2>5 DEF InExpr, AtStmt
  <2>6. CASE MakeTensor \/ MakeScalar \/ BeginAssign \/ TensorFactor \/ ScalarFactor \/ EndAssign
    BY <2>5, <2>6 DEF MakeTensor, MakeScalar, BeginAssign, TensorFactor, ScalarFactor, EndAssign
  <2>7. CASE Generate  BY <1>0, <2>7 DEF Generate
  <2> QED  BY <2>1, <2>2, <2>3, <2>4, <2>6, <2>7 DEF Next
<1>8. CASE MakeTensor \/ MakeScalar \/ BeginAssign \/ TensorFactor \/ ScalarFactor \/ EndAssign
  BY <1>0, <1>7, <1>8
  DEF MakeTensor, MakeScalar, BeginAssign, TensorFactor, ScalarFactor, EndAssign
<1>9. CASE Generate  BY <1>0, <1>9 DEF Generate
<1> QED  BY <1>3, <1>4, <1>5, <1>6, <1>8, <1>9 DEF Next

LEMMA StepOutcome == Inv /\ [Next]_vars => OutcomeOK'
<1> SUFFICES ASSUME Inv, [Next]_vars PROVE OutcomeOK'  OBVIOUS
<1>0. OutcomeOK /\ PlaceOK /\ next \in 1 .. Len(prog) + 1 /\ Len(prog) \in Nat
  BY ProgramIs DEF Inv, PlaceOK
<1>1. CASE UNCHANGED vars
  <2>1. UNCHANGED <<phase, prog, out, arg, next>> /\ Compiles' = Compiles
    BY <1>1 DEF vars, Compiles, OneDtype, Tree, RegistersFit, TensorLeaves, ScalarsUsed, D
  <2> QED  BY <1>0, <2>1 DEF OutcomeOK, AcceptsWellFormed, Generated
<1>2. ASSUME phase' = phase, phase = "parse" PROVE OutcomeOK'
  BY <1>2 DEF OutcomeOK, AcceptsWellFormed, Generated
<1>3. CASE MakeTensor  BY <1>2, <1>3 DEF MakeTensor, AtStmt
<1>4. CASE MakeScalar  BY <1>2, <1>4 DEF MakeScalar, AtStmt
<1>5. CASE BeginAssign  BY <1>2, <1>5 DEF BeginAssign, AtStmt
<1>6. CASE TensorFactor  BY <1>2, <1>6 DEF TensorFactor, InExpr
<1>7. CASE ScalarFactor  BY <1>2, <1>7 DEF ScalarFactor, InExpr
<1>8. CASE EndAssign  BY <1>2, <1>8 DEF EndAssign, InExpr
<1>9. CASE Generate
  <2>1. AtEnd /\ Compiles /\ phase' = "generated"
        /\ UNCHANGED <<prog, next, arg, tensors, scalars, refs, leaves, refCount, out>>
    BY <1>9 DEF Generate
  <2>2. WellFormed(prog)  BY <2>1, AcceptedIsWellFormed
  <2>3. Compiles' = Compiles
    BY <2>1 DEF Compiles, OneDtype, Tree, RegistersFit, TensorLeaves, ScalarsUsed, D
  <2>4. out # NoOut /\ arg = 0 /\ next = Len(prog) + 1  BY <1>0, <2>1 DEF Compiles, AtEnd
  <2> QED  BY <2>1, <2>2, <2>3, <2>4 DEF OutcomeOK, AcceptsWellFormed, Generated
<1>10. ASSUME Next, Reject PROVE OutcomeOK'
  <2>1. ~WellFormed(prog)  BY <1>10, RejectedIsNot
  <2> QED  BY <1>10, <2>1 DEF Reject, OutcomeOK, AcceptsWellFormed, Generated
<1>11. RejectTensor \/ RejectAssign \/ RejectFactor \/ RejectProgram => Next /\ Reject
  BY DEF Next, RejectTensor, RejectAssign, RejectFactor, RejectProgram
<1> QED
  BY <1>1, <1>3, <1>4, <1>5, <1>6, <1>7, <1>8, <1>9, <1>10, <1>11 DEF Next

LEMMA Invariant == Spec => []Inv
<1>1. Inv /\ [Next]_vars => Inv'
  BY StepPlace, StepDecls, StepRefs, StepLeaves, StepOutcome DEF Inv
<1> QED  BY InitInv, <1>1, PTL DEF Spec

LEMMA InvTypeOK == Inv => TypeOK
<1> SUFFICES ASSUME Inv PROVE TypeOK  OBVIOUS
<1>0. /\ PlaceOK /\ RefsAre(NamesIn(prog), refs, refCount, tensors) /\ LeavesOK
      /\ Recorded(prog, next, "tensor", tensors) /\ Recorded(prog, next, "scalar", scalars)
  BY DEF Inv, RefsOK, DeclsOK
<1>1. DOMAIN refs = 1 .. Len(refs) /\ DOMAIN tensors = 1 .. Len(tensors)
      /\ DOMAIN scalars = 1 .. Len(scalars)
  BY <1>0, SeqIs DEF RefsAre, Recorded
<1>2. {t.do : t \in Range(tensors)} \subseteq {"tensor"}  BY <1>0, <1>1 DEF Recorded, Range
<1>3. {t.do : t \in Range(scalars)} \subseteq {"scalar"}  BY <1>0, <1>1 DEF Recorded, Range
<1>4. ASSUME NEW l \in DOMAIN leaves PROVE leaves[l].rank \in Nat
  <2>1. CASE out = NoOut  BY <1>0, <1>4, <2>1 DEF LeavesOK
  <2>2. CASE out # NoOut
    <3>1. PICK a \in 1 .. Len(prog) : AssignIs(a)  BY <1>0, <2>2 DEF LeavesOK
    <3>2. DOMAIN leaves = 1 .. Read(a)  BY <1>0, <3>1, SeqIs DEF AssignIs, LeavesOK
    <3> QED  BY <3>1, <3>2 DEF AssignIs, LeafIs
  <2> QED  BY <2>1, <2>2
<1>5. ASSUME NEW n \in DOMAIN refCount
      PROVE  refCount[n] = Cardinality({j \in DOMAIN refs : refs[j].base = n})
  <2>1. n \in NamesIn(prog)  BY <1>0 DEF RefsAre
  <2>2. RefsTo(refs, n) = {j \in DOMAIN refs : refs[j].base = n}  BY <1>1 DEF RefsTo
  <2> QED  BY <1>0, <2>1, <2>2 DEF RefsAre
<1>6. Cardinality({r.gen : r \in Range(refs)}) = Len(refs)
  <2>1. {r.gen : r \in Range(refs)} = Gens(refs)
    <3>1. \A r : r \in Range(refs) <=> \E j \in 1 .. Len(refs) : r = refs[j]
      BY <1>1 DEF Range
    <3>2. ASSUME NEW g \in {r.gen : r \in Range(refs)} PROVE g \in Gens(refs)
      <4>1. PICK r \in Range(refs) : g = r.gen  BY <3>2
      <4>2. PICK j \in 1 .. Len(refs) : r = refs[j]  BY <3>1, <4>1
      <4> QED  BY <4>1, <4>2 DEF Gens
    <3>3. ASSUME NEW j \in 1 .. Len(refs) PROVE refs[j].gen \in {r.gen : r \in Range(refs)}
      <4>1. refs[j] \in Range(refs)  BY <3>1
      <4> QED  BY <4>1
    <3> QED  BY <3>2, <3>3 DEF Gens
  <2> QED  BY <1>0, <2>1 DEF RefsAre
<1> QED  BY <1>0, <1>2, <1>3, <1>4, <1>5, <1>6 DEF TypeOK, PlaceOK

\* The maps count what the lists hold, and every reference has a name of its own.
THEOREM TypeCorrect == Spec => []TypeOK
<1> QED  BY Invariant, InvTypeOK, PTL

\* A program is accepted exactly when it is well formed: no check is missing, none
\* refuses too much, and what the assertions of the register allocation count in
\* the parser's lists is what the program's text asks for.
THEOREM Accepts == Spec => []AcceptsWellFormed
<1>1. Inv => AcceptsWellFormed  BY DEF Inv, OutcomeOK
<1> QED  BY Invariant, <1>1, PTL

-----------------------------------------------------------------------------
(* Products, sums and positions.                                           *)

LEMMA UpTo ==
    ASSUME NEW n \in Nat, NEW S, 0 \in S,
           \A m \in 0 .. n - 1 : m \in S => m + 1 \in S
    PROVE  \A m \in 0 .. n : m \in S
<1> DEFINE T == {m \in 0 .. n : m \notin S}
<1>1. SUFFICES ASSUME T # {} PROVE FALSE  OBVIOUS
<1>2. T \subseteq Nat  OBVIOUS
<1>3. PICK x \in T : \A y \in T : x <= y
  <2> HIDE DEF T
  <2> QED  BY <1>1, <1>2, Shown!LeastNumber
<1>4. x # 0  OBVIOUS
<1>5. x - 1 \in 0 .. n - 1 /\ x - 1 \notin T  BY <1>3, <1>4
<1>6. x - 1 \in S  BY <1>5
<1> QED  BY <1>5, <1>6

\* h starts at c, and at k is what it was, times a[k], plus b[k].
Folds(h, n, c, a, b) ==
    /\ h \in [0 .. n -> Int] /\ h[0] = c
    /\ \A k \in 1 .. n : h[k] = h[k - 1] * a[k] + b[k]

LEMMA FoldExists ==
    ASSUME NEW n \in Nat, NEW c \in Int, NEW a \in [1 .. n -> Int], NEW b \in [1 .. n -> Int]
    PROVE  \E h : Folds(h, n, c, a, b)
<1> DEFINE Partly(m, h) == /\ h \in [0 .. n -> Int] /\ h[0] = c
                           /\ \A k \in 1 .. m : h[k] = h[k - 1] * a[k] + b[k]
           S == {m \in 0 .. n : \E h : Partly(m, h)}
<1>1. 0 \in S
  <2> DEFINE h == [k \in 0 .. n |-> c]
  <2>1. h \in [0 .. n -> Int] /\ h[0] = c  OBVIOUS
  <2>2. \A k \in 1 .. 0 : FALSE  OBVIOUS
  <2> HIDE DEF h
  <2>3. Partly(0, h)  BY <2>1, <2>2
  <2> HIDE DEF Partly
  <2> QED  BY <2>3
<1>2. ASSUME NEW m \in 0 .. n - 1, m \in S PROVE m + 1 \in S
  <2>1. PICK h : Partly(m, h)  BY <1>2
  <2>2. m + 1 \in 1 .. n /\ m \in 0 .. n /\ m + 1 \in 0 .. n  OBVIOUS
  <2> DEFINE x == h[m] * a[m + 1] + b[m + 1]
             g == [h EXCEPT ![m + 1] = x]
  <2>3. x \in Int
    <3>1. h[m] \in Int /\ a[m + 1] \in Int /\ b[m + 1] \in Int  BY <2>1, <2>2
    <3> QED  BY <3>1
  <2>4. g \in [0 .. n -> Int] /\ g[m + 1] = x /\ \A k \in 0 .. m : g[k] = h[k]
    <3> HIDE DEF x
    <3> QED  BY <2>1, <2>2, <2>3
  <2> HIDE DEF g
  <2>5. g[0] = c  BY <2>1, <2>4
  <2>6. ASSUME NEW k \in 1 .. m + 1 PROVE g[k] = g[k - 1] * a[k] + b[k]
    <3>1. k - 1 \in 0 .. m /\ g[k - 1] = h[k - 1]  BY <2>4
    <3>2. CASE k = m + 1  BY <2>4, <3>1, <3>2
    <3>3. CASE k # m + 1
      <4>1. k \in 1 .. m /\ k \in 0 .. m  BY <3>3
      <4> QED  BY <2>1, <2>4, <3>1, <4>1
    <3> QED  BY <3>2, <3>3
  <2>7. Partly(m + 1, g)  BY <2>4, <2>5, <2>6
  <2> HIDE DEF Partly
  <2> QED  BY <2>2, <2>7
<1>3. n \in S
  <2>1. n \in 0 .. n  OBVIOUS
  <2> HIDE DEF S
  <2> QED  BY <1>1, <1>2, <2>1, UpTo
<1>4. PICK h : Partly(n, h)  BY <1>3
<1> QED  BY <1>4 DEF Folds

\* The same of a function of which it is not known that its values are numbers.
Goes(h, n, c, a, b) ==
    /\ h = [k \in 0 .. n |-> h[k]] /\ h[0] = c
    /\ \A k \in 1 .. n : h[k - 1] \in Int => h[k] = h[k - 1] * a[k] + b[k]

LEMMA FoldIs ==
    ASSUME NEW n \in Nat, NEW c \in Int, NEW a \in [1 .. n -> Int], NEW b \in [1 .. n -> Int],
           NEW h, Goes(h, n, c, a, b)
    PROVE  Folds(h, n, c, a, b)
<1>0. /\ h = [k \in 0 .. n |-> h[k]] /\ h[0] = c
      /\ \A k \in 1 .. n : h[k - 1] \in Int => h[k] = h[k - 1] * a[k] + b[k]
  BY DEF Goes
<1> DEFINE S == {k \in 0 .. n : h[k] \in Int}
<1>1. 0 \in S  BY <1>0
<1>2. ASSUME NEW k \in 0 .. n - 1, k \in S PROVE k + 1 \in S
  <2>1. k + 1 \in 1 .. n /\ (k + 1) - 1 = k /\ k + 1 \in 0 .. n  OBVIOUS
  <2>4. h[k] \in Int  BY <1>2
  <2>2. h[k + 1] = h[k] * a[k + 1] + b[k + 1]  BY <1>0, <2>1, <2>4
  <2>3. a[k + 1] \in Int /\ b[k + 1] \in Int  BY <2>1
  <2> QED  BY <2>1, <2>2, <2>3, <2>4
<1>3. \A k \in 0 .. n : k \in S
  <2> HIDE DEF S
  <2> QED  BY <1>1, <1>2, UpTo
<1>4. h \in [0 .. n -> Int]  BY <1>0, <1>3
<1>5. \A k \in 1 .. n : k - 1 \in 0 .. n  OBVIOUS
<1> QED  BY <1>0, <1>3, <1>4, <1>5 DEF Folds

LEMMA FoldUnique ==
    ASSUME NEW n \in Nat, NEW c, NEW a, NEW b, NEW h, Folds(h, n, c, a, b),
           NEW m \in 0 .. n, NEW p, NEW q, NEW g, Folds(g, m, c, p, q),
           \A k \in 1 .. m : p[k] = a[k] /\ q[k] = b[k]
    PROVE  \A k \in 0 .. m : g[k] = h[k]
<1> DEFINE S == {k \in 0 .. m : g[k] = h[k]}
<1>1. 0 \in S  BY DEF Folds
<1>2. ASSUME NEW k \in 0 .. m - 1, k \in S PROVE k + 1 \in S
  <2>1. k + 1 \in 1 .. n /\ k + 1 \in 1 .. m /\ (k + 1) - 1 = k  OBVIOUS
  <2>2. g[k + 1] = g[k] * p[k + 1] + q[k + 1] /\ h[k + 1] = h[k] * a[k + 1] + b[k + 1]
    BY <2>1 DEF Folds
  <2>3. p[k + 1] = a[k + 1] /\ q[k + 1] = b[k + 1]  BY <2>1
  <2> QED  BY <1>2, <2>1, <2>2, <2>3
<1>3. \A k \in 0 .. m : k \in S
  <2> HIDE DEF S
  <2> QED  BY <1>1, <1>2, UpTo
<1> QED  BY <1>3

Zeros(n) == [k \in 1 .. n |-> 0]

\* The partial products of a sequence.
LEMMA ProductIs ==
    ASSUME NEW s \in Seq(Int)
    PROVE  \E h : Folds(h, Len(s), 1, s, Zeros(Len(s))) /\ Product(s) = h[Len(s)]
<1> DEFINE n == Len(s)
           F(h) == [k \in 0 .. n |-> IF k = 0 THEN 1 ELSE h[k - 1] * s[k]]
           z == Zeros(n)
<1>1. n \in Nat /\ s \in [1 .. n -> Int]  OBVIOUS
<1>2. z \in [1 .. n -> Int] /\ \A k \in 1 .. n : z[k] = 0  BY DEF Zeros
<1> HIDE DEF z
<1>3. PICK f : Folds(f, n, 1, s, z)
  <2> HIDE DEF n
  <2> QED  BY <1>1, <1>2, FoldExists
<1>4. \A x \in Int, k \in 1 .. n : x * s[k] = x * s[k] + z[k]
  <2>1. \A k \in 1 .. n : s[k] \in Int  BY <1>1
  <2> HIDE DEF n
  <2> QED  BY <1>2, <2>1
<1>5. f = F(f)
  <2>1. f \in [0 .. n -> Int]  BY <1>3 DEF Folds
  <2>2. ASSUME NEW k \in 0 .. n PROVE f[k] = IF k = 0 THEN 1 ELSE f[k - 1] * s[k]
    <3>1. CASE k = 0  BY <1>3, <3>1 DEF Folds
    <3>2. CASE k # 0
      <4>1. k \in 1 .. n /\ k - 1 \in 0 .. n  BY <1>1, <3>2
      <4>2. f[k] = f[k - 1] * s[k] + z[k]  BY <1>3, <4>1 DEF Folds
      <4>3. f[k - 1] \in Int  BY <2>1, <4>1
      <4> QED  BY <1>4, <3>2, <4>1, <4>2, <4>3
    <3> QED  BY <3>1, <3>2
  <2> HIDE DEF n
  <2> QED  BY <2>1, <2>2
<1> DEFINE g == CHOOSE h : h = F(h)
<1>6. g = F(g)
  <2> HIDE DEF F
  <2> QED  BY <1>5
<1>7. Product(s) = g[n]  BY DEF Product
<1> HIDE DEF g
<1>8. g = [k \in 0 .. n |-> g[k]] /\ \A k \in 0 .. n : g[k] = IF k = 0 THEN 1 ELSE g[k - 1] * s[k]
  <2> HIDE DEF n
  <2> QED  BY <1>6
<1> HIDE DEF F
<1>9. g[0] = 1  BY <1>1, <1>8
<1>10. \A k \in 1 .. n : g[k - 1] \in Int => g[k] = g[k - 1] * s[k] + z[k]
  <2>1. \A k \in 1 .. n : k \in 0 .. n /\ k # 0  OBVIOUS
  <2> HIDE DEF n
  <2> QED  BY <1>4, <1>8, <2>1
<1>11. Folds(g, n, 1, s, z)
  <2> HIDE DEF n
  <2>1. Goes(g, n, 1, s, z)  BY <1>8, <1>9, <1>10 DEF Goes
  <2>2. 1 \in Int  OBVIOUS
  <2> QED  BY <1>1, <1>2, <2>1, <2>2, FoldIs
<1> QED  BY <1>7, <1>11 DEF z

LEMMA ProductInt ==
    ASSUME NEW s \in Seq(Int)
    PROVE  Product(s) \in Int
<1>1. PICK h : Folds(h, Len(s), 1, s, Zeros(Len(s))) /\ Product(s) = h[Len(s)]  BY ProductIs
<1>2. Len(s) \in 0 .. Len(s)  OBVIOUS
<1> QED  BY <1>1, <1>2 DEF Folds

LEMMA ProductEmpty == Product(<< >>) = 1
<1>1. << >> \in Seq(Int) /\ Len(<< >>) = 0  OBVIOUS
<1>2. PICK h : Folds(h, Len(<< >>), 1, << >>, Zeros(Len(<< >>))) /\ Product(<< >>) = h[Len(<< >>)]
  BY <1>1, ProductIs
<1> QED  BY <1>1, <1>2 DEF Folds

\* A sequence's product is that of all but its last element times the last.
LEMMA ProductMore ==
    ASSUME NEW s \in Seq(Int), NEW t \in Seq(Int), Len(t) = Len(s) + 1,
           \A k \in 1 .. Len(s) : s[k] = t[k]
    PROVE  Product(t) = Product(s) * t[Len(t)]
<1> DEFINE m == Len(s)
           n == Len(t)
<1>1. PICK g : Folds(g, m, 1, s, Zeros(m)) /\ Product(s) = g[m]  BY ProductIs
<1>2. PICK h : Folds(h, n, 1, t, Zeros(n)) /\ Product(t) = h[n]  BY ProductIs
<1>3. m \in Nat /\ n = m + 1 /\ t[n] \in Int  OBVIOUS
<1> HIDE DEF m, n
<1>4. \A k \in 1 .. m : s[k] = t[k] /\ Zeros(m)[k] = Zeros(n)[k]
  BY <1>3 DEF Zeros, m
<1>5. n \in Nat /\ m \in 0 .. n  BY <1>3
<1>6. \A k \in 0 .. m : g[k] = h[k]  BY <1>1, <1>2, <1>4, <1>5, FoldUnique
<1>7. h[n] = h[n - 1] * t[n] + Zeros(n)[n]
  <2>1. n \in 1 .. n  BY <1>3
  <2> QED  BY <1>2, <2>1 DEF Folds
<1>8. Zeros(n)[n] = 0 /\ n - 1 = m /\ g[m] = h[m]
  <2>1. n \in 1 .. n /\ m \in 0 .. m /\ n - 1 = m  BY <1>3
  <2> QED  BY <1>6, <2>1 DEF Zeros
<1>9. g[m] \in Int  BY <1>1, <1>3 DEF Folds
<1>10. h[n] = g[m] * t[n] + 0  BY <1>7, <1>8
<1>11. h[n] = g[m] * t[n]  BY <1>3, <1>9, <1>10
<1> QED  BY <1>1, <1>2, <1>11 DEF n

\* The partial positions of an index.
LEMMA PositionIs ==
    ASSUME NEW dims \in Seq(Int), NEW ix \in [1 .. Len(dims) -> Int]
    PROVE  \E h : Folds(h, Len(dims), 0, dims, ix) /\ Position(dims, ix) = h[Len(dims)]
<1> DEFINE n == Len(dims)
           F(h) == [k \in 0 .. n |-> IF k = 0 THEN 0 ELSE h[k - 1] * dims[k] + ix[k]]
<1>1. n \in Nat /\ dims \in [1 .. n -> Int] /\ ix \in [1 .. n -> Int]  OBVIOUS
<1>2. PICK f : Folds(f, n, 0, dims, ix)
  <2>1. 0 \in Int  OBVIOUS
  <2> HIDE DEF n
  <2> QED  BY <1>1, <2>1, FoldExists
<1>3. f = F(f)
  <2>1. f \in [0 .. n -> Int]  BY <1>2 DEF Folds
  <2>2. ASSUME NEW k \in 0 .. n
        PROVE  f[k] = IF k = 0 THEN 0 ELSE f[k - 1] * dims[k] + ix[k]
    <3>1. CASE k = 0  BY <1>2, <3>1 DEF Folds
    <3>2. CASE k # 0
      <4>1. k \in 1 .. n  BY <1>1, <3>2
      <4> QED  BY <1>2, <3>2, <4>1 DEF Folds
    <3> QED  BY <3>1, <3>2
  <2> HIDE DEF n
  <2> QED  BY <2>1, <2>2
<1> DEFINE g == CHOOSE h : h = F(h)
<1>4. g = F(g)
  <2> HIDE DEF F
  <2> QED  BY <1>3
<1>5. Position(dims, ix) = g[n]  BY DEF Position
<1> HIDE DEF g
<1>6. /\ g = [k \in 0 .. n |-> g[k]]
      /\ \A k \in 0 .. n : g[k] = IF k = 0 THEN 0 ELSE g[k - 1] * dims[k] + ix[k]
  <2> HIDE DEF n
  <2> QED  BY <1>4
<1> HIDE DEF F
<1>7. g[0] = 0  BY <1>1, <1>6
<1>8. \A k \in 1 .. n : g[k - 1] \in Int => g[k] = g[k - 1] * dims[k] + ix[k]
  <2>1. \A k \in 1 .. n : k \in 0 .. n /\ k # 0  OBVIOUS
  <2> HIDE DEF n
  <2> QED  BY <1>6, <2>1
<1>9. Folds(g, n, 0, dims, ix)
  <2> HIDE DEF n
  <2>1. Goes(g, n, 0, dims, ix)  BY <1>6, <1>7, <1>8 DEF Goes
  <2>2. 0 \in Int  OBVIOUS
  <2> QED  BY <1>1, <2>1, <2>2, FoldIs
<1> QED  BY <1>5, <1>9

-----------------------------------------------------------------------------
(* The words the kernel reads: the loop nest's sum of strides, innermost   *)
(* first, is the row-major position of the element, outermost first.       *)

LEMMA ProductPrefix ==
    ASSUME NEW n \in Nat, NEW f \in [1 .. n -> Int]
    PROVE  f \in Seq(Int) /\ Len(f) = n
OBVIOUS

LEMMA FoldStep ==
    ASSUME NEW n \in Nat, NEW c, NEW a, NEW b, NEW h, Folds(h, n, c, a, b), NEW k \in 0 .. n - 1
    PROVE  h[k] \in Int /\ h[k + 1] \in Int /\ h[k + 1] = h[k] * a[k + 1] + b[k + 1]
<1>1. k \in 0 .. n /\ k + 1 \in 1 .. n /\ k + 1 \in 0 .. n /\ (k + 1) - 1 = k  OBVIOUS
<1>2. h[k + 1] = h[(k + 1) - 1] * a[k + 1] + b[k + 1]  BY <1>1 DEF Folds
<1> QED  BY <1>1, <1>2 DEF Folds

LEMMA NoughtTimes ==
    ASSUME NEW u \in Int, NEW v \in Int
    PROVE  0 * u = 0 * v
OBVIOUS

LEMMA Regroup ==
    ASSUME NEW h \in Int, NEW d \in Int, NEW y \in Int, NEW s \in Int, NEW t \in Int
    PROVE  (h * d + y) * s + t = h * (s * d) + (t * 1 + y * s)
<1>1. (h * d + y) * s = (h * d) * s + y * s  OBVIOUS
<1>2. (h * d) * s = h * (s * d)  OBVIOUS
<1>3. y * s \in Int /\ (h * d) * s \in Int  OBVIOUS
<1> QED  BY <1>1, <1>2, <1>3

\* st are the products of the first dimensions, dims the dimensions in the
\* other order but for the last, and a and b the sum of y by st.
Strides(n, st, dim) ==
    /\ st \in [0 .. n -> Int] /\ dim \in [0 .. n - 1 -> Int]
    /\ st[0] = 1 /\ \A d \in 0 .. n - 1 : st[d + 1] = st[d] * dim[d]
Turned(n, dims, dim) == dims \in [1 .. n -> Int] /\ \A d \in 2 .. n : dims[d] = dim[n - d]
Weighed(n, a, b, y, st) == \A k \in 1 .. n : a[k] = 1 /\ b[k] = y[k - 1] * st[k - 1]
TurnedIx(n, ix, y) == y \in [0 .. n - 1 -> Int] /\ \A k \in 1 .. n : ix[k] = y[n - k]

LEMMA Horner ==
    ASSUME NEW n \in Nat, NEW st, NEW dim, NEW dims, NEW y, NEW a, NEW b, NEW ix,
           Strides(n, st, dim), Turned(n, dims, dim), Weighed(n, a, b, y, st), TurnedIx(n, ix, y),
           NEW t, Folds(t, n, 0, a, b), NEW h, Folds(h, n, 0, dims, ix)
    PROVE  t[n] = h[n]
<1> USE DEF Strides, Turned, Weighed, TurnedIx
<1> DEFINE S == {k \in 0 .. n : h[k] * st[n - k] + t[n - k] = t[n]}
<1>1. 0 \in S
  <2>1. h[0] = 0 /\ st[n] \in Int /\ t[n] \in Int  BY DEF Folds
  <2>2. 0 * st[n] = 0  BY <2>1
  <2>3. 0 + t[n] = t[n]  BY <2>1
  <2> QED  BY <2>1, <2>2, <2>3
<1>2. ASSUME NEW k \in 0 .. n - 1, k \in S PROVE k + 1 \in S
  <2> DEFINE m == n - (k + 1)
  <2>1. /\ m \in 0 .. n - 1 /\ m \in 0 .. n /\ m + 1 \in 1 .. n /\ k + 1 \in 1 .. n /\ n - k = m + 1
        /\ (k + 1) - 1 = k /\ (m + 1) - 1 = m /\ k \in 0 .. n /\ k + 1 \in 0 .. n
    OBVIOUS
  <2>2. n - (k + 1) = m  OBVIOUS
  <2> HIDE DEF m
  <2>3. h[k + 1] = h[k] * dims[k + 1] + y[m]
    <3>0. Folds(h, n, 0, dims, ix) /\ k \in 0 .. n - 1  OBVIOUS
    <3>1. h[k + 1] = h[k] * dims[k + 1] + ix[k + 1]
      <4> HIDE DEF Strides, Turned, Weighed, TurnedIx, S
      <4> QED  BY <3>0, FoldStep
    <3> QED  BY <2>1, <2>2, <3>1
  <2>4. t[m + 1] = t[m] * 1 + y[m] * st[m]
    <3>1. t[m + 1] = t[m] * a[m + 1] + b[m + 1]  BY <2>1, FoldStep
    <3>2. a[m + 1] = 1 /\ b[m + 1] = y[(m + 1) - 1] * st[(m + 1) - 1]  BY <2>1
    <3>3. b[m + 1] = y[m] * st[m]  BY <2>1, <3>2
    <3> QED  BY <3>1, <3>2, <3>3
  <2>5. st[m + 1] = st[m] * dim[m]  BY <2>1
  <2>6. /\ h[k] \in Int /\ dims[k + 1] \in Int /\ dim[m] \in Int /\ y[m] \in Int
        /\ st[m] \in Int /\ t[m] \in Int
    BY <2>1 DEF Folds
  <2>7. h[k] * dims[k + 1] = h[k] * dim[m]
    <3>1. CASE k = 0
      <4>1. h[k] = 0  BY <3>1 DEF Folds
      <4>2. 0 * dims[k + 1] = 0 * dim[m]  BY <2>6, NoughtTimes
      <4> QED  BY <4>1, <4>2
    <3>2. CASE k # 0
      <4>1. k + 1 \in 2 .. n  BY <2>1, <3>2
      <4>2. dims[k + 1] = dim[m]  BY <2>2, <4>1
      <4> QED  BY <4>2
    <3> QED  BY <3>1, <3>2
  <2>8. (h[k] * dim[m] + y[m]) * st[m] + t[m] = h[k] * (st[m] * dim[m]) + (t[m] * 1 + y[m] * st[m])
    <3> DEFINE u == h[k]
               v == dim[m]
               w == y[m]
               r == st[m]
               z == t[m]
    <3>1. u \in Int /\ v \in Int /\ w \in Int /\ r \in Int /\ z \in Int  BY <2>6
    <3> HIDE DEF u, v, w, r, z
    <3>2. (u * v + w) * r + z = u * (r * v) + (z * 1 + w * r)  BY <3>1, Regroup
    <3> QED  BY <3>2 DEF u, v, w, r, z
  <2>9. h[k + 1] * st[m] + t[m] = h[k] * st[n - k] + t[n - k]
    BY <2>1, <2>3, <2>4, <2>5, <2>7, <2>8
  <2>10. h[k] * st[n - k] + t[n - k] = t[n]  BY <1>2
  <2> QED  BY <2>1, <2>2, <2>9, <2>10
<1>3. n \in S
  <2>1. n \in 0 .. n  OBVIOUS
  <2> HIDE DEF S
  <2> QED  BY <1>1, <1>2, <2>1, UpTo
<1>4. n - n = 0 /\ h[n] * 1 + 0 = h[n]
  <2>1. h[n] \in Int  BY DEF Folds
  <2> QED  BY <2>1
<1>5. t[0] = 0 /\ h[n] * st[n - n] + t[n - n] = t[n]  BY <1>3 DEF Folds
<1> QED  BY <1>4, <1>5

\* The first tensor read has D dimensions.
FirstOK == D \in Nat /\ DeclOf(First).dims \in Seq(Int) /\ Len(DeclOf(First).dims) = D

LEMMA DimIs ==
    ASSUME FirstOK, NEW d \in 0 .. D - 1
    PROVE  Dim(d) = DeclOf(First).dims[D - d] /\ Dim(d) \in Int /\ D - d \in 1 .. D
<1>1. D - d \in 1 .. D /\ D \in Nat  BY DEF FirstOK
<1>2. DeclOf(First).dims[D - d] \in Int  BY <1>1 DEF FirstOK
<1> QED  BY <1>1, <1>2 DEF Dim

LEMMA StrideIs ==
    ASSUME FirstOK
    PROVE  /\ Stride(0) = 1
           /\ \A d \in 0 .. D : Stride(d) \in Int
           /\ \A d \in 0 .. D - 1 : Stride(d + 1) = Stride(d) * Dim(d)
<1> DEFINE s(d) == [e \in 1 .. d |-> Dim(e - 1)]
<1>0. D \in Nat  BY DEF FirstOK
<1>1. ASSUME NEW d \in 0 .. D PROVE s(d) \in Seq(Int) /\ Len(s(d)) = d
  <2>1. \A e \in 1 .. d : e - 1 \in 0 .. D - 1  BY <1>0
  <2>2. \A e \in 1 .. d : Dim(e - 1) \in Int  BY <2>1, DimIs
  <2>3. s(d) \in [1 .. d -> Int] /\ d \in Nat  BY <1>0, <2>2
  <2> HIDE DEF s
  <2> QED  BY <2>3, ProductPrefix
<1>2. \A d : Stride(d) = Product(s(d))  BY DEF Stride
<1>3. Stride(0) = 1
  <2>1. 0 \in 0 .. D  BY <1>0
  <2>2. s(0) \in Seq(Int) /\ Len(s(0)) = 0  BY <1>1, <2>1
  <2> HIDE DEF s
  <2>3. s(0) = << >>  BY <2>2
  <2> QED  BY <1>2, <2>3, ProductEmpty
<1>4. ASSUME NEW d \in 0 .. D PROVE Stride(d) \in Int
  <2> HIDE DEF s
  <2> QED  BY <1>1, <1>2, ProductInt
<1>5. ASSUME NEW d \in 0 .. D - 1 PROVE Stride(d + 1) = Stride(d) * Dim(d)
  <2>1. d \in 0 .. D /\ d + 1 \in 0 .. D /\ (d + 1) - 1 = d /\ d + 1 \in 1 .. d + 1  BY <1>0
  <2>2. s(d + 1)[d + 1] = Dim(d)  BY <2>1
  <2>3. \A k \in 1 .. d : k \in 1 .. d + 1 /\ s(d)[k] = s(d + 1)[k]  BY <2>1
  <2> HIDE DEF s
  <2>4. Len(s(d)) = d /\ Len(s(d + 1)) = d + 1 /\ s(d) \in Seq(Int) /\ s(d + 1) \in Seq(Int)
    BY <1>1, <2>1
  <2>5. Product(s(d + 1)) = Product(s(d)) * s(d + 1)[d + 1]
    BY <2>3, <2>4, ProductMore
  <2> QED  BY <1>2, <2>2, <2>5
<1> QED  BY <1>3, <1>4, <1>5

Ones(n) == [k \in 1 .. n |-> 1]
Terms(slices, x) == [k \in 1 .. D |-> (Start(slices, k - 1) + x[k - 1]) * Stride(k - 1)]

LEMMA StartIs ==
    ASSUME D \in Nat, NEW slices \in Seq(Int \X Int), NEW d \in 0 .. D - 1
    PROVE  Start(slices, d) \in Int
<1>1. CASE D - d <= Len(slices)
  <2>1. D - d \in 1 .. Len(slices)  BY <1>1
  <2>2. slices[D - d] \in Int \X Int  BY <2>1
  <2> QED  BY <1>1, <2>2 DEF Start
<1>2. CASE ~(D - d <= Len(slices))  BY <1>2 DEF Start
<1> QED  BY <1>1, <1>2

LEMMA TermsAre ==
    ASSUME FirstOK, NEW slices \in Seq(Int \X Int), NEW x \in [Dims -> Int]
    PROVE  Terms(slices, x) \in [1 .. D -> Int]
<1>1. ASSUME NEW k \in 1 .. D PROVE (Start(slices, k - 1) + x[k - 1]) * Stride(k - 1) \in Int
  <2>1. k - 1 \in 0 .. D - 1 /\ k - 1 \in 0 .. D /\ D \in Nat  BY DEF FirstOK
  <2>2. Start(slices, k - 1) \in Int  BY <2>1, StartIs
  <2>3. x[k - 1] \in Int /\ Stride(k - 1) \in Int  BY <2>1, StrideIs DEF Dims
  <2> QED  BY <2>2, <2>3
<1> QED  BY <1>1 DEF Terms

LEMMA WordForIs ==
    ASSUME FirstOK, NEW base, NEW slices \in Seq(Int \X Int), NEW x \in [Dims -> Int]
    PROVE  \E t : /\ Folds(t, D, 0, Ones(D), Terms(slices, x))
                  /\ WordFor(base, slices, x) = Off(base) + t[D]
<1> DEFINE term(k) == (Start(slices, k - 1) + x[k - 1]) * Stride(k - 1)
           F(h) == [k \in 0 .. D |-> IF k = 0 THEN 0 ELSE
                      h[k - 1] + (Start(slices, k - 1) + x[k - 1]) * Stride(k - 1)]
           b == Terms(slices, x)
           a == Ones(D)
<1>1. D \in Nat /\ b \in [1 .. D -> Int] /\ a \in [1 .. D -> Int]
  BY TermsAre DEF FirstOK, Ones
<1>2. \A k \in 1 .. D : a[k] = 1 /\ b[k] = term(k)  BY DEF Ones, Terms
<1>3. \A h, k : F(h) = [j \in 0 .. D |-> IF j = 0 THEN 0 ELSE h[j - 1] + term(j)]  OBVIOUS
<1> DEFINE G(h) == [j \in 0 .. D |-> IF j = 0 THEN 0 ELSE h[j - 1] + term(j)]
<1> HIDE DEF a, b
<1>4. \A z \in Int, k \in 1 .. D : z + term(k) = z * a[k] + b[k]
  <2>1. \A k \in 1 .. D : b[k] \in Int  BY <1>1
  <2> HIDE DEF term
  <2> QED  BY <1>2, <2>1
<1>5. PICK f : Folds(f, D, 0, a, b)
  <2>1. 0 \in Int  OBVIOUS
  <2> QED  BY <1>1, <2>1, FoldExists
<1>6. f = G(f)
  <2> HIDE DEF term
  <2>1. f \in [0 .. D -> Int]  BY <1>5 DEF Folds
  <2>2. ASSUME NEW k \in 0 .. D PROVE f[k] = IF k = 0 THEN 0 ELSE f[k - 1] + term(k)
    <3>1. CASE k = 0  BY <1>5, <3>1 DEF Folds
    <3>2. CASE k # 0
      <4>1. k \in 1 .. D /\ k - 1 \in 0 .. D  BY <1>1, <3>2
      <4>2. f[k] = f[k - 1] * a[k] + b[k]  BY <1>5, <4>1 DEF Folds
      <4>3. f[k - 1] \in Int  BY <2>1, <4>1
      <4> QED  BY <1>4, <3>2, <4>1, <4>2, <4>3
    <3> QED  BY <3>1, <3>2
  <2> QED  BY <2>1, <2>2
<1> DEFINE g == CHOOSE h : h = F(h)
<1>7. g = G(g)
  <2>1. \A h : F(h) = G(h)  BY <1>3
  <2>2. f = F(f)  BY <1>6, <2>1
  <2> HIDE DEF F, G
  <2>3. g = F(g)  BY <2>2
  <2> HIDE DEF g
  <2> QED  BY <2>1, <2>3
<1>8. WordFor(base, slices, x) = Off(base) + g[D]  BY DEF WordFor
<1> HIDE DEF g, F, term
<1>9. /\ g = [k \in 0 .. D |-> g[k]]
      /\ \A k \in 0 .. D : g[k] = IF k = 0 THEN 0 ELSE g[k - 1] + term(k)
  BY <1>7
<1> HIDE DEF G
<1>10. g[0] = 0
  <2>1. 0 \in 0 .. D  BY <1>1
  <2> QED  BY <1>9, <2>1
<1>11. \A k \in 1 .. D : g[k - 1] \in Int => g[k] = g[k - 1] * a[k] + b[k]
  <2>1. \A k \in 1 .. D : k \in 0 .. D /\ k # 0  OBVIOUS
  <2> QED  BY <1>4, <1>9, <2>1
<1>12. Folds(g, D, 0, a, b)
  <2>1. Goes(g, D, 0, a, b)  BY <1>9, <1>10, <1>11 DEF Goes
  <2>2. 0 \in Int  OBVIOUS
  <2> QED  BY <1>1, <2>1, <2>2, FoldIs
<1> QED  BY <1>8, <1>12 DEF a, b

\* Whatever tensor of the same rows and slices of it.
LEMMA WordIsElement ==
    ASSUME FirstOK, NEW base, NEW slices \in Seq(Int \X Int), NEW x \in [Dims -> Int],
           NEW dims \in Seq(Int), Len(dims) = D,
           \A d \in 2 .. D : dims[d] = DeclOf(First).dims[d]
    PROVE  WordFor(base, slices, x) = Off(base) + Element(dims, slices, x)
<1> DEFINE ix == [d \in DOMAIN dims |->
                    (IF d <= Len(slices) THEN slices[d][1] ELSE 0) + x[D - d]]
           y == [i \in 0 .. D - 1 |-> Start(slices, i) + x[i]]
           st == [d \in 0 .. D |-> Stride(d)]
           dim == [d \in 0 .. D - 1 |-> Dim(d)]
<1>0. D \in Nat /\ DOMAIN dims = 1 .. D  BY DEF FirstOK
<1>1. Element(dims, slices, x) = Position(dims, ix)  BY DEF Element
<1>2. \A i \in 0 .. D - 1 : Start(slices, i) \in Int /\ x[i] \in Int
  BY <1>0, StartIs DEF Dims
<1>3. y \in [0 .. D - 1 -> Int] /\ \A i \in 0 .. D - 1 : y[i] = Start(slices, i) + x[i]
  BY <1>2
<1>4. /\ st \in [0 .. D -> Int] /\ st[0] = 1
      /\ \A d \in 0 .. D : st[d] = Stride(d)
  BY <1>0, StrideIs
<1>5. dim \in [0 .. D - 1 -> Int] /\ \A d \in 0 .. D - 1 : dim[d] = Dim(d)  BY DimIs
<1>6. \A d \in 0 .. D - 1 : st[d + 1] = st[d] * dim[d]
  <2>1. \A d \in 0 .. D - 1 : d \in 0 .. D /\ d + 1 \in 0 .. D  BY <1>0
  <2> HIDE DEF st, dim
  <2> QED  BY <1>4, <1>5, <2>1, StrideIs
<1>7. ASSUME NEW d \in 1 .. D PROVE ix[d] = y[D - d] /\ ix[d] \in Int
  <2>1. D - d \in 0 .. D - 1 /\ D - (D - d) = d  BY <1>0
  <2>2. Start(slices, D - d) = IF d <= Len(slices) THEN slices[d][1] ELSE 0
    BY <2>1 DEF Start
  <2>3. ix[d] = Start(slices, D - d) + x[D - d]  BY <1>0, <2>2
  <2> HIDE DEF ix, y
  <2> QED  BY <1>2, <1>3, <2>1, <2>3
<1>8. ix \in [1 .. Len(dims) -> Int]  BY <1>0, <1>7
<1> HIDE DEF ix, y, st, dim
<1>9. PICK h : Folds(h, Len(dims), 0, dims, ix) /\ Position(dims, ix) = h[Len(dims)]
  BY <1>8, PositionIs
<1>10. PICK t : /\ Folds(t, D, 0, Ones(D), Terms(slices, x))
                /\ WordFor(base, slices, x) = Off(base) + t[D]
  BY WordForIs
<1>11. \A k \in 1 .. D : Ones(D)[k] = 1 /\ Terms(slices, x)[k] = y[k - 1] * st[k - 1]
  <2>1. \A k \in 1 .. D : k - 1 \in 0 .. D - 1 /\ k - 1 \in 0 .. D  BY <1>0
  <2> QED  BY <1>3, <1>4, <2>1 DEF Ones, Terms
<1>12. \A d \in 2 .. D : dims[d] = dim[D - d]
  <2>1. ASSUME NEW d \in 2 .. D PROVE dims[d] = dim[D - d]
    <3>1. D - d \in 0 .. D - 1 /\ D - (D - d) = d  BY <1>0
    <3>2. Dim(D - d) = DeclOf(First).dims[d]  BY <3>1, DimIs
    <3> QED  BY <1>5, <3>1, <3>2
  <2> QED  BY <2>1
<1>13. dims \in [1 .. D -> Int]  OBVIOUS
<1>14. t[D] = h[D]
  <2>1. Strides(D, st, dim)  BY <1>4, <1>5, <1>6 DEF Strides
  <2>2. Turned(D, dims, dim)  BY <1>12, <1>13 DEF Turned
  <2>3. Weighed(D, Ones(D), Terms(slices, x), y, st)  BY <1>11 DEF Weighed
  <2>4. TurnedIx(D, ix, y)  BY <1>3, <1>7 DEF TurnedIx
  <2>5. Folds(h, D, 0, dims, ix)  BY <1>9
  <2> QED  BY <1>0, <1>10, <2>1, <2>2, <2>3, <2>4, <2>5, Horner
<1> QED  BY <1>1, <1>9, <1>10, <1>14

-----------------------------------------------------------------------------
(* A regular program's references.                                         *)

LEMMA SameTree == \A e : Flat!IsTree(e) <=> Shown!IsTree(e)
BY DEF Flat!IsTree, Shown!IsTree, Flat!Node, Shown!Node, Flat!Ops, Shown!Ops, Flat!None, Shown!None

LEMMA SameRejected == \A e : ~Flat!Rejected(e) => Shown!HasTensor(e)
BY DEF Flat!Rejected, Flat!HasTensor, Shown!HasTensor

LEMMA SameSimple ==
    ASSUME NEW e, NEW i
    PROVE  (Flat!Simple(e, i) <=> Shown!Simple(e, i)) /\ (Flat!Leaf(e, i) <=> Shown!Leaf(e, i))
BY DEF Flat!Simple, Shown!Simple, Flat!Leaf, Shown!Leaf, Flat!FusedMul, Shown!FusedMul,
       Flat!Scalar, Shown!Scalar

LEMMA SameFlatten == \A e : Flat!Flatten(e) = Shown!Flatten(e)
BY DEF Flat!Flatten, Shown!Flatten, Flat!Code, Shown!Code,
       Flat!Simple, Shown!Simple, Flat!Leaf, Shown!Leaf, Flat!FusedMul, Shown!FusedMul,
       Flat!Scalar, Shown!Scalar, Flat!MakeStep, Shown!MakeStep, Flat!Joined, Shown!Joined,
       Flat!None, Shown!None

LEMMA FirstIs ==
    ASSUME Inv, Generated
    PROVE  First \in TensorLeaves
<1>1. out # NoOut /\ arg = 0 /\ Compiles  BY DEF Inv, OutcomeOK
<1>2. PICK a \in 1 .. Len(prog) : AssignIs(a)  BY <1>1 DEF Inv, LeavesOK
<1>3. Shown!IsTree(Tree)  BY <1>1, <1>2, AtEndIs, SameTree
<1>4. Shown!HasTensor(Tree)  BY <1>1, SameRejected DEF Compiles
<1>5. \A i \in DOMAIN Tree : Tree[i].kind # "op" =>
         Tree[i].name \in DOMAIN leaves /\ Tree[i].kind = leaves[Tree[i].name].kind
  BY <1>1, <1>2, NodeIs
<1>6. \A i, j \in DOMAIN Tree : Shown!Leaf(Tree, i) /\ Shown!Leaf(Tree, j)
                                 /\ Tree[i].name = Tree[j].name => Tree[i].kind = Tree[j].kind
  BY <1>5 DEF Shown!Leaf
<1> DEFINE s == Flat!Flatten(Tree)
           T == {j \in DOMAIN s : s[j].leaf \in TensorLeaves}
<1>7. s = Shown!Flatten(Tree)  BY SameFlatten
<1>8. DOMAIN s = 1 .. Len(s)
  <2>1. Shown!Flatten(Tree) \in Shown!Block(Tree)  BY <1>3, Shown!FlattenBlock
  <2>2. Shown!Flatten(Tree) \in Seq(Shown!StepOf(Tree))  BY <2>1 DEF Shown!Block
  <2> HIDE DEF s
  <2> QED  BY <1>7, <2>2
<1>9. PICK j \in 1 .. Len(s), i \in DOMAIN Tree : Tree[i].kind = "tensor" /\ s[j].leaf = Tree[i].name
  <2> HIDE DEF s
  <2> QED  BY <1>3, <1>4, <1>6, <1>7, Shown!TensorStep
<1>10. j \in T
  <2>1. Tree[i].kind # "op"  BY <1>9
  <2>2. Tree[i].name \in TensorLeaves  BY <1>5, <1>9, <2>1 DEF TensorLeaves
  <2> HIDE DEF s
  <2> QED  BY <1>8, <1>9, <2>2
<1>11. Min(T) \in T
  <2>1. T \subseteq Nat
    <3> HIDE DEF s
    <3> QED  BY <1>8
  <2> HIDE DEF T
  <2> QED  BY <1>10, <2>1, MinOf
<1>12. First = s[Min(T)].leaf  BY DEF First
<1> HIDE DEF s
<1> QED  BY <1>11, <1>12

LEMMA ReferenceIs ==
    ASSUME Inv, Generated, NEW l \in TensorLeaves
    PROVE  /\ RefOf(l).slices \in Seq(Int \X Int)
           /\ DeclOf(l).dims \in Seq(Int) /\ DeclOf(l).dims # << >>
<1>1. out # NoOut /\ arg = 0  BY DEF Inv, OutcomeOK
<1>2. PICK a \in 1 .. Len(prog) : AssignIs(a)  BY <1>1 DEF Inv, LeavesOK
<1>3. l \in DOMAIN leaves /\ leaves[l].kind = "tensor"  BY DEF TensorLeaves
<1>4. LeafIs(prog, a, l, leaves[l], refs)  BY <1>1, <1>2, <1>3, AtEndIs
<1>5. PICK j \in 1 .. Len(refs) : refs[j].gen = leaves[l].name  BY <1>3, <1>4 DEF LeafIs
<1>6. /\ DOMAIN refs = 1 .. Len(refs)
      /\ \A i \in 1 .. Len(refs) : RefIs(NamesIn(prog), refs[i], refCount, tensors)
  BY SeqIs DEF Inv, RefsOK, RefsAre
<1>7. refs[j] \in Range(refs)  BY <1>6 DEF Range
<1>8. RefOf(l) \in Range(refs)  BY <1>5, <1>7 DEF RefOf
<1>9. PICK i \in 1 .. Len(refs) : RefOf(l) = refs[i]  BY <1>6, <1>8 DEF Range
<1>10. RefOf(l).slices \in Seq(Int \X Int) /\ Declared(RefOf(l).base, tensors)
  BY <1>6, <1>9 DEF RefIs
<1>11. Recorded(prog, next, "tensor", tensors)  BY DEF Inv, DeclsOK
<1> QED  BY <1>10, <1>11, TensorDeclared DEF DeclOf

\* So the first tensor read has the dimensions the loop nest has.
LEMMA RegularIs ==
    ASSUME Inv, Regular
    PROVE  FirstOK /\ D > 0 /\ First \in TensorLeaves
<1>1. Generated /\ SameRows  BY DEF Regular
<1>2. First \in TensorLeaves  BY <1>1, FirstIs
<1>3. DeclOf(First).dims \in Seq(Int) /\ DeclOf(First).dims # << >>  BY <1>1, <1>2, ReferenceIs
<1>4. Len(DeclOf(First).dims) = D  BY <1>1, <1>2 DEF SameRows
<1>5. Len(DeclOf(First).dims) \in Nat /\ Len(DeclOf(First).dims) > 0  BY <1>3
<1> QED  BY <1>2, <1>3, <1>4, <1>5 DEF FirstOK

-----------------------------------------------------------------------------
(* Indices of the loop nest.                                               *)

LEMMA IndexIs ==
    ASSUME NEW x \in Index
    PROVE  x \in [Dims -> Int] /\ \A d \in Dims : 0 <= x[d] /\ x[d] < Size(d)
<1> DEFINE top == Max({Size(d) : d \in Dims}) - 1
<1>1. x \in [Dims -> 0 .. top] /\ \A d \in Dims : x[d] < Size(d)  BY DEF Index
<1> HIDE DEF top
<1>2. \A d \in Dims : x[d] \in 0 .. top  BY <1>1
<1>3. \A d \in Dims : x[d] \in Int /\ 0 <= x[d]
  <2>1. \A z \in 0 .. top : z \in Int /\ 0 <= z  OBVIOUS
  <2> QED  BY <1>2, <2>1
<1>4. x = [d \in Dims |-> x[d]]  BY <1>1
<1> QED  BY <1>1, <1>3, <1>4

-----------------------------------------------------------------------------
(* What is stored to.                                                      *)

LEMMA WithinStep ==
    ASSUME NEW h \in Int, NEW p \in Int, NEW d \in Int, NEW e \in Int, NEW i \in Int,
           0 <= h, h <= p - 1, 0 <= i, i <= e - 1, e = d \/ h = 0
    PROVE  0 <= h * d + i /\ h * d + i <= p * e - 1
<1>1. CASE e = d
  <2> DEFINE u == p - 1 - h
  <2>1. u \in Nat /\ e \in Nat /\ h \in Nat  OBVIOUS
  <2>2. u * e >= 0 /\ h * e >= 0  BY <2>1
  <2>3. u * e = p * e - e - h * e  OBVIOUS
  <2>4. h * e + i \in Int /\ p * e \in Int /\ h * e \in Int  OBVIOUS
  <2> HIDE DEF u
  <2>5. 0 <= h * e + i /\ h * e + i <= p * e - 1
    <3> DEFINE a == h * e
               b == p * e
               c == u * e
    <3>1. a \in Int /\ b \in Int /\ c \in Int /\ c >= 0 /\ a >= 0 /\ c = b - e - a
      BY <2>1, <2>2, <2>3, <2>4
    <3> HIDE DEF a, b, c
    <3>2. 0 <= a + i /\ a + i <= b - 1  BY <3>1
    <3> QED  BY <3>2 DEF a, b
  <2> QED  BY <1>1, <2>5
<1>2. CASE h = 0
  <2> DEFINE u == p - 1
  <2>1. u \in Nat /\ e \in Nat  BY <1>2
  <2>2. u * e >= 0  BY <2>1
  <2>3. u * e = p * e - e  OBVIOUS
  <2>4. h * d = 0  BY <1>2
  <2> HIDE DEF u
  <2> DEFINE b == p * e
             c == u * e
             a == h * d
  <2>5. b \in Int /\ c \in Int /\ c >= 0 /\ c = b - e /\ a = 0  BY <2>1, <2>2, <2>3, <2>4
  <2> HIDE DEF b, c, a
  <2>6. 0 <= a + i /\ a + i <= b - 1  BY <2>5
  <2> QED  BY <2>6 DEF a, b
<1> QED  BY <1>1, <1>2

\* An index inside the dimensions is at a position inside the tensor.
LEMMA PositionWithin ==
    ASSUME NEW dims \in Seq(Int), NEW ix \in [1 .. Len(dims) -> Int],
           \A k \in 1 .. Len(dims) : 0 <= ix[k] /\ ix[k] < dims[k]
    PROVE  Position(dims, ix) \in 0 .. Product(dims) - 1
<1> DEFINE n == Len(dims)
<1>1. PICK h : Folds(h, n, 0, dims, ix) /\ Position(dims, ix) = h[n]  BY PositionIs
<1>2. PICK p : Folds(p, n, 1, dims, Zeros(n)) /\ Product(dims) = p[n]  BY ProductIs
<1>3. n \in Nat /\ \A k \in 1 .. n : dims[k] \in Int /\ ix[k] \in Int /\ Zeros(n)[k] = 0
  BY DEF Zeros
<1> HIDE DEF n
<1> DEFINE S == {k \in 0 .. n : 0 <= h[k] /\ h[k] <= p[k] - 1}
<1>4. 0 \in S  BY <1>1, <1>2, <1>3 DEF Folds
<1>5. ASSUME NEW k \in 0 .. n - 1, k \in S PROVE k + 1 \in S
  <2>1. k + 1 \in 1 .. n /\ k + 1 \in 0 .. n  BY <1>3
  <2>2. h[k] \in Int /\ h[k + 1] = h[k] * dims[k + 1] + ix[k + 1]  BY <1>1, <1>3, FoldStep
  <2>3. p[k] \in Int /\ p[k + 1] = p[k] * dims[k + 1] + Zeros(n)[k + 1]  BY <1>2, <1>3, FoldStep
  <2> DEFINE a == h[k]
             b == p[k]
             d == dims[k + 1]
             i == ix[k + 1]
  <2>4. a \in Int /\ b \in Int /\ d \in Int /\ i \in Int  BY <1>3, <2>1, <2>2, <2>3
  <2>5. 0 <= a /\ a <= b - 1  BY <1>5
  <2>6. 0 <= i /\ i < d  BY <2>1 DEF n
  <2>7. h[k + 1] = a * d + i /\ p[k + 1] = b * d + 0  BY <1>3, <2>1, <2>2, <2>3
  <2> HIDE DEF a, b, d, i
  <2>8. i <= d - 1  BY <2>4, <2>6
  <2>9. 0 <= a * d + i /\ a * d + i <= b * d - 1  BY <2>4, <2>5, <2>6, <2>8, WithinStep
  <2>10. b * d + 0 = b * d  BY <2>4
  <2> QED  BY <2>1, <2>7, <2>9, <2>10
<1>6. n \in S
  <2>1. n \in 0 .. n  BY <1>3
  <2> HIDE DEF S
  <2> QED  BY <1>3, <1>4, <1>5, <2>1, UpTo
<1>7. h[n] \in Int /\ p[n] \in Int
  <2>1. n \in 0 .. n  BY <1>3
  <2> QED  BY <1>1, <1>2, <2>1 DEF Folds
<1> QED  BY <1>1, <1>2, <1>6, <1>7

Sizes(n) == [k \in 1 .. n |-> Elems(tensors[k].name)]

\* The words before a tensor are the sum of the sizes of those before it.
LEMMA BeforeIs ==
    ASSUME Inv, NEW j \in 1 .. Len(tensors) + 1
    PROVE  \E g : Folds(g, j - 1, 0, Ones(j - 1), Sizes(j - 1)) /\ Before(j) = g[j - 1]
<1> DEFINE n == j - 1
           term(k) == Elems(tensors[k].name)
           b == Sizes(n)
           a == Ones(n)
           G(h) == [k \in 0 .. n |-> IF k = 0 THEN 0 ELSE h[k - 1] + term(k)]
<1>1. Recorded(prog, next, "tensor", tensors) /\ IsSeq(tensors)  BY DEF Inv, DeclsOK, Recorded
<1>2. Len(tensors) \in Nat /\ DOMAIN tensors = 1 .. Len(tensors)  BY <1>1, SeqIs
<1>3. n \in Nat /\ \A k \in 1 .. n : k \in DOMAIN tensors  BY <1>2
<1>4. ASSUME NEW k \in 1 .. n PROVE term(k) \in Int
  <2>1. Declared(tensors[k].name, tensors)  BY <1>3 DEF Declared
  <2>2. LastDecl(tensors[k].name, tensors).dims \in Seq(Int)  BY <1>1, <2>1, TensorDeclared
  <2> QED  BY <2>2, ProductInt DEF Elems
<1>5. Before(j) = (CHOOSE h : h = G(h))[n]  BY DEF Before
<1>6. b \in [1 .. n -> Int] /\ a \in [1 .. n -> Int] /\ \A k \in 1 .. n : a[k] = 1 /\ b[k] = term(k)
  BY <1>3, <1>4 DEF Ones, Sizes
<1> HIDE DEF term, n
<1> HIDE DEF a, b
<1>7. \A z \in Int, k \in 1 .. n : z + term(k) = z * a[k] + b[k]  BY <1>4, <1>6
<1>8. PICK f : Folds(f, n, 0, a, b)
  <2>1. 0 \in Int  OBVIOUS
  <2> QED  BY <1>3, <1>6, <2>1, FoldExists
<1>9. f = G(f)
  <2>1. f \in [0 .. n -> Int]  BY <1>8 DEF Folds
  <2>2. ASSUME NEW k \in 0 .. n PROVE f[k] = IF k = 0 THEN 0 ELSE f[k - 1] + term(k)
    <3>1. CASE k = 0  BY <1>8, <3>1 DEF Folds
    <3>2. CASE k # 0
      <4>1. k \in 1 .. n /\ k - 1 \in 0 .. n  BY <1>3, <3>2
      <4>2. f[k] = f[k - 1] * a[k] + b[k]  BY <1>8, <4>1 DEF Folds
      <4>3. f[k - 1] \in Int  BY <2>1, <4>1
      <4> QED  BY <1>7, <3>2, <4>1, <4>2, <4>3
    <3> QED  BY <3>1, <3>2
  <2> QED  BY <2>1, <2>2
<1> DEFINE g == CHOOSE h : h = G(h)
<1>10. g = G(g)
  <2> HIDE DEF G
  <2> QED  BY <1>9
<1>11. Before(j) = g[n]  BY <1>5
<1> HIDE DEF g
<1>12. /\ g = [k \in 0 .. n |-> g[k]]
       /\ \A k \in 0 .. n : g[k] = IF k = 0 THEN 0 ELSE g[k - 1] + term(k)
  BY <1>10
<1> HIDE DEF G
<1>13. g[0] = 0
  <2>1. 0 \in 0 .. n  BY <1>3
  <2> QED  BY <1>12, <2>1
<1>14. \A k \in 1 .. n : g[k - 1] \in Int => g[k] = g[k - 1] * a[k] + b[k]
  <2>1. \A k \in 1 .. n : k \in 0 .. n /\ k # 0  OBVIOUS
  <2> QED  BY <1>7, <1>12, <2>1
<1>15. Folds(g, n, 0, a, b)
  <2>1. Goes(g, n, 0, a, b)  BY <1>12, <1>13, <1>14 DEF Goes
  <2>2. 0 \in Int  OBVIOUS
  <2> QED  BY <1>3, <1>6, <2>1, <2>2, FoldIs
<1>16. \E h : Folds(h, n, 0, a, b) /\ Before(j) = h[n]  BY <1>11, <1>15
<1> QED  BY <1>16 DEF a, b, n

LEMMA BeforeInt ==
    ASSUME Inv, NEW j \in 1 .. Len(tensors) + 1
    PROVE  Before(j) \in Int
<1>1. PICK g : Folds(g, j - 1, 0, Ones(j - 1), Sizes(j - 1)) /\ Before(j) = g[j - 1]  BY BeforeIs
<1>2. Len(tensors) \in Nat  BY SeqIs DEF Inv, DeclsOK, Recorded
<1>3. j - 1 \in 0 .. j - 1  BY <1>2
<1> QED  BY <1>1, <1>3 DEF Folds

LEMMA OffInt ==
    ASSUME Inv, NEW n
    PROVE  Off(n) \in Int
<1> DEFINE S == {j \in DOMAIN tensors : tensors[j].name = n}
           j == IF Declared(n, tensors) THEN Max(S) ELSE Len(tensors) + 1
<1>1. IsSeq(tensors)  BY DEF Inv, DeclsOK, Recorded
<1>2. Len(tensors) \in Nat /\ DOMAIN tensors = 1 .. Len(tensors)  BY <1>1, SeqIs
<1>3. Off(n) = Before(j)  BY DEF Off
<1>4. CASE Declared(n, tensors)
  <2>1. S # {} /\ S \subseteq Nat /\ Len(tensors) \in Int /\ \A k \in S : k <= Len(tensors)
    BY <1>2, <1>4 DEF Declared
  <2>2. Max(S) \in S
    <3> HIDE DEF S
    <3> QED  BY <2>1, MaxOf
  <2>3. j \in 1 .. Len(tensors) + 1  BY <1>2, <1>4, <2>2
  <2> HIDE DEF j
  <2> QED  BY <1>3, <2>3, BeforeInt
<1>5. CASE ~Declared(n, tensors)
  <2>1. j = Len(tensors) + 1 /\ j \in 1 .. Len(tensors) + 1  BY <1>2, <1>5
  <2> HIDE DEF j
  <2> QED  BY <1>3, <2>1, BeforeInt
<1> QED  BY <1>4, <1>5

LEMMA SizeInt ==
    ASSUME Inv, Regular, NEW d \in Dims
    PROVE  Size(d) \in Int
<1>1. FirstOK /\ First \in TensorLeaves  BY RegularIs
<1>2. d \in 0 .. D - 1 /\ D - d \in 1 .. D /\ D \in Nat  BY <1>1 DEF Dims, FirstOK
<1>3. Dim(d) \in Int  BY <1>1, <1>2, DimIs
<1> DEFINE s == RefOf(First).slices
<1>4. s \in Seq(Int \X Int)  BY <1>1, ReferenceIs DEF Regular
<1>5. D - d <= Len(s) => Extent(s[D - d]) \in Int
  <2> SUFFICES ASSUME D - d <= Len(s) PROVE Extent(s[D - d]) \in Int  OBVIOUS
  <2> HIDE DEF s
  <2>1. D - d \in 1 .. Len(s)  BY <1>2, <1>4
  <2>2. s[D - d] \in Int \X Int  BY <1>4, <2>1
  <2> QED  BY <2>2 DEF Extent
<1>6. Size(d) = IF D - d <= Len(s) THEN Extent(s[D - d]) ELSE Dim(d)  BY DEF Size
<1> HIDE DEF s
<1> QED  BY <1>3, <1>5, <1>6

LEMMA StartFits ==
    ASSUME NEW a, NEW b, NEW c \in Int, NEW e \in Int, NEW x \in Int,
           b \in Int, a \in 0 .. b - c, 0 <= x, x < c, e = a + x
    PROVE  0 <= e /\ e < b
OBVIOUS

LEMMA StoresRight == Inv => StoresToWrittenSlice
<1> DEFINE start(d) == IF d <= Len(out.slices) THEN out.slices[d][1] ELSE 0
<1> SUFFICES ASSUME Inv, Regular, Assigned, Len(OutDims) = D,
                    \A d \in 2 .. D : OutDims[d] = DeclOf(First).dims[d],
                    \A d \in 1 .. D : start(d) \in 0 .. OutDims[d] - Size(D - d),
                    NEW x \in Index
    PROVE  LET at == WordFor(out.name, out.slices, x) - Off(out.name)
           IN  at = Element(OutDims, out.slices, x) /\ at \in 0 .. Elems(out.name) - 1
  BY DEF StoresToWrittenSlice
<1>1. FirstOK /\ D \in Nat  BY RegularIs DEF FirstOK
<1>2. out # NoOut  BY DEF Inv, OutcomeOK, Regular
<1>3. out.slices \in Seq(Int \X Int)  BY <1>2 DEF Inv, LeavesOK, AssignIs
<1>4. OutDims \in Seq(Int)  BY TensorDeclared DEF Inv, DeclsOK, Assigned, OutDims
<1>5. x \in [Dims -> Int] /\ \A d \in Dims : 0 <= x[d] /\ x[d] < Size(d)  BY IndexIs
<1> DEFINE w == WordFor(out.name, out.slices, x)
           o == Off(out.name)
           e == Element(OutDims, out.slices, x)
           dims == OutDims
<1>6. w = o + e
  <2> HIDE DEF start
  <2> QED  BY <1>1, <1>3, <1>4, <1>5, WordIsElement
<1> DEFINE ix == [d \in DOMAIN dims |-> start(d) + x[D - d]]
<1>7. e = Position(dims, ix)  BY DEF Element
<1>8. \A d \in 1 .. D : start(d) \in 0 .. dims[d] - Size(D - d)  OBVIOUS
<1>9. dims \in Seq(Int) /\ Len(dims) = D /\ DOMAIN dims = 1 .. D /\ \A d \in 1 .. D : dims[d] \in Int
  BY <1>4
<1> HIDE DEF start, dims, e, o, w
<1>10. ASSUME NEW d \in 1 .. D PROVE ix[d] \in Int /\ 0 <= ix[d] /\ ix[d] < dims[d]
  <2>1. D - d \in Dims  BY <1>1 DEF Dims
  <2>2. Size(D - d) \in Int  BY <2>1, SizeInt
  <2>3. x[D - d] \in Int /\ 0 <= x[D - d] /\ x[D - d] < Size(D - d)  BY <1>5, <2>1
  <2>4. start(d) \in 0 .. dims[d] - Size(D - d) /\ start(d) \in Int  BY <1>8
  <2>5. ix[d] = start(d) + x[D - d]  BY <1>9
  <2> HIDE DEF ix
  <2>6. ix[d] \in Int  BY <2>3, <2>4, <2>5
  <2>7. dims[d] \in Int  BY <1>9
  <2> QED  BY <2>2, <2>3, <2>4, <2>5, <2>6, <2>7, StartFits
<1>11. ix \in [1 .. Len(dims) -> Int]  BY <1>9, <1>10
<1> HIDE DEF ix
<1>12. e \in 0 .. Product(dims) - 1
  BY <1>7, <1>9, <1>10, <1>11, PositionWithin
<1>13. Product(dims) = Elems(out.name)  BY DEF Elems, dims, OutDims
<1>14. o \in Int  BY OffInt DEF o
<1>15. w - o = e  BY <1>6, <1>12, <1>14
<1> QED  BY <1>12, <1>13, <1>15 DEF w, o, e, dims

\* It stores inside the part of buf that is the output's.
THEOREM StoresSlice == Spec => []StoresToWrittenSlice
<1> QED  BY Invariant, StoresRight, PTL

-----------------------------------------------------------------------------
(* The output that is not declared: extents e[1] .. e[n] in rows of the    *)
(* dimensions dims[1] .. dims[n].                                          *)

Inside(n, e, dims) ==
    /\ e \in [1 .. n -> Int] /\ dims \in [1 .. n -> Int]
    /\ \A k \in 1 .. n : 1 <= e[k] /\ e[k] <= dims[k]

Piece(n, e, dims) ==
    \E k \in 1 .. n : /\ \A d \in 1 .. k - 1 : e[d] = 1
                      /\ \A d \in k + 1 .. n : e[d] = dims[d]

IndexOf(n, ix, e) == ix \in [1 .. n -> Int] /\ \A k \in 1 .. n : 0 <= ix[k] /\ ix[k] <= e[k] - 1

\* Every index of a contiguous piece is at a position below its size.
LEMMA PieceFits ==
    ASSUME NEW n \in Nat, NEW e, NEW dims, Inside(n, e, dims), Piece(n, e, dims),
           NEW ix, IndexOf(n, ix, e), NEW h, Folds(h, n, 0, dims, ix),
           NEW p, Folds(p, n, 1, e, Zeros(n))
    PROVE  h[n] < p[n]
<1>1. PICK k \in 1 .. n : /\ \A d \in 1 .. k - 1 : e[d] = 1
                          /\ \A d \in k + 1 .. n : e[d] = dims[d]
  BY DEF Piece
<1>2. \A d \in 1 .. n : /\ e[d] \in Int /\ dims[d] \in Int /\ ix[d] \in Int
                        /\ 0 <= ix[d] /\ ix[d] <= e[d] - 1 /\ Zeros(n)[d] = 0
  BY DEF Inside, IndexOf, Zeros
<1> DEFINE S == {j \in 0 .. n : 0 <= h[j] /\ h[j] <= p[j] - 1 /\ (j < k => h[j] = 0)}
<1>3. 0 \in S  BY DEF Folds
<1>4. ASSUME NEW j \in 0 .. n - 1, j \in S PROVE j + 1 \in S
  <2>1. j + 1 \in 1 .. n /\ j + 1 \in 0 .. n  OBVIOUS
  <2>2. h[j] \in Int /\ h[j + 1] = h[j] * dims[j + 1] + ix[j + 1]  BY FoldStep
  <2>3. p[j] \in Int /\ p[j + 1] = p[j] * e[j + 1] + Zeros(n)[j + 1]  BY FoldStep
  <2> DEFINE a == h[j]
             b == p[j]
             d == dims[j + 1]
             f == e[j + 1]
             i == ix[j + 1]
  <2>4. a \in Int /\ b \in Int /\ d \in Int /\ f \in Int /\ i \in Int  BY <1>2, <2>1, <2>2, <2>3
  <2>5. 0 <= a /\ a <= b - 1 /\ (j < k => a = 0)  BY <1>4
  <2>6. 0 <= i /\ i <= f - 1  BY <1>2, <2>1
  <2>7. f = d \/ a = 0
    <3>1. CASE j < k  BY <2>5, <3>1
    <3>2. CASE ~(j < k)
      <4>1. j + 1 \in k + 1 .. n  BY <2>1, <3>2
      <4> QED  BY <1>1, <4>1
    <3> QED  BY <3>1, <3>2
  <2>8. j + 1 < k => i = 0 /\ a = 0
    <3> SUFFICES ASSUME j + 1 < k PROVE i = 0 /\ a = 0  OBVIOUS
    <3>1. j + 1 \in 1 .. k - 1 /\ j < k  BY <2>1
    <3>2. f = 1  BY <1>1, <3>1
    <3> QED  BY <2>4, <2>5, <2>6, <3>1, <3>2
  <2>9. h[j + 1] = a * d + i /\ p[j + 1] = b * f + 0  BY <1>2, <2>1, <2>2, <2>3
  <2> HIDE DEF a, b, d, f, i
  <2>10. 0 <= a * d + i /\ a * d + i <= b * f - 1  BY <2>4, <2>5, <2>6, <2>7, WithinStep
  <2>11. b * f + 0 = b * f  BY <2>4
  <2>12. j + 1 < k => h[j + 1] = 0
    <3>1. 0 * d + 0 = 0  BY <2>4
    <3> QED  BY <2>8, <2>9, <3>1
  <2> QED  BY <2>1, <2>9, <2>10, <2>11, <2>12
<1>5. n \in S
  <2>1. n \in 0 .. n  OBVIOUS
  <2> HIDE DEF S
  <2> QED  BY <1>3, <1>4, <2>1, UpTo
<1>6. h[n] \in Int /\ p[n] \in Int
  <2>1. n \in 0 .. n  OBVIOUS
  <2> QED  BY <2>1 DEF Folds
<1> QED  BY <1>5, <1>6

\* One step of the position m of the last element and of the product p of the
\* extents: what is lost to a row is not made good.
LEMMA BeyondStep ==
    ASSUME NEW m \in Int, NEW p \in Int, NEW d \in Int, NEW e \in Int,
           1 <= e, e <= d, 1 <= p, p - 1 <= m
    PROVE  /\ p * e - 1 <= m * d + (e - 1)
           /\ p <= m => p * e <= m * d + (e - 1)
           /\ 1 <= p * e /\ p <= p * e /\ e <= p * e
<1> DEFINE u == m - (p - 1)
           v == d - e
           q == p - 1
           f == e - 1
<1>1. u \in Nat /\ v \in Nat /\ q \in Nat /\ f \in Nat /\ d \in Nat /\ m \in Nat  OBVIOUS
<1>2. m = u + q /\ d = v + e /\ p = q + 1 /\ e = f + 1  OBVIOUS
<1> HIDE DEF u, v, q, f
<1>3. u * d >= 0 /\ q * v >= 0 /\ q * f >= 0 /\ u * d \in Int /\ q * v \in Int /\ q * f \in Int
  BY <1>1
<1>4. m * d = u * d + q * d  BY <1>1, <1>2
<1>5. q * d = q * v + q * e  BY <1>1, <1>2
<1>6. p * e = q * e + e  BY <1>1, <1>2
<1>7. q * e = q * f + q  BY <1>1, <1>2
<1>8. p <= m => u * d >= e
  <2> SUFFICES ASSUME p <= m PROVE u * d >= e  OBVIOUS
  <2> DEFINE w == u - 1
  <2>1. w \in Nat /\ u = w + 1  BY <1>1, <1>2
  <2> HIDE DEF w
  <2>2. u * d = w * d + d /\ w * d >= 0  BY <1>1, <2>1
  <2>3. w * d \in Int  BY <1>1, <2>1
  <2> DEFINE wd == w * d
  <2> HIDE DEF wd
  <2>4. wd \in Int /\ wd >= 0 /\ u * d = wd + d  BY <2>2, <2>3 DEF wd
  <2> QED  BY <2>4
<1> DEFINE md == m * d
           ud == u * d
           qd == q * d
           qv == q * v
           qe == q * e
           qf == q * f
           pe == p * e
<1>9. /\ md \in Int /\ ud \in Int /\ qd \in Int /\ qv \in Int /\ qe \in Int /\ qf \in Int /\ pe \in Int
      /\ ud >= 0 /\ qv >= 0 /\ qf >= 0
      /\ md = ud + qd /\ qd = qv + qe /\ pe = qe + e /\ qe = qf + q
      /\ p <= m => ud >= e
  BY <1>1, <1>3, <1>4, <1>5, <1>6, <1>7, <1>8
<1> HIDE DEF md, ud, qd, qv, qe, qf, pe
<1>10. pe - 1 <= md + (e - 1)  BY <1>9
<1>11. p <= m => pe <= md + (e - 1)  BY <1>9
<1>12. 1 <= pe /\ p <= pe /\ e <= pe  BY <1>1, <1>2, <1>9
<1> QED  BY <1>10, <1>11, <1>12 DEF md, pe

LEMMA EvenStep ==
    ASSUME NEW p \in Int, NEW d \in Int, NEW e \in Int, 1 <= e, e <= d, 2 <= p,
           p * e - 1 = (p - 1) * d + (e - 1)
    PROVE  d = e
<1> DEFINE q == p - 1
           v == d - e
<1>1. q \in Int /\ v \in Int /\ p = q + 1 /\ d = v + e /\ q >= 1 /\ v >= 0  OBVIOUS
<1> HIDE DEF q, v
<1>2. p * e = q * e + e  BY <1>1
<1>3. (p - 1) * d = q * v + q * e
  <2>1. p - 1 = q  BY <1>1
  <2>2. q * d = q * v + q * e  BY <1>1
  <2> QED  BY <2>1, <2>2
<1> DEFINE qe == q * e
           qv == q * v
<1>4. qe \in Int /\ qv \in Int  BY <1>1
<1>5. qe + e - 1 = qv + qe + (e - 1)  BY <1>2, <1>3, <1>4
<1>6. qv = 0
  <2> HIDE DEF qe, qv
  <2> QED  BY <1>4, <1>5
<1>7. v = 0  BY <1>1, <1>6
<1> QED  BY <1>1, <1>7

\* If the last element of the slice fits, the slice is a contiguous piece.
LEMMA FitsIsPiece ==
    ASSUME NEW n \in Nat, n > 0, NEW e, NEW dims, Inside(n, e, dims),
           NEW ix, \A k \in 1 .. n : ix[k] = e[k] - 1,
           NEW m, Folds(m, n, 0, dims, ix), NEW p, Folds(p, n, 1, e, Zeros(n)), m[n] < p[n]
    PROVE  Piece(n, e, dims)
<1>1. \A d \in 1 .. n : /\ e[d] \in Int /\ dims[d] \in Int /\ 1 <= e[d] /\ e[d] <= dims[d]
                        /\ Zeros(n)[d] = 0
  BY DEF Inside, Zeros
<1>2. ASSUME NEW j \in 0 .. n - 1
      PROVE  /\ j + 1 \in 1 .. n /\ j + 1 \in 0 .. n /\ j \in 0 .. n
             /\ m[j] \in Int /\ p[j] \in Int /\ e[j + 1] \in Int /\ dims[j + 1] \in Int
             /\ m[j + 1] = m[j] * dims[j + 1] + (e[j + 1] - 1)
             /\ p[j + 1] = p[j] * e[j + 1]
  <2>1. j + 1 \in 1 .. n /\ j + 1 \in 0 .. n /\ j \in 0 .. n  OBVIOUS
  <2>2. m[j] \in Int /\ m[j + 1] = m[j] * dims[j + 1] + ix[j + 1]  BY FoldStep
  <2>3. p[j] \in Int /\ p[j + 1] = p[j] * e[j + 1] + Zeros(n)[j + 1]  BY FoldStep
  <2>4. ix[j + 1] = e[j + 1] - 1 /\ Zeros(n)[j + 1] = 0 /\ e[j + 1] \in Int /\ dims[j + 1] \in Int
    BY <1>1, <2>1
  <2>5. p[j] * e[j + 1] + 0 = p[j] * e[j + 1]  BY <2>3, <2>4
  <2> QED  BY <2>1, <2>2, <2>3, <2>4, <2>5
<1>3. ASSUME NEW j \in 0 .. n - 1, 1 <= p[j], p[j] - 1 <= m[j]
      PROVE  /\ p[j + 1] - 1 <= m[j + 1]
             /\ p[j] <= m[j] => p[j + 1] <= m[j + 1]
             /\ 1 <= p[j + 1] /\ p[j] <= p[j + 1] /\ e[j + 1] <= p[j + 1]
  <2> DEFINE a == m[j]
             b == p[j]
             d == dims[j + 1]
             f == e[j + 1]
  <2>1. a \in Int /\ b \in Int /\ d \in Int /\ f \in Int /\ 1 <= f /\ f <= d /\ 1 <= b /\ b - 1 <= a
    BY <1>1, <1>2, <1>3
  <2>2. m[j + 1] = a * d + (f - 1) /\ p[j + 1] = b * f  BY <1>2
  <2> HIDE DEF a, b, d, f
  <2>3. /\ b * f - 1 <= a * d + (f - 1)
        /\ b <= a => b * f <= a * d + (f - 1)
        /\ 1 <= b * f /\ b <= b * f /\ f <= b * f
    BY <2>1, BeyondStep
  <2> QED  BY <2>2, <2>3 DEF a, b, f
<1> DEFINE S == {j \in 0 .. n : 1 <= p[j] /\ p[j] - 1 <= m[j]}
<1>4. \A j \in 0 .. n : j \in S
  <2>1. 0 \in S  BY DEF Folds
  <2>2. \A j \in 0 .. n - 1 : j \in S => j + 1 \in S  BY <1>2, <1>3
  <2> HIDE DEF S
  <2> QED  BY <2>1, <2>2, UpTo
<1>5. ASSUME NEW j \in 0 .. n PROVE m[j] = p[j] - 1
  <2>0. m[j] \in Int /\ p[j] \in Int /\ m[n] \in Int /\ p[n] \in Int
    <3>1. n \in 0 .. n  OBVIOUS
    <3> QED  BY <3>1 DEF Folds
  <2> SUFFICES ASSUME p[j] <= m[j] PROVE FALSE  BY <1>4, <2>0
  <2> DEFINE T == {i \in 0 .. n : i >= j => p[i] <= m[i]}
  <2>1. 0 \in T  OBVIOUS
  <2>2. ASSUME NEW i \in 0 .. n - 1, i \in T PROVE i + 1 \in T
    <3>1. i + 1 \in 0 .. n /\ i \in 0 .. n  OBVIOUS
    <3>2. CASE i >= j
      <4>1. 1 <= p[i] /\ p[i] - 1 <= m[i] /\ p[i] <= m[i]  BY <1>4, <2>2, <3>1, <3>2
      <4> QED  BY <1>3, <3>1, <4>1
    <3>3. CASE i < j
      <4>1. i + 1 >= j => i + 1 = j  BY <3>3
      <4> QED  BY <3>1, <4>1
    <3> QED  BY <3>2, <3>3
  <2>3. n \in T
    <3>1. n \in 0 .. n  OBVIOUS
    <3> HIDE DEF T
    <3> QED  BY <2>1, <2>2, <3>1, UpTo
  <2>4. p[n] <= m[n]  BY <2>3
  <2> QED  BY <2>0, <2>4
<1>6. ASSUME NEW j \in 0 .. n - 1, 2 <= p[j] PROVE e[j + 1] = dims[j + 1]
  <2> DEFINE b == p[j]
             d == dims[j + 1]
             f == e[j + 1]
  <2>1. b \in Int /\ d \in Int /\ f \in Int /\ 1 <= f /\ f <= d /\ 2 <= b  BY <1>1, <1>2, <1>6
  <2>2. m[j] = b - 1 /\ m[j + 1] = b * f - 1  BY <1>2, <1>5
  <2>3. m[j + 1] = m[j] * d + (f - 1)  BY <1>2
  <2>4. b * f - 1 = (b - 1) * d + (f - 1)  BY <2>2, <2>3
  <2> HIDE DEF b, d, f
  <2>5. d = f  BY <2>1, <2>4, EvenStep
  <2> QED  BY <2>5 DEF d, f
<1>7. CASE \A d \in 1 .. n : e[d] = 1
  <2>1. n \in 1 .. n /\ \A d \in n + 1 .. n : FALSE  OBVIOUS
  <2>2. \A d \in 1 .. n - 1 : d \in 1 .. n  OBVIOUS
  <2> QED  BY <1>7, <2>1, <2>2 DEF Piece
<1>8. CASE \E d \in 1 .. n : e[d] # 1
  <2> DEFINE T == {d \in 1 .. n : e[d] # 1}
  <2>1. T # {} /\ T \subseteq Nat  BY <1>8
  <2>2. PICK k \in T : \A d \in T : k <= d
    <3> HIDE DEF T
    <3> QED  BY <2>1, Shown!LeastNumber
  <2>3. k \in 1 .. n /\ e[k] \in Int /\ e[k] >= 2  BY <1>1
  <2>4. \A d \in 1 .. k - 1 : e[d] = 1
    <3>1. ASSUME NEW d \in 1 .. k - 1 PROVE e[d] = 1
      <4>1. d \in 1 .. n /\ d < k  BY <2>3
      <4> QED  BY <2>2, <4>1
    <3> QED  BY <3>1
  <2> HIDE DEF T
  <2> DEFINE U == {j \in 0 .. n : j >= k => p[j] >= 2}
  <2>5. 0 \in U  BY <2>3
  <2>6. ASSUME NEW j \in 0 .. n - 1, j \in U PROVE j + 1 \in U
    <3>1. j \in 0 .. n /\ j + 1 \in 0 .. n  OBVIOUS
    <3>2. p[j] \in Int /\ p[j + 1] \in Int
      BY <3>1 DEF Folds
    <3>3. p[j] <= p[j + 1] /\ e[j + 1] <= p[j + 1]  BY <1>3, <1>4, <3>1
    <3>4. CASE j >= k  BY <2>6, <3>1, <3>2, <3>3, <3>4
    <3>5. CASE j + 1 = k  BY <2>3, <3>1, <3>2, <3>3, <3>5
    <3>6. CASE j + 1 < k  BY <2>3, <3>1, <3>6
    <3> QED  BY <2>3, <3>4, <3>5, <3>6
  <2>7. \A j \in 0 .. n : j \in U
    <3> HIDE DEF U
    <3> QED  BY <2>5, <2>6, UpTo
  <2>8. ASSUME NEW d \in k + 1 .. n PROVE e[d] = dims[d]
    <3>1. d - 1 \in 0 .. n - 1 /\ d - 1 \in 0 .. n /\ d - 1 >= k /\ (d - 1) + 1 = d  BY <2>3
    <3>2. p[d - 1] >= 2 /\ p[d - 1] \in Int  BY <2>7, <3>1 DEF Folds
    <3> QED  BY <1>6, <3>1, <3>2
  <2> QED  BY <2>3, <2>4, <2>8 DEF Piece
<1> QED  BY <1>7, <1>8

Extents == [d \in 1 .. D |-> Extent(RefOf(First).slices[d])]

LEMMA ExtentsAre ==
    ASSUME Inv, Regular
    PROVE  /\ D \in Nat /\ D > 0
           /\ DeclOf(First).dims \in Seq(Int) /\ Len(DeclOf(First).dims) = D
           /\ Inside(D, Extents, DeclOf(First).dims)
           /\ \A d \in 1 .. D : D - d \in Dims /\ Size(D - d) = Extents[d]
           /\ Extents \in Seq(Int) /\ Len(Extents) = D /\ OutElems = Product(Extents)
<1>1. FirstOK /\ D > 0 /\ First \in TensorLeaves  BY RegularIs
<1>2. /\ D \in Nat /\ DeclOf(First).dims \in Seq(Int) /\ Len(DeclOf(First).dims) = D
  BY <1>1 DEF FirstOK
<1> DEFINE s == RefOf(First).slices
           dims == DeclOf(First).dims
<1>3. s \in Seq(Int \X Int)  BY <1>1, ReferenceIs DEF Regular
<1>4. Len(s) = D /\ InBounds(s, dims)  BY <1>1 DEF Regular, SameExtents
<1>5. Extents = [d \in 1 .. D |-> Extent(s[d])]  BY DEF Extents
<1>6. OutElems = Product([d \in DOMAIN s |-> Extent(s[d])])  BY DEF OutElems
<1>7. \A d \in 0 .. D - 1 : D - d <= Len(s) => Size(d) = Extent(s[D - d])  BY DEF Size
<1>8. dims \in Seq(Int) /\ Len(dims) = D  BY <1>2
<1> HIDE DEF s, dims
<1>9. DOMAIN s = 1 .. D  BY <1>3, <1>4
<1>10. ASSUME NEW d \in 1 .. D
       PROVE  Extent(s[d]) \in Int /\ 1 <= Extent(s[d]) /\ Extent(s[d]) <= dims[d]
  <2>1. s[d] \in Int \X Int /\ dims[d] \in Int /\ d <= Len(dims) /\ d \in DOMAIN s
    BY <1>2, <1>3, <1>4, <1>8, <1>9
  <2>2. 0 <= s[d][1] /\ s[d][1] < s[d][2] /\ s[d][2] <= dims[d]  BY <1>4, <2>1 DEF InBounds
  <2>3. s[d][1] \in Int /\ s[d][2] \in Int  BY <2>1
  <2>4. Extent(s[d]) = s[d][2] - s[d][1]  BY DEF Extent
  <2> QED  BY <2>1, <2>2, <2>3, <2>4
<1>11. Extents \in [1 .. D -> Int] /\ \A d \in 1 .. D : Extents[d] = Extent(s[d])
  BY <1>5, <1>10
<1>12. Inside(D, Extents, dims)
  <2>1. dims \in [1 .. D -> Int]  BY <1>8
  <2> QED  BY <1>10, <1>11, <2>1 DEF Inside
<1>13. OutElems = Product(Extents)  BY <1>5, <1>6, <1>9
<1>14. Extents \in Seq(Int) /\ Len(Extents) = D  BY <1>2, <1>11, ProductPrefix
<1>15. ASSUME NEW d \in 1 .. D PROVE D - d \in Dims /\ Size(D - d) = Extents[d]
  <2>1. D - d \in 0 .. D - 1 /\ D - (D - d) = d  BY <1>2
  <2> QED  BY <1>4, <1>7, <1>11, <2>1 DEF Dims
<1> QED  BY <1>1, <1>2, <1>12, <1>13, <1>14, <1>15 DEF dims

LEMMA ContiguousIs ==
    ASSUME Inv, Regular
    PROVE  Contiguous <=> Piece(D, Extents, DeclOf(First).dims)
<1>1. D \in Nat /\ \A d \in 1 .. D : Size(D - d) = Extents[d]  BY ExtentsAre
<1>2. \A d \in 1 .. D : Extents[d] = Extent(RefOf(First).slices[d])  BY DEF Extents
<1>3. ASSUME NEW k \in 1 .. D
      PROVE  /\ \A d \in 1 .. k - 1 : d \in 1 .. D
             /\ \A d \in k + 1 .. D : d \in 1 .. D
  BY <1>1
<1> QED  BY <1>1, <1>2, <1>3 DEF Contiguous, Piece

\* The index of an element in the whole tensor, outermost dimension first.
Outward(x) == [d \in 1 .. D |-> x[D - d]]

LEMMA WordInRows ==
    ASSUME Inv, Regular, NEW x \in [Dims -> Int], NEW n
    PROVE  /\ Outward(x) \in [1 .. D -> Int]
           /\ WordFor(n, << >>, x) = Off(n) + Position(DeclOf(First).dims, Outward(x))
<1> DEFINE dims == DeclOf(First).dims
           none == << >>
           ix == [d \in DOMAIN dims |-> (IF d <= Len(none) THEN none[d][1] ELSE 0) + x[D - d]]
<1>1. FirstOK  BY RegularIs
<1>2. D \in Nat /\ dims \in Seq(Int) /\ Len(dims) = D  BY <1>1 DEF FirstOK
<1>3. none \in Seq(Int \X Int) /\ Len(none) = 0  OBVIOUS
<1>4. WordFor(n, none, x) = Off(n) + Element(dims, none, x)
  <2> HIDE DEF none
  <2>1. \A d \in 2 .. D : dims[d] = DeclOf(First).dims[d]  OBVIOUS
  <2> HIDE DEF dims
  <2> QED  BY <1>1, <1>2, <1>3, <2>1, WordIsElement
<1>5. Element(dims, none, x) = Position(dims, ix)  BY DEF Element
<1>6. ASSUME NEW d \in 1 .. D PROVE ix[d] = x[D - d] /\ x[D - d] \in Int
  <2>1. D - d \in Dims  BY <1>2 DEF Dims
  <2>2. x[D - d] \in Int /\ ~(d <= Len(none)) /\ d \in DOMAIN dims  BY <1>2, <1>3, <2>1
  <2> HIDE DEF dims, none
  <2>3. ix[d] = 0 + x[D - d]  BY <2>2
  <2> QED  BY <2>2, <2>3
<1>7. ix = [d \in 1 .. D |-> ix[d]]  BY <1>2
<1> HIDE DEF ix
<1>8. ix = Outward(x)  BY <1>6, <1>7 DEF Outward
<1>9. Outward(x) \in [1 .. D -> Int]  BY <1>6 DEF Outward
<1> QED  BY <1>4, <1>5, <1>8, <1>9

\* The index of the last element of the slice.
LEMMA LastIsIndex ==
    ASSUME Inv, Regular
    PROVE  [i \in Dims |-> Size(i) - 1] \in Index
<1>1. D \in Nat /\ D > 0 /\ \A d \in 1 .. D : Size(D - d) = Extents[d]  BY ExtentsAre
<1>2. \A d \in 1 .. D : Extents[d] \in Int /\ 1 <= Extents[d]  BY ExtentsAre DEF Inside
<1>3. ASSUME NEW i \in Dims PROVE Size(i) \in Nat /\ 1 <= Size(i)
  <2>1. D - i \in 1 .. D /\ D - (D - i) = i  BY <1>1 DEF Dims
  <2>2. Size(i) = Extents[D - i]  BY <1>1, <2>1
  <2>3. Extents[D - i] \in Int /\ 1 <= Extents[D - i]  BY <1>2, <2>1
  <2> QED  BY <2>2, <2>3
<1> DEFINE Below(m) == \E top \in Nat : \A i \in 0 .. m - 1 : Size(i) <= top
           B == {m \in 0 .. D : Below(m)}
           S == {Size(d) : d \in Dims}
<1>4. 0 \in B
  <2>1. 0 \in Nat /\ \A i \in 0 .. 0 - 1 : Size(i) <= 0  OBVIOUS
  <2> QED  BY <1>1, <2>1
<1>5. ASSUME NEW m \in 0 .. D - 1, m \in B PROVE m + 1 \in B
  <2>1. PICK top \in Nat : \A i \in 0 .. m - 1 : Size(i) <= top  BY <1>5
  <2>2. Size(m) \in Nat /\ \A i \in 0 .. m : Size(i) \in Nat  BY <1>1, <1>3 DEF Dims
  <2> DEFINE up == top + Size(m)
  <2>3. up \in Nat  BY <2>2
  <2>4. ASSUME NEW i \in 0 .. m PROVE Size(i) <= up
    <3>1. CASE i = m  BY <2>2, <3>1
    <3>2. CASE i # m
      <4>1. i \in 0 .. m - 1  BY <3>2
      <4>2. Size(i) <= top /\ Size(i) \in Nat  BY <2>1, <2>2, <4>1
      <4> QED  BY <2>2, <4>2
    <3> QED  BY <3>1, <3>2
  <2>5. (m + 1) - 1 = m /\ m + 1 \in 0 .. D  BY <1>1
  <2> HIDE DEF up
  <2>6. Below(m + 1)  BY <2>3, <2>4, <2>5
  <2> QED  BY <2>5, <2>6
<1>6. D \in B
  <2>1. D \in 0 .. D  BY <1>1
  <2> HIDE DEF B
  <2> QED  BY <1>1, <1>4, <1>5, <2>1, UpTo
<1>7. PICK top \in Nat : \A i \in 0 .. D - 1 : Size(i) <= top  BY <1>6
<1>8. S \subseteq Nat /\ S # {} /\ \A k \in S : k <= top
  <2>1. 0 \in Dims  BY <1>1 DEF Dims
  <2>2. Size(0) \in S  BY <2>1
  <2> QED  BY <1>3, <1>7, <2>2 DEF Dims
<1>9. Max(S) \in S /\ \A k \in S : k <= Max(S)
  <2> HIDE DEF S
  <2>1. top \in Int  OBVIOUS
  <2> QED  BY <1>8, <2>1, MaxOf
<1> DEFINE x == [i \in Dims |-> Size(i) - 1]
           max == Max(S)
<1>10. max \in Nat /\ \A i \in Dims : Size(i) <= max  BY <1>8, <1>9
<1>11. \A i \in Dims : x[i] < Size(i) /\ x[i] \in 0 .. max - 1  BY <1>3, <1>10
<1>12. Index = {y \in [Dims -> 0 .. max - 1] : \A d \in Dims : y[d] < Size(d)}  BY DEF Index
<1>13. x = [i \in Dims |-> x[i]]  OBVIOUS
<1> HIDE DEF x, max
<1>14. x \in [Dims -> 0 .. max - 1]  BY <1>11, <1>13
<1>15. x \in Index  BY <1>11, <1>12, <1>14
<1> QED  BY <1>15 DEF x

LEMMA UndeclaredRight == Inv => UndeclaredOutputFits
<1> DEFINE dims == DeclOf(First).dims
           e == Extents
           o == Off(out.name)
           all == OutElems
           word(x) == WordFor(out.name, << >>, x)
           Fits(x) == word(x) < o + all
<1> SUFFICES ASSUME Inv, Regular PROVE (\A x \in Index : Fits(x)) <=> Contiguous
  BY DEF UndeclaredOutputFits
<1>1. /\ D \in Nat /\ D > 0 /\ dims \in Seq(Int) /\ Len(dims) = D
      /\ Inside(D, e, dims) /\ \A d \in 1 .. D : D - d \in Dims /\ Size(D - d) = e[d]
      /\ e \in Seq(Int) /\ Len(e) = D /\ all = Product(e)
  BY ExtentsAre
<1>2. Contiguous <=> Piece(D, e, dims)  BY ContiguousIs
<1>3. o \in Int  BY OffInt
<1>4. \A x \in [Dims -> Int] : /\ Outward(x) \in [1 .. D -> Int]
                               /\ word(x) = o + Position(dims, Outward(x))
  BY WordInRows
<1>5. PICK p : Folds(p, D, 1, e, Zeros(D)) /\ Product(e) = p[D]
  <2> HIDE DEF e
  <2> QED  BY <1>1, ProductIs
<1> HIDE DEF dims, e, o, all, word
<1>6. p[D] \in Int /\ D \in 0 .. D
  <2>1. D \in 0 .. D  BY <1>1
  <2> QED  BY <1>5, <2>1 DEF Folds
<1>7. ASSUME NEW x \in [Dims -> Int]
      PROVE  \E h : Folds(h, D, 0, dims, Outward(x)) /\ (Fits(x) <=> h[D] < p[D])
  <2>1. PICK h : Folds(h, D, 0, dims, Outward(x)) /\ Position(dims, Outward(x)) = h[D]
    BY <1>1, <1>4, PositionIs
  <2>2. h[D] \in Int  BY <1>6, <2>1 DEF Folds
  <2>3. word(x) = o + h[D] /\ all = p[D]  BY <1>1, <1>4, <1>5, <2>1
  <2>4. Fits(x) <=> h[D] < p[D]  BY <1>3, <1>6, <2>2, <2>3
  <2> QED  BY <2>1, <2>4
<1>8. ASSUME Contiguous, NEW x \in Index PROVE Fits(x)
  <2>1. x \in [Dims -> Int] /\ \A d \in Dims : 0 <= x[d] /\ x[d] < Size(d)  BY IndexIs
  <2>2. PICK h : Folds(h, D, 0, dims, Outward(x)) /\ (Fits(x) <=> h[D] < p[D])  BY <1>7, <2>1
  <2>3. IndexOf(D, Outward(x), e)
    <3>1. ASSUME NEW d \in 1 .. D PROVE 0 <= Outward(x)[d] /\ Outward(x)[d] <= e[d] - 1
      <4>1. D - d \in Dims /\ Size(D - d) = e[d] /\ Outward(x)[d] = x[D - d]  BY <1>1 DEF Outward
      <4>2. e[d] \in Int /\ x[D - d] \in Int  BY <1>1, <2>1, <4>1 DEF Inside
      <4>3. 0 <= x[D - d] /\ x[D - d] < e[d]  BY <2>1, <4>1
      <4> QED  BY <4>1, <4>2, <4>3
    <3> QED  BY <1>4, <2>1, <3>1 DEF IndexOf
  <2>4. Piece(D, e, dims)  BY <1>2, <1>8
  <2>5. h[D] < p[D]  BY <1>1, <1>5, <2>2, <2>3, <2>4, PieceFits
  <2> QED  BY <2>2, <2>5
<1>9. ASSUME \A x \in Index : Fits(x) PROVE Contiguous
  <2> DEFINE x == [i \in Dims |-> Size(i) - 1]
  <2>1. x \in Index  BY LastIsIndex
  <2>2. \A i \in Dims : x[i] = Size(i) - 1  OBVIOUS
  <2> HIDE DEF x
  <2>3. x \in [Dims -> Int]  BY <2>1, IndexIs
  <2>4. PICK m : Folds(m, D, 0, dims, Outward(x)) /\ (Fits(x) <=> m[D] < p[D])  BY <1>7, <2>3
  <2>5. m[D] < p[D]  BY <1>9, <2>1, <2>4
  <2>6. \A k \in 1 .. D : Outward(x)[k] = e[k] - 1  BY <1>1, <2>2 DEF Outward
  <2>7. Piece(D, e, dims)  BY <1>1, <1>5, <2>4, <2>5, <2>6, FitsIsPiece
  <2> QED  BY <1>2, <2>7
<1> QED  BY <1>8, <1>9

\* An output that is not declared is stored to within its words exactly when the
\* slice is a contiguous piece.
THEOREM UndeclaredFits == Spec => []UndeclaredOutputFits
<1> QED  BY Invariant, UndeclaredRight, PTL

-----------------------------------------------------------------------------
(* What is read.                                                           *)

LEMMA IndexBound ==
    ASSUME NEW f \in Int, NEW u \in Int, NEW b \in Int, NEW x \in Int, NEW c, c = u - f,
           0 <= f, u <= b, 0 <= x, x < c
    PROVE  0 <= f + x /\ f + x < b
OBVIOUS

LEMMA ReadsRight == Inv => ReadsWrittenSlices
<1> SUFFICES ASSUME Inv, Regular, NEW l \in TensorLeaves, NEW x \in Index
    PROVE  LET base == RefOf(l).base
               at == WordFor(base, RefOf(l).slices, x) - Off(base)
           IN  at = Element(DeclOf(l).dims, RefOf(l).slices, x) /\ at \in 0 .. Elems(base) - 1
  BY DEF ReadsWrittenSlices
<1> DEFINE base == RefOf(l).base
           dims == DeclOf(l).dims
           s == RefOf(l).slices
           w == WordFor(base, s, x)
           o == Off(base)
           e == Element(dims, s, x)
           ix == [d \in DOMAIN dims |-> (IF d <= Len(s) THEN s[d][1] ELSE 0) + x[D - d]]
<1>1. FirstOK /\ D \in Nat  BY RegularIs DEF FirstOK
<1>2. s \in Seq(Int \X Int) /\ dims \in Seq(Int)
  BY ReferenceIs DEF Regular
<1>3. Len(dims) = D /\ \A d \in 2 .. D : dims[d] = DeclOf(First).dims[d]
  BY DEF Regular, SameRows
<1>4. Len(s) = D /\ InBounds(s, dims) /\ \A d \in 1 .. D : Extent(s[d]) = Extents[d]
  BY DEF Regular, SameExtents, Extents
<1>5. x \in [Dims -> Int] /\ \A d \in Dims : 0 <= x[d] /\ x[d] < Size(d)  BY IndexIs
<1>6. \A d \in 1 .. D : D - d \in Dims /\ Size(D - d) = Extents[d]  BY ExtentsAre
<1>7. w = o + e
  <2> HIDE DEF s, dims, base
  <2> QED  BY <1>1, <1>2, <1>3, <1>5, WordIsElement
<1>8. e = Position(dims, ix)  BY DEF Element
<1>9. Elems(base) = Product(dims)  BY DEF Elems, DeclOf
<1>10. o \in Int  BY OffInt
<1> HIDE DEF s, dims, base, w, o, e
<1>11. ASSUME NEW d \in 1 .. D PROVE ix[d] \in Int /\ 0 <= ix[d] /\ ix[d] < dims[d]
  <2> DEFINE f == s[d][1]
             u == s[d][2]
             b == dims[d]
             z == x[D - d]
             c == Size(D - d)
  <2>1. d \in DOMAIN dims /\ d \in DOMAIN s /\ d <= Len(s) /\ d <= Len(dims)
        /\ s[d] \in Int \X Int /\ b \in Int
    BY <1>1, <1>2, <1>3, <1>4
  <2>2. f \in Int /\ u \in Int /\ c = u - f
    <3>1. c = Extent(s[d])  BY <1>4, <1>6
    <3> QED  BY <2>1, <3>1 DEF Extent
  <2>3. 0 <= f /\ u <= b  BY <1>4, <2>1 DEF InBounds
  <2>4. z \in Int /\ 0 <= z /\ z < c  BY <1>5, <1>6
  <2>5. ix[d] = f + z  BY <2>1
  <2> HIDE DEF f, u, z, c, b, ix
  <2>6. 0 <= f + z /\ f + z < b  BY <2>1, <2>2, <2>3, <2>4, IndexBound
  <2> QED  BY <2>2, <2>4, <2>5, <2>6 DEF b
<1>12. ix \in [1 .. Len(dims) -> Int]
  <2>1. DOMAIN dims = 1 .. Len(dims)  BY <1>2
  <2> QED  BY <1>3, <1>11, <2>1
<1> HIDE DEF ix
<1>13. e \in 0 .. Product(dims) - 1
  BY <1>2, <1>3, <1>8, <1>11, <1>12, PositionWithin
<1>14. w - o = e  BY <1>7, <1>10, <1>13
<1> QED  BY <1>9, <1>13, <1>14 DEF w, o, e, s, dims, base

\* The kernel of a regular program reads the elements the program names.
THEOREM ReadsSlices == Spec => []ReadsWrittenSlices
<1> QED  BY Invariant, ReadsRight, PTL

-----------------------------------------------------------------------------
(* The parts of buf.                                                       *)

LEMMA ProductNat ==
    ASSUME NEW s \in Seq(Int), \A k \in 1 .. Len(s) : s[k] >= 0
    PROVE  Product(s) \in Nat
<1> DEFINE n == Len(s)
<1>1. PICK p : Folds(p, n, 1, s, Zeros(n)) /\ Product(s) = p[n]  BY ProductIs
<1>2. n \in Nat /\ \A k \in 1 .. n : s[k] \in Int /\ s[k] >= 0 /\ Zeros(n)[k] = 0  BY DEF Zeros
<1> HIDE DEF n
<1> DEFINE S == {k \in 0 .. n : p[k] \in Nat}
<1>3. 0 \in S  BY <1>1, <1>2 DEF Folds
<1>4. ASSUME NEW k \in 0 .. n - 1, k \in S PROVE k + 1 \in S
  <2>1. k + 1 \in 1 .. n /\ k + 1 \in 0 .. n  BY <1>2
  <2>2. p[k + 1] = p[k] * s[k + 1] + Zeros(n)[k + 1]  BY <1>1, <1>2, FoldStep
  <2> DEFINE a == p[k]
             b == s[k + 1]
  <2>3. a \in Nat /\ b \in Nat  BY <1>2, <1>4, <2>1
  <2>4. p[k + 1] = a * b + 0  BY <1>2, <2>1, <2>2
  <2> HIDE DEF a, b
  <2>5. a * b + 0 \in Nat  BY <2>3
  <2> QED  BY <2>1, <2>4, <2>5
<1>5. n \in S
  <2>1. n \in 0 .. n  BY <1>2
  <2> HIDE DEF S
  <2> QED  BY <1>2, <1>3, <1>4, <2>1, UpTo
<1> QED  BY <1>1, <1>5

LEMMA BeforeStep ==
    ASSUME Inv, NEW j \in 1 .. Len(tensors)
    PROVE  Before(j + 1) = Before(j) + Elems(tensors[j].name)
<1>1. Len(tensors) \in Nat  BY SeqIs DEF Inv, DeclsOK, Recorded
<1>2. /\ j \in 1 .. Len(tensors) + 1 /\ j + 1 \in 1 .. Len(tensors) + 1 /\ (j + 1) - 1 = j
      /\ j \in Nat /\ j - 1 \in 0 .. j /\ j - 1 \in 0 .. j - 1 /\ (j - 1) + 1 = j /\ j \in 1 .. j
  BY <1>1
<1>3. PICK g : Folds(g, j - 1, 0, Ones(j - 1), Sizes(j - 1)) /\ Before(j) = g[j - 1]
  BY <1>2, BeforeIs
<1>4. PICK h : Folds(h, j, 0, Ones(j), Sizes(j)) /\ Before(j + 1) = h[j]
  <2>1. \E h : Folds(h, (j + 1) - 1, 0, Ones((j + 1) - 1), Sizes((j + 1) - 1))
               /\ Before(j + 1) = h[(j + 1) - 1]
    BY <1>2, BeforeIs
  <2> QED  BY <1>2, <2>1
<1> DEFINE m == j - 1
<1>5. \A k \in 1 .. m : Ones(m)[k] = Ones(j)[k] /\ Sizes(m)[k] = Sizes(j)[k]
  BY <1>2 DEF Ones, Sizes
<1>6. Folds(g, m, 0, Ones(m), Sizes(m)) /\ m \in 0 .. j /\ m \in 0 .. m  BY <1>2, <1>3
<1> HIDE DEF m
<1>7. \A k \in 0 .. m : g[k] = h[k]  BY <1>2, <1>4, <1>5, <1>6, FoldUnique
<1>8. g[m] = h[m]  BY <1>6, <1>7
<1>9. h[m] \in Int /\ h[m + 1] = h[m] * Ones(j)[m + 1] + Sizes(j)[m + 1]
  <2>1. m \in 0 .. j - 1  BY <1>2 DEF m
  <2> QED  BY <1>2, <1>4, <2>1, FoldStep
<1>10. m + 1 = j /\ Ones(j)[j] = 1 /\ Sizes(j)[j] = Elems(tensors[j].name)
  BY <1>2 DEF Ones, Sizes, m
<1>11. h[j] = h[m] * 1 + Elems(tensors[j].name)  BY <1>9, <1>10
<1>12. h[m] * 1 = h[m]  BY <1>9
<1> QED  BY <1>3, <1>4, <1>8, <1>11, <1>12 DEF m

\* A tensor's place is that of its last declaration, or the one after all.
Place(n) == IF Declared(n, tensors) THEN Max({j \in DOMAIN tensors : tensors[j].name = n})
            ELSE Len(tensors) + 1

LEMMA PlaceIs ==
    ASSUME Inv, NEW n
    PROVE  /\ Off(n) = Before(Place(n)) /\ Len(tensors) \in Nat
           /\ Place(n) \in 1 .. Len(tensors) + 1
           /\ Declared(n, tensors) => Place(n) \in 1 .. Len(tensors) /\ tensors[Place(n)].name = n
           /\ ~Declared(n, tensors) => Place(n) = Len(tensors) + 1
<1> DEFINE S == {j \in DOMAIN tensors : tensors[j].name = n}
<1>1. IsSeq(tensors)  BY DEF Inv, DeclsOK, Recorded
<1>2. Len(tensors) \in Nat /\ DOMAIN tensors = 1 .. Len(tensors)  BY <1>1, SeqIs
<1>3. Off(n) = Before(Place(n))  BY DEF Off, Place
<1>4. CASE Declared(n, tensors)
  <2>1. S # {} /\ S \subseteq Nat /\ Len(tensors) \in Int /\ \A k \in S : k <= Len(tensors)
    BY <1>2, <1>4 DEF Declared
  <2>2. Max(S) \in S
    <3> HIDE DEF S
    <3> QED  BY <2>1, MaxOf
  <2>3. Place(n) = Max(S)  BY <1>4 DEF Place
  <2>4. Place(n) \in 1 .. Len(tensors) /\ tensors[Place(n)].name = n  BY <1>2, <2>2, <2>3
  <2>5. Place(n) \in 1 .. Len(tensors) + 1  BY <1>2, <2>4
  <2> QED  BY <1>2, <1>3, <1>4, <2>4, <2>5
<1>5. CASE ~Declared(n, tensors)
  <2>1. Place(n) = Len(tensors) + 1 /\ Len(tensors) + 1 \in 1 .. Len(tensors) + 1
    BY <1>2, <1>5 DEF Place
  <2> QED  BY <1>2, <1>3, <1>5, <2>1
<1> QED  BY <1>4, <1>5

\* If no size is negative, every place is behind the tensors of the earlier ones.
LEMMA BeforeGrows ==
    ASSUME Inv, \A k \in 1 .. Len(tensors) : Elems(tensors[k].name) \in Nat,
           NEW i \in 1 .. Len(tensors), NEW j \in i + 1 .. Len(tensors) + 1
    PROVE  Before(i) + Elems(tensors[i].name) <= Before(j)
<1> DEFINE n == Len(tensors) + 1
           c == Before(i + 1)
           S == {k \in 0 .. n : k >= i + 1 => c <= Before(k)}
<1>1. Len(tensors) \in Nat /\ i \in Nat  BY SeqIs DEF Inv, DeclsOK, Recorded
<1>2. i + 1 \in 1 .. n /\ n \in Nat  BY <1>1
<1>3. c \in Int  BY <1>2, BeforeInt
<1>4. 0 \in S  BY <1>1
<1>5. ASSUME NEW k \in 0 .. n - 1, k \in S PROVE k + 1 \in S
  <2>1. k + 1 \in 0 .. n  BY <1>1
  <2>2. CASE k + 1 = i + 1  BY <1>3, <2>1, <2>2
  <2>3. CASE k + 1 < i + 1  BY <1>1, <2>1, <2>3
  <2>4. CASE k + 1 > i + 1
    <3>1. k \in 1 .. Len(tensors) /\ k >= i + 1 /\ k \in 1 .. Len(tensors) + 1  BY <1>1, <2>4
    <3>2. Before(k + 1) = Before(k) + Elems(tensors[k].name)  BY <3>1, BeforeStep
    <3>3. Before(k) \in Int /\ Elems(tensors[k].name) \in Nat /\ c <= Before(k)
      BY <1>5, <3>1, BeforeInt
    <3>4. c <= Before(k + 1)
      <4> HIDE DEF c
      <4> QED  BY <1>3, <3>2, <3>3
    <3> QED  BY <2>1, <3>4
  <2> QED  BY <1>1, <2>2, <2>3, <2>4
<1>6. j \in S
  <2>1. j \in 0 .. n  BY <1>1
  <2> HIDE DEF S
  <2> QED  BY <1>2, <1>4, <1>5, <2>1, UpTo
<1>7. c <= Before(j)  BY <1>6
<1>8. c = Before(i) + Elems(tensors[i].name)  BY BeforeStep
<1> QED  BY <1>7, <1>8

LEMMA ApartRight == Inv => PartsApart
<1> SUFFICES ASSUME Inv,
                    \A j \in DOMAIN tensors : \A d \in DOMAIN tensors[j].dims : tensors[j].dims[d] >= 0,
                    NEW m \in {tensors[j].name : j \in DOMAIN tensors} \cup {out.name},
                    NEW n \in {tensors[j].name : j \in DOMAIN tensors} \cup {out.name}, m # n
    PROVE  Part(m) \cap Part(n) = {}
  BY DEF PartsApart
<1>1. IsSeq(tensors) /\ Recorded(prog, next, "tensor", tensors)  BY DEF Inv, DeclsOK, Recorded
<1>2. Len(tensors) \in Nat /\ DOMAIN tensors = 1 .. Len(tensors)  BY <1>1, SeqIs
<1>3. ASSUME NEW k \in 1 .. Len(tensors) PROVE Elems(tensors[k].name) \in Nat
  <2> DEFINE name == tensors[k].name
  <2>1. Declared(name, tensors)  BY <1>2 DEF Declared
  <2> HIDE DEF name
  <2>2. PICK j \in 1 .. Len(tensors) : LastDecl(name, tensors) = tensors[j]
    BY <1>1, <2>1, LastDeclared
  <2>3. LastDecl(name, tensors).dims \in Seq(Int)  BY <1>1, <2>1, TensorDeclared
  <2> DEFINE dims == tensors[j].dims
  <2>4. dims \in Seq(Int) /\ \A d \in DOMAIN dims : dims[d] >= 0  BY <1>2, <2>2, <2>3
  <2> HIDE DEF dims
  <2>5. Product(dims) \in Nat  BY <2>4, ProductNat
  <2>6. Elems(name) = Product(dims)  BY <2>2 DEF Elems, dims
  <2> QED  BY <2>5, <2>6 DEF name
<1>4. ASSUME NEW p, NEW q, Place(p) < Place(q) PROVE Part(p) \cap Part(q) = {}
  <2> DEFINE i == Place(p)
             j == Place(q)
  <2>1. i \in 1 .. Len(tensors) + 1 /\ j \in 1 .. Len(tensors) + 1  BY PlaceIs
  <2>2. Declared(p, tensors)  BY <1>2, <1>4, <2>1, PlaceIs
  <2>3. i \in 1 .. Len(tensors) /\ tensors[i].name = p  BY <2>2, PlaceIs
  <2>4. Off(p) = Before(i) /\ Off(q) = Before(j)  BY PlaceIs
  <2>5. j \in i + 1 .. Len(tensors) + 1  BY <1>2, <1>4, <2>1
  <2> HIDE DEF i, j
  <2>6. Before(i) + Elems(tensors[i].name) <= Before(j)  BY <1>3, <2>3, <2>5, BeforeGrows
  <2>7. Before(i) \in Int /\ Before(j) \in Int /\ Elems(tensors[i].name) \in Nat
    BY <1>3, <2>1, <2>3, BeforeInt
  <2> DEFINE a == Off(p)
             b == Off(q)
             e == Elems(p)
             f == IF Declared(q, tensors) THEN Elems(q) ELSE OutElems
  <2>8. a \in Int /\ b \in Int /\ e \in Nat /\ a + e <= b  BY <2>3, <2>4, <2>6, <2>7
  <2>9. Part(p) = a .. a + e - 1  BY <2>2 DEF Part
  <2>10. Part(q) = b .. b + f - 1  BY DEF Part
  <2> HIDE DEF a, b, e, f
  <2>11. \A z \in a .. a + e - 1 : z < b  BY <2>8
  <2>12. \A z \in b .. b + f - 1 : z \in Int /\ z >= b  BY <2>8
  <2>13. \A z : z \in a .. a + e - 1 => z \in Int  OBVIOUS
  <2> QED  BY <2>8, <2>9, <2>10, <2>11, <2>12, <2>13
<1>5. Place(m) # Place(n)
  <2> SUFFICES ASSUME Place(m) = Place(n) PROVE FALSE  OBVIOUS
  <2>1. CASE Declared(m, tensors) /\ Declared(n, tensors)
    BY <2>1, PlaceIs
  <2>2. CASE ~Declared(m, tensors) /\ ~Declared(n, tensors)
    <3>1. \A k \in DOMAIN tensors : Declared(tensors[k].name, tensors)  BY DEF Declared
    <3> QED  BY <2>2, <3>1
  <2>3. ASSUME NEW p, NEW q, Declared(p, tensors), ~Declared(q, tensors), Place(p) = Place(q)
        PROVE  FALSE
    <3>1. Place(p) \in 1 .. Len(tensors) /\ Place(q) = Len(tensors) + 1  BY <2>3, PlaceIs
    <3> QED  BY <1>2, <2>3, <3>1
  <2> QED  BY <2>1, <2>2, <2>3
<1>6. Place(m) \in Int /\ Place(n) \in Int
  <2>1. Place(m) \in 1 .. Len(tensors) + 1 /\ Place(n) \in 1 .. Len(tensors) + 1  BY PlaceIs
  <2> QED  BY <2>1
<1>7. CASE Place(m) < Place(n)  BY <1>4, <1>7
<1>8. CASE Place(n) < Place(m)
  <2>1. Part(n) \cap Part(m) = {}  BY <1>4, <1>8
  <2> QED  BY <2>1
<1> QED  BY <1>5, <1>6, <1>7, <1>8

\* No two tensors, nor a tensor and the output, have a word of buf in common.
THEOREM KeepsApart == Spec => []PartsApart
<1> QED  BY Invariant, ApartRight, PTL
=============================================================================

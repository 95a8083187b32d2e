-------------------------- MODULE ExprFlattenProofs --------------------------
(***************************************************************************)
(* Theorems about ExprFlatten, for any expressions and any numbers for     *)
(* their leaves.                                                           *)
(*                                                                         *)
(* What holds of every node's steps is shown by induction on the nodes, an *)
(* operand standing before its operator: the steps of a node are a block   *)
(* (Block), they compute its value where the node is linear (ComputesNode) *)
(* and add it to what is there where it is additive (AddsNode).            *)
(***************************************************************************)
EXTENDS ExprFlatten, SequenceTheorems, WellFoundedInduction, TLAPS

-----------------------------------------------------------------------------
(* Induction and recursion on the numbers from 1 to n, with sets and       *)
(* functions in the place of predicates and operators.                     *)

LEMMA LeastNumber ==
    ASSUME NEW T, T \subseteq Nat, T # {}
    PROVE  \E x \in T : \A y \in T : x <= y
<1>1. PICK x \in T : \A y \in T : ~ (<<y, x>> \in OpToRel(<, Nat))
  <2>1. IsWellFoundedOn(OpToRel(<, Nat), Nat)  BY NatLessThanWellFounded
  <2> QED  BY <2>1, WFMin
<1>2. \A y \in T : ~(y < x)  BY <1>1 DEF OpToRel
<1> QED  BY <1>2

\* What holds of a number as soon as it holds of all before it holds of all.
LEMMA EachFromEarlier ==
    ASSUME NEW n \in Nat, NEW S,
           \A m \in 1 .. n : (\A k \in 1 .. m - 1 : k \in S) => m \in S
    PROVE  \A m \in 1 .. n : m \in S
<1> DEFINE T == {m \in 1 .. n : m \notin S}
<1>1. SUFFICES ASSUME T # {} PROVE FALSE  OBVIOUS
<1>2. T \subseteq Nat  OBVIOUS
<1>3. PICK x \in T : \A y \in T : x <= y
  <2> HIDE DEF T
  <2> QED  BY <1>1, <1>2, LeastNumber
<1>4. \A k \in 1 .. x - 1 : k \in 1 .. n /\ ~(x <= k)  OBVIOUS
<1>5. \A k \in 1 .. x - 1 : k \in S  BY <1>3, <1>4
<1> QED  BY <1>5

\* The value of body at i and f, in T, depends on f below i only.
Local(n, T, body) ==
    /\ body \in [(1 .. n) \X [1 .. n -> T] -> T]
    /\ \A i \in 1 .. n : \A f, g \in [1 .. n -> T] :
         (\A k \in 1 .. i - 1 : f[k] = g[k]) => body[<<i, f>>] = body[<<i, g>>]

Solves(n, T, body, f) == f \in [1 .. n -> T] /\ \A i \in 1 .. n : f[i] = body[<<i, f>>]

\* Then some function has that value at every i.
LEMMA Recursion ==
    ASSUME NEW n \in Nat, NEW T, NEW t \in T, NEW body, Local(n, T, body)
    PROVE  \E f : Solves(n, T, body, f)
<1> DEFINE Upto(m) == \E f \in [1 .. n -> T] : \A i \in 1 .. m : f[i] = body[<<i, f>>]
           S == {m \in 0 .. n : Upto(m)}
           S1 == {m \in 1 .. n : Upto(m)}
<1>1. Upto(0)
  <2> DEFINE f == [i \in 1 .. n |-> t]
  <2>1. f \in [1 .. n -> T]  OBVIOUS
  <2>2. \A i \in 1 .. 0 : f[i] = body[<<i, f>>]  OBVIOUS
  <2> HIDE DEF f
  <2> QED  BY <2>1, <2>2
<1>2. ASSUME NEW m \in 0 .. n - 1, Upto(m) PROVE Upto(m + 1)
  <2>1. PICK f \in [1 .. n -> T] : \A i \in 1 .. m : f[i] = body[<<i, f>>]  BY <1>2
  <2>2. m + 1 \in 1 .. n  OBVIOUS
  <2> DEFINE y == body[<<m + 1, f>>]
             g == [f EXCEPT ![m + 1] = y]
  <2>3. y \in T  BY <2>2 DEF Local
  <2> HIDE DEF y
  <2>4. g \in [1 .. n -> T]  BY <2>2, <2>3
  <2>5. \A k \in 1 .. m : g[k] = f[k]  BY <2>2
  <2>6. g[m + 1] = y  BY <2>2
  <2> HIDE DEF g
  <2>7. ASSUME NEW i \in 1 .. m + 1 PROVE g[i] = body[<<i, g>>]
    <3>1. i \in 1 .. n  OBVIOUS
    <3>2. \A k \in 1 .. i - 1 : k \in 1 .. m  OBVIOUS
    <3>3. \A k \in 1 .. i - 1 : f[k] = g[k]  BY <2>5, <3>2
    <3>4. body[<<i, f>>] = body[<<i, g>>]  BY <2>4, <3>1, <3>3 DEF Local
    <3>5. g[i] = body[<<i, f>>]
      <4>1. CASE i \in 1 .. m  BY <2>1, <2>5, <4>1
      <4>2. CASE i = m + 1  BY <2>6, <4>2 DEF y
      <4> QED  BY <4>1, <4>2
    <3> QED  BY <3>4, <3>5
  <2> QED  BY <2>4, <2>7
<1>3. \A m \in 1 .. n : m \in S1
  <2>1. ASSUME NEW m \in 1 .. n, \A k \in 1 .. m - 1 : k \in S1 PROVE m \in S1
    <3>1. m - 1 \in 0 .. n - 1 /\ m - 1 + 1 = m  OBVIOUS
    <3>2. Upto(m - 1)
      <4>1. CASE m = 1  BY <1>1, <4>1
      <4>2. CASE m # 1
        <5>1. m - 1 \in 1 .. m - 1  BY <4>2
        <5>2. m - 1 \in S1  BY <2>1, <5>1
        <5> QED  BY <5>2
      <4> QED  BY <4>1, <4>2
    <3> HIDE DEF Upto
    <3>3. Upto(m - 1 + 1)  BY <1>2, <3>1, <3>2
    <3> QED  BY <3>1, <3>3
  <2> HIDE DEF S1
  <2> QED  BY <2>1, EachFromEarlier
<1>4. Upto(n)
  <2>1. CASE n = 0  BY <1>1, <2>1
  <2>2. CASE n # 0
    <3>1. n \in 1 .. n  BY <2>2
    <3>2. n \in S1
      <4> HIDE DEF S1
      <4> QED  BY <1>3, <3>1
    <3> QED  BY <3>2
  <2> QED  BY <2>1, <2>2
<1> QED  BY <1>4 DEF Solves

-----------------------------------------------------------------------------
(* Trees.                                                                  *)

LEMMA Shape ==
    ASSUME NEW e, IsTree(e)
    PROVE  /\ DOMAIN e = 1 .. Len(e) /\ Len(e) \in Nat /\ Len(e) > 0
           /\ \A i \in 1 .. Len(e) :
                /\ e[i].kind # "op" => e[i].name \in Nat /\ e[i].name # None
                /\ e[i].kind = "op" => /\ e[i].op \in Ops
                                       /\ e[i].a \in 1 .. i - 1 /\ e[i].b \in 1 .. i - 1
                                       /\ e[i].a \in 1 .. Len(e) /\ e[i].b \in 1 .. Len(e)
<1>1. e \in Seq(Node) /\ e # << >>  BY DEF IsTree
<1>2. DOMAIN e = 1 .. Len(e) /\ Len(e) \in Nat  BY <1>1
<1>3. Len(e) > 0  BY <1>1, <1>2
<1>4. ASSUME NEW i \in 1 .. Len(e)
      PROVE  /\ e[i].kind # "op" => e[i].name \in Nat /\ e[i].name # None
             /\ e[i].kind = "op" => /\ e[i].op \in Ops
                                    /\ e[i].a \in 1 .. i - 1 /\ e[i].b \in 1 .. i - 1
                                    /\ e[i].a \in 1 .. Len(e) /\ e[i].b \in 1 .. Len(e)
  <2>1. e[i] \in Node  BY <1>1
  <2>2. CASE e[i].kind # "op"
    <3>1. e[i] \in [kind : {"tensor", "scalar"}, name : Nat \ {None}]  BY <2>1, <2>2 DEF Node
    <3> QED  BY <2>2, <3>1
  <2>3. CASE e[i].kind = "op"
    <3>1. e[i] \in [kind : {"op"}, op : Ops, a : Nat \ {0}, b : Nat \ {0}]
      BY <2>1, <2>3 DEF Node
    <3>2. e[i].op \in Ops /\ e[i].a \in Nat \ {0} /\ e[i].b \in Nat \ {0}  BY <3>1
    <3>3. e[i].a < i /\ e[i].b < i  BY <1>2, <2>3 DEF IsTree
    <3> QED  BY <2>3, <3>2, <3>3
  <2> QED  BY <2>2, <2>3
<1> QED  BY <1>2, <1>3, <1>4

-----------------------------------------------------------------------------
(* The steps of a node are a block: they name leaves of the tree, and the  *)
(* first of them, and no other, sets the accumulator.                      *)

LeafNames(e) == {e[i].name : i \in {k \in DOMAIN e : Leaf(e, k)}}

ScalarNames(e) == {e[i].name : i \in {k \in DOMAIN e : Scalar(e, k)}}

StepOf(e) ==
    [leaf : LeafNames(e), scalar : ScalarNames(e) \cup {None}, init : BOOLEAN, op : Ops]

Block(e) ==
    {s \in Seq(StepOf(e)) : Len(s) > 0 /\ \A j \in 1 .. Len(s) : s[j].init <=> j = 1}

\* What Code gives a node, from the steps of its operands.
CodeBody(e, code, i) ==
    IF Simple(e, i) THEN <<MakeStep(e, i, TRUE, "add")>>
    ELSE LET a == e[i].a
             b == e[i].b
         IN  IF Simple(e, b) THEN code[a] \o <<MakeStep(e, b, FALSE, e[i].op)>>
             ELSE IF Simple(e, a) THEN code[b] \o <<MakeStep(e, a, FALSE, e[i].op)>>
             ELSE code[a] \o Joined(code[b], e[i].op)

LEMMA ScalarNamesLeaf == \A e : ScalarNames(e) \subseteq LeafNames(e)
BY DEF ScalarNames, LeafNames, Scalar, Leaf

LEMMA MakeStepOK ==
    ASSUME NEW e, IsTree(e), NEW i \in 1 .. Len(e), Simple(e, i),
           NEW init \in BOOLEAN, NEW op \in Ops
    PROVE  /\ MakeStep(e, i, init, op) \in StepOf(e)
           /\ MakeStep(e, i, init, op).init = init
           /\ MakeStep(e, i, init, op).op = op
<1>1. \A k \in 1 .. Len(e) : Leaf(e, k) => e[k].name \in LeafNames(e)
  BY Shape DEF LeafNames
<1>2. CASE Leaf(e, i)  BY <1>1, <1>2 DEF MakeStep, StepOf
<1>3. CASE ~Leaf(e, i)
  <2>1. FusedMul(e, i) /\ e[i].kind = "op"  BY <1>3 DEF Simple, Leaf
  <2>2. e[i].a \in 1 .. Len(e) /\ e[i].b \in 1 .. Len(e)  BY <2>1, Shape
  <2> DEFINE p == e[e[i].a].name
             q == e[e[i].b].name
             st == MakeStep(e, i, init, op)
  <2>3. p \in LeafNames(e) /\ q \in LeafNames(e)
    BY <1>1, <2>1, <2>2 DEF FusedMul
  <2>4. \A k \in 1 .. Len(e) : Scalar(e, k) => e[k].name \in ScalarNames(e)
    BY Shape DEF ScalarNames
  <2>5. (Scalar(e, e[i].a) /\ p \in ScalarNames(e)) \/ (~Scalar(e, e[i].a) /\ q \in ScalarNames(e))
    <3>1. Scalar(e, e[i].a) \/ Scalar(e, e[i].b)  BY <2>1 DEF FusedMul, Scalar
    <3>2. Scalar(e, e[i].a) => p \in ScalarNames(e)  BY <2>2, <2>4
    <3>3. Scalar(e, e[i].b) => q \in ScalarNames(e)  BY <2>2, <2>4
    <3> QED  BY <3>1, <3>2, <3>3
  <2>6. st = [leaf |-> IF Scalar(e, e[i].a) THEN q ELSE p,
              scalar |-> IF Scalar(e, e[i].a) THEN p ELSE q, init |-> init, op |-> op]
    BY <1>3 DEF MakeStep
  <2> HIDE DEF p, q, st
  <2> QED  BY <2>3, <2>5, <2>6 DEF StepOf, st
<1> QED  BY <1>2, <1>3

LEMMA BlockOne ==
    ASSUME NEW e, NEW st \in StepOf(e), st.init = TRUE
    PROVE  <<st>> \in Block(e)
BY DEF Block

LEMMA BlockMore ==
    ASSUME NEW e, NEW s \in Block(e), NEW t \in Seq(StepOf(e)),
           \A j \in 1 .. Len(t) : t[j].init = FALSE
    PROVE  s \o t \in Block(e)
<1>1. s \in Seq(StepOf(e)) /\ Len(s) \in Nat /\ Len(s) > 0  BY DEF Block
<1>2. s \o t \in Seq(StepOf(e)) /\ Len(s \o t) = Len(s) + Len(t) /\ Len(t) \in Nat  BY <1>1
<1>3. ASSUME NEW j \in 1 .. Len(s \o t) PROVE (s \o t)[j].init <=> j = 1
  <2>1. CASE j <= Len(s)
    <3>1. j \in 1 .. Len(s) /\ (s \o t)[j] = s[j]  BY <1>1, <1>2, <2>1
    <3> QED  BY <3>1 DEF Block
  <2>2. CASE j > Len(s)
    <3>1. j - Len(s) \in 1 .. Len(t) /\ (s \o t)[j] = t[j - Len(s)] /\ j # 1
      BY <1>1, <1>2, <2>2
    <3> QED  BY <3>1
  <2> QED  BY <1>1, <1>2, <2>1, <2>2
<1>4. Len(s \o t) > 0  BY <1>1, <1>2
<1> QED  BY <1>2, <1>3, <1>4 DEF Block

\* t is s made to continue with op.
Continues(e, s, t, op) ==
    /\ t \in Seq(StepOf(e)) /\ Len(t) = Len(s)
    /\ \A j \in 1 .. Len(s) : t[j].init = FALSE
    /\ t[1].leaf = s[1].leaf /\ t[1].scalar = s[1].scalar /\ t[1].op = op
    /\ \A j \in 2 .. Len(s) : t[j] = s[j]

Rejoined(st, op) == [st EXCEPT !.init = FALSE, !.op = op]

LEMMA JoinedContinues ==
    ASSUME NEW e, NEW s \in Block(e), NEW op \in Ops
    PROVE  Continues(e, s, Joined(s, op), op)
<1>1. s \in Seq(StepOf(e)) /\ Len(s) \in Nat /\ Len(s) > 0 /\ 1 \in 1 .. Len(s)  BY DEF Block
<1> DEFINE st == [s[1] EXCEPT !.init = FALSE, !.op = op]
<1>2. s[1] \in StepOf(e)  BY <1>1
<1>3. /\ st \in StepOf(e) /\ st.init = FALSE
      /\ st.leaf = s[1].leaf /\ st.scalar = s[1].scalar /\ st.op = op
  BY <1>2 DEF StepOf
<1>4. Joined(s, op) = [s EXCEPT ![1] = st]
  <2>1. DOMAIN s = 1 .. Len(s)  BY <1>1
  <2> QED  BY <1>1, <1>2, <2>1 DEF Joined, StepOf
<1> HIDE DEF st
<1>5. [s EXCEPT ![1] = st] \in Seq(StepOf(e)) /\ Len([s EXCEPT ![1] = st]) = Len(s)
  BY <1>1, <1>3
<1>6. [s EXCEPT ![1] = st][1] = st /\ \A j \in 2 .. Len(s) : [s EXCEPT ![1] = st][j] = s[j]
  BY <1>1
<1>7. \A j \in 2 .. Len(s) : s[j].init = FALSE
  <2>1. ASSUME NEW j \in 2 .. Len(s) PROVE s[j].init = FALSE
    <3>1. j \in 1 .. Len(s) /\ j # 1  BY <1>1
    <3>2. s[j] \in StepOf(e)  BY <1>1, <3>1
    <3>3. s[j].init \in BOOLEAN  BY <3>2 DEF StepOf
    <3>4. ~s[j].init  BY <3>1 DEF Block
    <3> QED  BY <3>3, <3>4
  <2> QED  BY <2>1
<1>8. \A j \in 1 .. Len(s) : j = 1 \/ j \in 2 .. Len(s)  BY <1>1
<1> QED  BY <1>3, <1>4, <1>5, <1>6, <1>7, <1>8 DEF Continues

LEMMA JoinedAsExcept ==
    ASSUME NEW e, NEW s \in Block(e), NEW op \in Ops
    PROVE  Joined(s, op) = [s EXCEPT ![1] = Rejoined(s[1], op)] /\ Rejoined(s[1], op) \in StepOf(e)
<1>1. s \in Seq(StepOf(e)) /\ Len(s) \in Nat /\ Len(s) > 0 /\ 1 \in 1 .. Len(s)  BY DEF Block
<1>2. s[1] \in StepOf(e)  BY <1>1
<1>3. DOMAIN s = 1 .. Len(s)  BY <1>1
<1>4. Joined(s, op) = [s EXCEPT ![1] = Rejoined(s[1], op)]
  BY <1>1, <1>2, <1>3 DEF Joined, StepOf, Rejoined
<1>5. Rejoined(s[1], op) \in StepOf(e)  BY <1>2 DEF Rejoined, StepOf
<1> QED  BY <1>4, <1>5

LEMMA JoinedSteps ==
    ASSUME NEW e, NEW s \in Block(e), NEW op \in Ops
    PROVE  /\ Joined(s, op) \in Seq(StepOf(e)) /\ Len(Joined(s, op)) = Len(s)
           /\ \A j \in 1 .. Len(s) : Joined(s, op)[j].init = FALSE
<1> DEFINE t == Joined(s, op)
<1>1. Continues(e, s, t, op)  BY JoinedContinues
<1> HIDE DEF t
<1>2. t \in Seq(StepOf(e)) /\ Len(t) = Len(s) /\ \A j \in 1 .. Len(s) : t[j].init = FALSE
  BY <1>1 DEF Continues
<1> QED  BY <1>2 DEF t

LEMMA JoinedFirst ==
    ASSUME NEW e, NEW s \in Block(e), NEW op \in Ops
    PROVE  /\ Joined(s, op)[1].leaf = s[1].leaf /\ Joined(s, op)[1].scalar = s[1].scalar
           /\ Joined(s, op)[1].op = op
BY JoinedContinues DEF Continues

LEMMA JoinedRest ==
    ASSUME NEW e, NEW s \in Block(e), NEW op \in Ops
    PROVE  \A j \in 2 .. Len(s) : Joined(s, op)[j] = s[j]
BY JoinedContinues DEF Continues

LEMMA CodeBodyBlock ==
    ASSUME NEW e, IsTree(e), NEW f, NEW i \in 1 .. Len(e),
           e[i].kind = "op" => f[e[i].a] \in Block(e) /\ f[e[i].b] \in Block(e)
    PROVE  CodeBody(e, f, i) \in Block(e)
<1>0. "add" \in Ops  BY DEF Ops
<1>1. CASE Simple(e, i)
  <2>1. MakeStep(e, i, TRUE, "add") \in StepOf(e) /\ MakeStep(e, i, TRUE, "add").init = TRUE
    BY <1>0, <1>1, MakeStepOK
  <2>2. <<MakeStep(e, i, TRUE, "add")>> \in Block(e)  BY <2>1, BlockOne
  <2> QED  BY <1>1, <2>2 DEF CodeBody
<1>2. CASE ~Simple(e, i)
  <2> DEFINE a == e[i].a
             b == e[i].b
             op == e[i].op
  <2>1. e[i].kind = "op"  BY <1>2 DEF Simple, Leaf
  <2>2. /\ a \in 1 .. Len(e) /\ b \in 1 .. Len(e) /\ op \in Ops
        /\ f[a] \in Block(e) /\ f[b] \in Block(e)
    BY <2>1, Shape
  <2>3. CodeBody(e, f, i) =
          IF Simple(e, b) THEN f[a] \o <<MakeStep(e, b, FALSE, op)>>
          ELSE IF Simple(e, a) THEN f[b] \o <<MakeStep(e, a, FALSE, op)>>
          ELSE f[a] \o Joined(f[b], op)
    BY <1>2 DEF CodeBody
  <2> HIDE DEF a, b, op
  <2>4. ASSUME NEW s \in Block(e), NEW k \in 1 .. Len(e), Simple(e, k)
        PROVE  s \o <<MakeStep(e, k, FALSE, op)>> \in Block(e)
    <3> DEFINE st == MakeStep(e, k, FALSE, op)
    <3>1. st \in StepOf(e) /\ st.init = FALSE  BY <2>2, <2>4, MakeStepOK
    <3> HIDE DEF st
    <3>2. <<st>> \in Seq(StepOf(e)) /\ \A j \in 1 .. Len(<<st>>) : <<st>>[j].init = FALSE
      BY <3>1
    <3>3. s \o <<st>> \in Block(e)  BY <3>2, BlockMore
    <3> QED  BY <3>3 DEF st
  <2>5. f[a] \o Joined(f[b], op) \in Block(e)
    <3> DEFINE t == Joined(f[b], op)
    <3>1. t \in Seq(StepOf(e)) /\ \A j \in 1 .. Len(t) : t[j].init = FALSE
      BY <2>2, JoinedSteps
    <3> HIDE DEF t
    <3>2. f[a] \o t \in Block(e)  BY <2>2, <3>1, BlockMore
    <3> QED  BY <3>2 DEF t
  <2>6. CASE Simple(e, b)
    <3>1. CodeBody(e, f, i) = f[a] \o <<MakeStep(e, b, FALSE, op)>>  BY <2>3, <2>6
    <3>2. f[a] \o <<MakeStep(e, b, FALSE, op)>> \in Block(e)  BY <2>2, <2>4, <2>6
    <3> QED  BY <3>1, <3>2
  <2>7. CASE ~Simple(e, b) /\ Simple(e, a)
    <3>1. CodeBody(e, f, i) = f[b] \o <<MakeStep(e, a, FALSE, op)>>  BY <2>3, <2>7
    <3>2. f[b] \o <<MakeStep(e, a, FALSE, op)>> \in Block(e)  BY <2>2, <2>4, <2>7
    <3> QED  BY <3>1, <3>2
  <2>8. CASE ~Simple(e, b) /\ ~Simple(e, a)
    <3>1. CodeBody(e, f, i) = f[a] \o Joined(f[b], op)  BY <2>3, <2>8
    <3> QED  BY <2>5, <3>1
  <2> QED  BY <2>6, <2>7, <2>8
<1> QED  BY <1>1, <1>2

\* The first node is a leaf.
LEMMA FirstLeaf ==
    ASSUME NEW e, IsTree(e)
    PROVE  1 \in 1 .. Len(e) /\ Leaf(e, 1)
BY Shape DEF Leaf

LEMMA CodeIs ==
    ASSUME NEW e, IsTree(e)
    PROVE  /\ Code(e) \in [1 .. Len(e) -> Block(e)]
           /\ \A i \in 1 .. Len(e) : Code(e)[i] = CodeBody(e, Code(e), i)
<1> DEFINE n == Len(e)
           T == Block(e)
           body == [p \in (1 .. n) \X [1 .. n -> T] |-> CodeBody(e, p[2], p[1])]
<1>1. n \in Nat /\ DOMAIN e = 1 .. n  BY Shape
<1>2. PICK t : t \in T
  <2>1. Simple(e, 1) /\ 1 \in 1 .. n  BY FirstLeaf DEF Simple
  <2>2. "add" \in Ops  BY DEF Ops
  <2>3. MakeStep(e, 1, TRUE, "add") \in StepOf(e) /\ MakeStep(e, 1, TRUE, "add").init = TRUE
    BY <2>1, <2>2, MakeStepOK
  <2>4. <<MakeStep(e, 1, TRUE, "add")>> \in T  BY <2>3, BlockOne
  <2> QED  BY <2>4
<1>3. ASSUME NEW i \in 1 .. n, NEW f, \A k \in 1 .. i - 1 : f[k] \in T
      PROVE  CodeBody(e, f, i) \in T
  <2>1. e[i].kind = "op" => e[i].a \in 1 .. i - 1 /\ e[i].b \in 1 .. i - 1  BY Shape
  <2> QED  BY <1>3, <2>1, CodeBodyBlock
<1>4. body \in [(1 .. n) \X [1 .. n -> T] -> T]
  <2>1. ASSUME NEW i \in 1 .. n, NEW f \in [1 .. n -> T] PROVE CodeBody(e, f, i) \in T
    BY <1>1, <1>3
  <2> HIDE DEF T, n
  <2> QED  BY <2>1
<1>5. ASSUME NEW i \in 1 .. n, NEW f \in [1 .. n -> T], NEW g \in [1 .. n -> T],
             \A k \in 1 .. i - 1 : f[k] = g[k]
      PROVE  body[<<i, f>>] = body[<<i, g>>]
  <2>1. CASE Simple(e, i)  BY <2>1 DEF CodeBody
  <2>2. CASE ~Simple(e, i)
    <3>1. e[i].kind = "op"  BY <2>2 DEF Simple, Leaf
    <3>2. e[i].a \in 1 .. i - 1 /\ e[i].b \in 1 .. i - 1  BY <3>1, Shape
    <3>3. f[e[i].a] = g[e[i].a] /\ f[e[i].b] = g[e[i].b]  BY <1>5, <3>2
    <3>4. CodeBody(e, f, i) = CodeBody(e, g, i)  BY <3>3 DEF CodeBody
    <3>5. body[<<i, f>>] = CodeBody(e, f, i) /\ body[<<i, g>>] = CodeBody(e, g, i)
      <4> HIDE DEF T, n
      <4> QED  OBVIOUS
    <3> HIDE DEF body
    <3> QED  BY <3>4, <3>5
  <2> QED  BY <2>1, <2>2
<1>6. PICK f \in [1 .. n -> T] : \A i \in 1 .. n : f[i] = body[<<i, f>>]
  <2> HIDE DEF T, n, body
  <2>1. Local(n, T, body)  BY <1>4, <1>5 DEF Local
  <2>2. PICK f : Solves(n, T, body, f)  BY <1>1, <1>2, <2>1, Recursion
  <2> QED  BY <2>2 DEF Solves
<1>7. f = [i \in DOMAIN e |-> CodeBody(e, f, i)]
  <2> HIDE DEF T, n
  <2> QED  BY <1>1, <1>6
<1>8. Code(e) = [i \in DOMAIN e |-> CodeBody(e, Code(e), i)]
  BY <1>7 DEF Code, CodeBody
<1> DEFINE code == Code(e)
           S == {i \in 1 .. n : code[i] \in T}
<1>9. \A i \in 1 .. n : code[i] = CodeBody(e, code, i)
  <2> HIDE DEF n
  <2> QED  BY <1>1, <1>8
<1>10. \A i \in 1 .. n : i \in S
  <2>1. ASSUME NEW i \in 1 .. n, \A k \in 1 .. i - 1 : k \in S PROVE i \in S
    <3>1. \A k \in 1 .. i - 1 : code[k] \in T  BY <2>1
    <3>2. CodeBody(e, code, i) \in T
      <4> HIDE DEF code, T
      <4> QED  BY <1>3, <3>1
    <3> QED  BY <1>9, <3>2
  <2> HIDE DEF S, n
  <2> QED  BY <1>1, <2>1, EachFromEarlier
<1>11. \A i \in 1 .. n : code[i] \in T  BY <1>10
<1>12. code \in [1 .. n -> T]
  <2>1. code = [i \in 1 .. n |-> CodeBody(e, code, i)]  BY <1>1, <1>8
  <2> HIDE DEF T, n, code
  <2>2. DOMAIN code = 1 .. n /\ code = [i \in 1 .. n |-> code[i]]  BY <2>1
  <2> QED  BY <1>11, <2>2
<1> QED  BY <1>9, <1>12

-----------------------------------------------------------------------------
(* The values of the nodes, and which of them are additive and linear.     *)

ValueBody(e, v, val, i) ==
    IF Leaf(e, i) THEN v[e[i].name] ELSE Arith(e[i].op, val[e[i].a], val[e[i].b])

LEMMA ArithInt ==
    ASSUME NEW op \in Ops, NEW x \in Int, NEW y \in Int
    PROVE  Arith(op, x, y) \in Int
BY DEF Arith, Ops

LEMMA ValuesIs ==
    ASSUME NEW e, IsTree(e), NEW v,
           \A i \in 1 .. Len(e) : e[i].kind # "op" => v[e[i].name] \in Int
    PROVE  /\ Values(e, v) \in [1 .. Len(e) -> Int]
           /\ \A i \in 1 .. Len(e) : Values(e, v)[i] = ValueBody(e, v, Values(e, v), i)
<1> DEFINE n == Len(e)
           body == [p \in (1 .. n) \X [1 .. n -> Int] |-> ValueBody(e, v, p[2], p[1])]
<1>1. n \in Nat /\ DOMAIN e = 1 .. n  BY Shape
<1>2. ASSUME NEW i \in 1 .. n, NEW f, \A k \in 1 .. i - 1 : f[k] \in Int
      PROVE  ValueBody(e, v, f, i) \in Int
  <2>1. CASE Leaf(e, i)
    <3>1. e[i].kind # "op"  BY <2>1 DEF Leaf
    <3>2. v[e[i].name] \in Int  BY <3>1
    <3>3. ValueBody(e, v, f, i) = v[e[i].name]  BY <2>1 DEF ValueBody
    <3> QED  BY <3>2, <3>3
  <2>2. CASE ~Leaf(e, i)
    <3>1. e[i].kind = "op"  BY <2>2 DEF Leaf
    <3>2. e[i].op \in Ops /\ e[i].a \in 1 .. i - 1 /\ e[i].b \in 1 .. i - 1  BY <3>1, Shape
    <3>3. f[e[i].a] \in Int /\ f[e[i].b] \in Int  BY <1>2, <3>2
    <3>4. Arith(e[i].op, f[e[i].a], f[e[i].b]) \in Int  BY <3>2, <3>3, ArithInt
    <3> QED  BY <2>2, <3>4 DEF ValueBody
  <2> QED  BY <2>1, <2>2
<1>3. body \in [(1 .. n) \X [1 .. n -> Int] -> Int]
  <2>1. ASSUME NEW i \in 1 .. n, NEW f \in [1 .. n -> Int] PROVE ValueBody(e, v, f, i) \in Int
    <3> HIDE DEF n
    <3>1. \A k \in 1 .. i - 1 : f[k] \in Int  BY <1>1
    <3> QED  BY <1>2, <3>1
  <2> HIDE DEF n
  <2> QED  BY <2>1
<1>4. ASSUME NEW i \in 1 .. n, NEW f \in [1 .. n -> Int], NEW g \in [1 .. n -> Int],
             \A k \in 1 .. i - 1 : f[k] = g[k]
      PROVE  body[<<i, f>>] = body[<<i, g>>]
  <2>1. ValueBody(e, v, f, i) = ValueBody(e, v, g, i)
    <3>1. CASE Leaf(e, i)  BY <3>1 DEF ValueBody
    <3>2. CASE ~Leaf(e, i)
      <4>1. e[i].kind = "op"  BY <3>2 DEF Leaf
      <4>2. e[i].a \in 1 .. i - 1 /\ e[i].b \in 1 .. i - 1  BY <4>1, Shape
      <4>3. f[e[i].a] = g[e[i].a] /\ f[e[i].b] = g[e[i].b]  BY <1>4, <4>2
      <4> QED  BY <4>3 DEF ValueBody
    <3> QED  BY <3>1, <3>2
  <2>2. body[<<i, f>>] = ValueBody(e, v, f, i) /\ body[<<i, g>>] = ValueBody(e, v, g, i)
    <3> HIDE DEF n
    <3> QED  OBVIOUS
  <2> HIDE DEF body
  <2> QED  BY <2>1, <2>2
<1>5. PICK f \in [1 .. n -> Int] : \A i \in 1 .. n : f[i] = body[<<i, f>>]
  <2> HIDE DEF n, body
  <2>1. Local(n, Int, body)  BY <1>3, <1>4 DEF Local
  <2>2. PICK f : Solves(n, Int, body, f)  BY <1>1, <2>1, Recursion
  <2> QED  BY <2>2 DEF Solves
<1>6. f = [i \in DOMAIN e |-> ValueBody(e, v, f, i)]
  <2> HIDE DEF n
  <2> QED  BY <1>1, <1>5
<1> DEFINE val == Values(e, v)
<1>7. val = [i \in DOMAIN e |-> ValueBody(e, v, val, i)]
  BY <1>6 DEF Values, ValueBody
<1> DEFINE S == {i \in 1 .. n : val[i] \in Int}
<1>8. \A i \in 1 .. n : val[i] = ValueBody(e, v, val, i)
  <2> HIDE DEF n
  <2> QED  BY <1>1, <1>7
<1>9. \A i \in 1 .. n : i \in S
  <2>1. ASSUME NEW i \in 1 .. n, \A k \in 1 .. i - 1 : k \in S PROVE i \in S
    <3>1. \A k \in 1 .. i - 1 : val[k] \in Int  BY <2>1
    <3>2. ValueBody(e, v, val, i) \in Int
      <4> HIDE DEF val
      <4> QED  BY <1>2, <3>1
    <3> QED  BY <1>8, <3>2
  <2> HIDE DEF S, n
  <2> QED  BY <1>1, <2>1, EachFromEarlier
<1>10. \A i \in 1 .. n : val[i] \in Int  BY <1>9
<1>11. val \in [1 .. n -> Int]
  <2>1. val = [i \in 1 .. n |-> ValueBody(e, v, val, i)]  BY <1>1, <1>7
  <2> HIDE DEF n, val
  <2>2. DOMAIN val = 1 .. n /\ val = [i \in 1 .. n |-> val[i]]  BY <2>1
  <2> QED  BY <1>10, <2>2
<1> QED  BY <1>8, <1>11

AdditiveBody(e, additive, i) ==
    \/ Simple(e, i)
    \/ e[i].op \in {"add", "sub"} /\ additive[e[i].a] /\ Simple(e, e[i].b)
    \/ e[i].op = "add" /\ additive[e[i].a] /\ additive[e[i].b]

LinearBody(e, linear, i) ==
    \/ Simple(e, i)
    \/ Simple(e, e[i].b) /\ linear[e[i].a]
    \/ Simple(e, e[i].a) /\ linear[e[i].b] /\ e[i].op # "sub"
    \/ e[i].op = "add" /\ linear[e[i].a] /\ Additive(e)[e[i].b]

LEMMA AdditiveIs ==
    ASSUME NEW e, IsTree(e)
    PROVE  /\ Additive(e) \in [1 .. Len(e) -> BOOLEAN]
           /\ \A i \in 1 .. Len(e) : Additive(e)[i] = AdditiveBody(e, Additive(e), i)
<1> DEFINE n == Len(e)
           body == [p \in (1 .. n) \X [1 .. n -> BOOLEAN] |-> AdditiveBody(e, p[2], p[1])]
<1>1. n \in Nat /\ DOMAIN e = 1 .. n  BY Shape
<1>2. \A i, f : AdditiveBody(e, f, i) \in BOOLEAN  BY DEF AdditiveBody
<1>3. body \in [(1 .. n) \X [1 .. n -> BOOLEAN] -> BOOLEAN]
  <2> HIDE DEF n
  <2> QED  BY <1>2
<1>4. ASSUME NEW i \in 1 .. n, NEW f \in [1 .. n -> BOOLEAN], NEW g \in [1 .. n -> BOOLEAN],
             \A k \in 1 .. i - 1 : f[k] = g[k]
      PROVE  body[<<i, f>>] = body[<<i, g>>]
  <2>1. AdditiveBody(e, f, i) = AdditiveBody(e, g, i)
    <3>1. CASE Simple(e, i)  BY <3>1 DEF AdditiveBody
    <3>2. CASE ~Simple(e, i)
      <4>1. e[i].kind = "op"  BY <3>2 DEF Simple, Leaf
      <4>2. e[i].a \in 1 .. i - 1 /\ e[i].b \in 1 .. i - 1  BY <4>1, Shape
      <4>3. f[e[i].a] = g[e[i].a] /\ f[e[i].b] = g[e[i].b]  BY <1>4, <4>2
      <4> QED  BY <4>3 DEF AdditiveBody
    <3> QED  BY <3>1, <3>2
  <2>2. body[<<i, f>>] = AdditiveBody(e, f, i) /\ body[<<i, g>>] = AdditiveBody(e, g, i)
    <3> HIDE DEF n
    <3> QED  OBVIOUS
  <2> HIDE DEF body
  <2> QED  BY <2>1, <2>2
<1>5. PICK f \in [1 .. n -> BOOLEAN] : \A i \in 1 .. n : f[i] = body[<<i, f>>]
  <2> HIDE DEF n, body
  <2>1. Local(n, BOOLEAN, body)  BY <1>3, <1>4 DEF Local
  <2>2. TRUE \in BOOLEAN  OBVIOUS
  <2>3. PICK f : Solves(n, BOOLEAN, body, f)  BY <1>1, <2>1, <2>2, Recursion
  <2> QED  BY <2>3 DEF Solves
<1>6. f = [i \in DOMAIN e |-> AdditiveBody(e, f, i)]
  <2> HIDE DEF n
  <2> QED  BY <1>1, <1>5
<1>7. Additive(e) = [i \in DOMAIN e |-> AdditiveBody(e, Additive(e), i)]
  BY <1>6 DEF Additive, AdditiveBody
<1> HIDE DEF n
<1> QED  BY <1>1, <1>2, <1>7 DEF n

LEMMA LinearIs ==
    ASSUME NEW e, IsTree(e)
    PROVE  /\ Linear(e) \in [1 .. Len(e) -> BOOLEAN]
           /\ \A i \in 1 .. Len(e) : Linear(e)[i] = LinearBody(e, Linear(e), i)
<1> DEFINE n == Len(e)
           body == [p \in (1 .. n) \X [1 .. n -> BOOLEAN] |-> LinearBody(e, p[2], p[1])]
<1>1. n \in Nat /\ DOMAIN e = 1 .. n  BY Shape
<1>2. \A i, f : LinearBody(e, f, i) \in BOOLEAN  BY DEF LinearBody
<1>3. body \in [(1 .. n) \X [1 .. n -> BOOLEAN] -> BOOLEAN]
  <2> HIDE DEF n
  <2> QED  BY <1>2
<1>4. ASSUME NEW i \in 1 .. n, NEW f \in [1 .. n -> BOOLEAN], NEW g \in [1 .. n -> BOOLEAN],
             \A k \in 1 .. i - 1 : f[k] = g[k]
      PROVE  body[<<i, f>>] = body[<<i, g>>]
  <2>1. LinearBody(e, f, i) = LinearBody(e, g, i)
    <3>1. CASE Simple(e, i)  BY <3>1 DEF LinearBody
    <3>2. CASE ~Simple(e, i)
      <4>1. e[i].kind = "op"  BY <3>2 DEF Simple, Leaf
      <4>2. e[i].a \in 1 .. i - 1 /\ e[i].b \in 1 .. i - 1  BY <4>1, Shape
      <4>3. f[e[i].a] = g[e[i].a] /\ f[e[i].b] = g[e[i].b]  BY <1>4, <4>2
      <4> QED  BY <4>3 DEF LinearBody
    <3> QED  BY <3>1, <3>2
  <2>2. body[<<i, f>>] = LinearBody(e, f, i) /\ body[<<i, g>>] = LinearBody(e, g, i)
    <3> HIDE DEF n
    <3> QED  OBVIOUS
  <2> HIDE DEF body
  <2> QED  BY <2>1, <2>2
<1>5. PICK f \in [1 .. n -> BOOLEAN] : \A i \in 1 .. n : f[i] = body[<<i, f>>]
  <2> HIDE DEF n, body
  <2>1. Local(n, BOOLEAN, body)  BY <1>3, <1>4 DEF Local
  <2>2. TRUE \in BOOLEAN  OBVIOUS
  <2>3. PICK f : Solves(n, BOOLEAN, body, f)  BY <1>1, <2>1, <2>2, Recursion
  <2> QED  BY <2>3 DEF Solves
<1>6. f = [i \in DOMAIN e |-> LinearBody(e, f, i)]
  <2> HIDE DEF n
  <2> QED  BY <1>1, <1>5
<1>7. Linear(e) = [i \in DOMAIN e |-> LinearBody(e, Linear(e), i)]
  BY <1>6 DEF Linear, LinearBody
<1> HIDE DEF n
<1> QED  BY <1>1, <1>2, <1>7 DEF n

-----------------------------------------------------------------------------
(* The steps of a node name what the steps of its operands name.           *)

StepNames(st) == {st.leaf} \cup ({st.scalar} \ {None})

NamesOf(s) == UNION {StepNames(s[j]) : j \in 1 .. Len(s)}

LEMMA NamesOne ==
    ASSUME NEW st
    PROVE  NamesOf(<<st>>) = StepNames(st)
BY DEF NamesOf

LEMMA NamesConcat ==
    ASSUME NEW T, NEW s \in Seq(T), NEW t \in Seq(T)
    PROVE  NamesOf(s) \subseteq NamesOf(s \o t) /\ NamesOf(t) \subseteq NamesOf(s \o t)
<1>1. /\ Len(s) \in Nat /\ Len(t) \in Nat /\ Len(s \o t) = Len(s) + Len(t)
      /\ \A j \in 1 .. Len(s) : (s \o t)[j] = s[j]
      /\ \A j \in 1 .. Len(t) : (s \o t)[j + Len(s)] = t[j]
  OBVIOUS
<1>2. \A j \in 1 .. Len(s) : j \in 1 .. Len(s \o t)  BY <1>1
<1>3. \A j \in 1 .. Len(t) : j + Len(s) \in 1 .. Len(s \o t)  BY <1>1
<1> DEFINE u == s \o t
<1> HIDE DEF u
<1>4. ASSUME NEW j \in 1 .. Len(s) PROVE StepNames(s[j]) \subseteq NamesOf(u)
  <2>1. j \in 1 .. Len(u) /\ u[j] = s[j]  BY <1>1, <1>2 DEF u
  <2> QED  BY <2>1 DEF NamesOf
<1>5. ASSUME NEW j \in 1 .. Len(t) PROVE StepNames(t[j]) \subseteq NamesOf(u)
  <2>1. j + Len(s) \in 1 .. Len(u) /\ u[j + Len(s)] = t[j]  BY <1>1, <1>3 DEF u
  <2> QED  BY <2>1 DEF NamesOf
<1>6. NamesOf(s) \subseteq NamesOf(u)  BY <1>4 DEF NamesOf
<1>7. NamesOf(t) \subseteq NamesOf(u)  BY <1>5 DEF NamesOf
<1> QED  BY <1>6, <1>7 DEF u

LEMMA NamesJoined ==
    ASSUME NEW e, NEW s \in Block(e), NEW op \in Ops
    PROVE  NamesOf(Joined(s, op)) = NamesOf(s)
<1> DEFINE t == Joined(s, op)
<1>1. Len(t) = Len(s)  BY JoinedSteps
<1>2. StepNames(t[1]) = StepNames(s[1])  BY JoinedFirst DEF StepNames
<1>3. \A j \in 2 .. Len(s) : t[j] = s[j]  BY JoinedRest
<1>4. \A j \in 1 .. Len(s) : j = 1 \/ j \in 2 .. Len(s)  BY DEF Block
<1> HIDE DEF t
<1>5. \A j \in 1 .. Len(s) : StepNames(t[j]) = StepNames(s[j])  BY <1>2, <1>3, <1>4
<1>6. NamesOf(t) = NamesOf(s)  BY <1>1, <1>5 DEF NamesOf
<1> QED  BY <1>6 DEF t

LEMMA MakeStepNames ==
    ASSUME NEW e, NEW i, NEW init, NEW op
    PROVE  StepNames(MakeStep(e, i, init, op)) = StepNames(MakeStep(e, i, TRUE, "add"))
BY DEF StepNames, MakeStep

LEMMA SimpleNames ==
    ASSUME NEW e, IsTree(e), NEW i \in 1 .. Len(e), Simple(e, i)
    PROVE  NamesOf(Code(e)[i]) = StepNames(MakeStep(e, i, TRUE, "add"))
<1>1. Code(e)[i] = <<MakeStep(e, i, TRUE, "add")>>  BY CodeIs DEF CodeBody
<1> QED  BY <1>1, NamesOne

LEMMA OperandNames ==
    ASSUME NEW e, IsTree(e), NEW i \in 1 .. Len(e), e[i].kind = "op"
    PROVE  /\ NamesOf(Code(e)[e[i].a]) \subseteq NamesOf(Code(e)[i])
           /\ NamesOf(Code(e)[e[i].b]) \subseteq NamesOf(Code(e)[i])
<1> DEFINE a == e[i].a
           b == e[i].b
           op == e[i].op
           code == Code(e)
<1>1. a \in 1 .. Len(e) /\ b \in 1 .. Len(e) /\ op \in Ops  BY Shape
<1>2. CASE Simple(e, i)
  <2>1. FusedMul(e, i) /\ ~Leaf(e, i)  BY <1>2 DEF Simple, Leaf
  <2>2. Leaf(e, a) /\ Leaf(e, b) /\ Simple(e, a) /\ Simple(e, b)  BY <2>1 DEF FusedMul, Simple
  <2>3. /\ NamesOf(code[a]) = StepNames(MakeStep(e, a, TRUE, "add"))
        /\ NamesOf(code[b]) = StepNames(MakeStep(e, b, TRUE, "add"))
        /\ NamesOf(code[i]) = StepNames(MakeStep(e, i, TRUE, "add"))
    BY <1>1, <1>2, <2>2, SimpleNames
  <2>4. /\ MakeStep(e, a, TRUE, "add").leaf = e[a].name
        /\ MakeStep(e, a, TRUE, "add").scalar = None
        /\ MakeStep(e, b, TRUE, "add").leaf = e[b].name
        /\ MakeStep(e, b, TRUE, "add").scalar = None
    BY <2>2 DEF MakeStep
  <2>5. StepNames(MakeStep(e, a, TRUE, "add")) = {e[a].name}
        /\ StepNames(MakeStep(e, b, TRUE, "add")) = {e[b].name}
    BY <2>4 DEF StepNames
  <2>6. e[a].name # None /\ e[b].name # None  BY <1>1, <2>2, Shape DEF Leaf
  <2>7. \/ /\ MakeStep(e, i, TRUE, "add").leaf = e[a].name
           /\ MakeStep(e, i, TRUE, "add").scalar = e[b].name
        \/ /\ MakeStep(e, i, TRUE, "add").leaf = e[b].name
           /\ MakeStep(e, i, TRUE, "add").scalar = e[a].name
    BY <2>1 DEF MakeStep
  <2>8. {e[a].name, e[b].name} \subseteq StepNames(MakeStep(e, i, TRUE, "add"))
    BY <2>6, <2>7 DEF StepNames
  <2> QED  BY <2>3, <2>5, <2>8
<1>3. CASE ~Simple(e, i)
  <2>1. code[i] = IF Simple(e, b) THEN code[a] \o <<MakeStep(e, b, FALSE, op)>>
                  ELSE IF Simple(e, a) THEN code[b] \o <<MakeStep(e, a, FALSE, op)>>
                  ELSE code[a] \o Joined(code[b], op)
    BY <1>3, CodeIs DEF CodeBody
  <2>2. code[a] \in Block(e) /\ code[b] \in Block(e)
    <3>1. code \in [1 .. Len(e) -> Block(e)]  BY CodeIs
    <3> QED  BY <1>1, <3>1
  <2> HIDE DEF a, b, op, code
  <2>3. ASSUME NEW s \in Block(e), NEW k \in 1 .. Len(e), Simple(e, k)
        PROVE  /\ NamesOf(s) \subseteq NamesOf(s \o <<MakeStep(e, k, FALSE, op)>>)
               /\ NamesOf(code[k]) \subseteq NamesOf(s \o <<MakeStep(e, k, FALSE, op)>>)
    <3> DEFINE st == MakeStep(e, k, FALSE, op)
    <3>1. s \in Seq(StepOf(e))  BY DEF Block
    <3>2. st \in StepOf(e)  BY <1>1, <2>3, MakeStepOK
    <3>3. StepNames(st) = NamesOf(code[k])
      BY <2>3, MakeStepNames, SimpleNames DEF code
    <3> HIDE DEF st
    <3>4. <<st>> \in Seq(StepOf(e))  BY <3>2
    <3>5. NamesOf(s) \subseteq NamesOf(s \o <<st>>) /\ NamesOf(<<st>>) \subseteq NamesOf(s \o <<st>>)
      BY <3>1, <3>4, NamesConcat
    <3>6. NamesOf(<<st>>) = NamesOf(code[k])  BY <3>3, NamesOne
    <3> QED  BY <3>5, <3>6 DEF st
  <2>4. CASE Simple(e, b)
    <3>1. code[i] = code[a] \o <<MakeStep(e, b, FALSE, op)>>  BY <2>1, <2>4
    <3>2. NamesOf(code[a]) \subseteq NamesOf(code[i]) /\ NamesOf(code[b]) \subseteq NamesOf(code[i])
      BY <1>1, <2>2, <2>3, <2>4, <3>1
    <3> QED  BY <3>2 DEF a, b, code
  <2>5. CASE ~Simple(e, b) /\ Simple(e, a)
    <3>1. code[i] = code[b] \o <<MakeStep(e, a, FALSE, op)>>  BY <2>1, <2>5
    <3>2. NamesOf(code[a]) \subseteq NamesOf(code[i]) /\ NamesOf(code[b]) \subseteq NamesOf(code[i])
      BY <1>1, <2>2, <2>3, <2>5, <3>1
    <3> QED  BY <3>2 DEF a, b, code
  <2>6. CASE ~Simple(e, b) /\ ~Simple(e, a)
    <3>1. code[i] = code[a] \o Joined(code[b], op)  BY <2>1, <2>6
    <3>2. code[a] \in Seq(StepOf(e))  BY <2>2 DEF Block
    <3>3. Joined(code[b], op) \in Seq(StepOf(e))  BY <1>1, <2>2, JoinedSteps
    <3>4. NamesOf(Joined(code[b], op)) = NamesOf(code[b])  BY <1>1, <2>2, NamesJoined
    <3>5. NamesOf(code[a]) \subseteq NamesOf(code[i]) /\ NamesOf(code[b]) \subseteq NamesOf(code[i])
      BY <3>1, <3>2, <3>3, <3>4, NamesConcat
    <3> QED  BY <3>5 DEF a, b, code
  <2> QED  BY <2>4, <2>5, <2>6
<1> QED  BY <1>2, <1>3

LEMMA FlattenBlock ==
    ASSUME NEW e, IsTree(e)
    PROVE  Flatten(e) \in Block(e)
<1>1. Len(e) \in 1 .. Len(e)  BY Shape
<1>2. Code(e) \in [1 .. Len(e) -> Block(e)]  BY CodeIs
<1> QED  BY <1>1, <1>2 DEF Flatten

\* From the root down, every node's names are among those of the whole.
LEMMA NamesOfNode ==
    ASSUME NEW e, IsTree(e)
    PROVE  \A i \in 1 .. Len(e) : NamesOf(Code(e)[i]) \subseteq NamesOf(Flatten(e))
<1> DEFINE n == Len(e)
           Named(i) == NamesOf(Code(e)[i]) \subseteq NamesOf(Flatten(e))
           S == {m \in 1 .. n : Named(n + 1 - m)}
<1>1. n \in Nat /\ n > 0 /\ DOMAIN e = 1 .. n  BY Shape
<1>2. ASSUME NEW i \in 1 .. n, \A k \in i + 1 .. n : Named(k) PROVE Named(i)
  <2>1. CASE i = n  BY <2>1 DEF Flatten
  <2>2. CASE i # n
    <3>1. i \in 1 .. n - 1
      <4> HIDE DEF n
      <4> QED  BY <1>1, <2>2
    <3>2. PICK j \in i + 1 .. n : e[j].kind = "op" /\ i \in {e[j].a, e[j].b}
      BY <3>1 DEF IsTree
    <3>3. j \in 1 .. n  BY <1>1, <3>2
    <3>4. NamesOf(Code(e)[i]) \subseteq NamesOf(Code(e)[j])  BY <3>2, <3>3, OperandNames
    <3>5. Named(j)  BY <1>2
    <3> QED  BY <3>4, <3>5
  <2> QED  BY <2>1, <2>2
<1>3. \A m \in 1 .. n : m \in S
  <2>1. ASSUME NEW m \in 1 .. n, \A k \in 1 .. m - 1 : k \in S PROVE m \in S
    <3>1. ASSUME NEW k \in n + 1 - m + 1 .. n PROVE Named(k)
      <4>1. n + 1 - k \in 1 .. m - 1 /\ n + 1 - (n + 1 - k) = k  BY <1>1
      <4>2. Named(n + 1 - (n + 1 - k))  BY <2>1, <4>1
      <4> HIDE DEF Named
      <4> QED  BY <4>1, <4>2
    <3>2. n + 1 - m \in 1 .. n  BY <1>1
    <3> HIDE DEF Named, n
    <3>3. Named(n + 1 - m)  BY <1>2, <3>1, <3>2
    <3> QED  BY <3>3
  <2> HIDE DEF S, n
  <2> QED  BY <1>1, <2>1, EachFromEarlier
<1>4. ASSUME NEW i \in 1 .. n PROVE Named(i)
  <2>1. n + 1 - i \in 1 .. n /\ n + 1 - (n + 1 - i) = i  BY <1>1
  <2>2. Named(n + 1 - (n + 1 - i))  BY <1>3, <2>1
  <2> HIDE DEF Named
  <2> QED  BY <2>1, <2>2
<1> QED  BY <1>4

LEMMA FlattenNames ==
    ASSUME NEW e, IsTree(e)
    PROVE  NamesOf(Flatten(e)) = LeafNames(e)
<1> DEFINE s == Flatten(e)
<1>1. s \in Seq(StepOf(e))  BY FlattenBlock DEF Block
<1>2. NamesOf(s) \subseteq LeafNames(e)
  <2> HIDE DEF s
  <2>1. ASSUME NEW j \in 1 .. Len(s) PROVE StepNames(s[j]) \subseteq LeafNames(e)
    <3>1. s[j] \in StepOf(e)  BY <1>1
    <3> QED  BY <3>1, ScalarNamesLeaf DEF StepNames, StepOf
  <2> QED  BY <2>1 DEF NamesOf
<1>3. LeafNames(e) \subseteq NamesOf(s)
  <2>1. ASSUME NEW i \in 1 .. Len(e), Leaf(e, i) PROVE e[i].name \in NamesOf(s)
    <3>1. Simple(e, i)  BY <2>1 DEF Simple
    <3>2. e[i].name \in StepNames(MakeStep(e, i, TRUE, "add"))
      BY <2>1 DEF MakeStep, StepNames
    <3>3. NamesOf(Code(e)[i]) = StepNames(MakeStep(e, i, TRUE, "add"))  BY <3>1, SimpleNames
    <3>4. NamesOf(Code(e)[i]) \subseteq NamesOf(s)  BY NamesOfNode
    <3> QED  BY <3>2, <3>3, <3>4
  <2>2. DOMAIN e = 1 .. Len(e)  BY Shape
  <2> HIDE DEF s
  <2> QED  BY <2>1, <2>2 DEF LeafNames
<1> QED  BY <1>2, <1>3

\* Where names tell scalars from tensors, some step reads a tensor.
LEMMA TensorStep ==
    ASSUME NEW e, IsTree(e), HasTensor(e),
           \A i, j \in DOMAIN e : Leaf(e, i) /\ Leaf(e, j) /\ e[i].name = e[j].name
                                  => e[i].kind = e[j].kind
    PROVE  \E j \in 1 .. Len(Flatten(e)), i \in DOMAIN e :
             e[i].kind = "tensor" /\ Flatten(e)[j].leaf = e[i].name
<1> DEFINE s == Flatten(e)
<1>1. s \in Seq(StepOf(e)) /\ NamesOf(s) = LeafNames(e)  BY FlattenBlock, FlattenNames DEF Block
<1>2. PICK i \in DOMAIN e : e[i].kind = "tensor"  BY DEF HasTensor
<1>3. Leaf(e, i) /\ e[i].name \in LeafNames(e)  BY <1>2 DEF Leaf, LeafNames
<1> HIDE DEF s
<1>4. PICK j \in 1 .. Len(s) : e[i].name \in StepNames(s[j])  BY <1>1, <1>3 DEF NamesOf
<1>5. s[j] \in StepOf(e)  BY <1>1
<1>6. s[j].scalar \in ScalarNames(e) \cup {None}  BY <1>5 DEF StepOf
<1>7. ~(e[i].name \in ScalarNames(e))
  BY <1>2, <1>3 DEF ScalarNames, Scalar, Leaf
<1>8. e[i].name = s[j].leaf  BY <1>4, <1>6, <1>7 DEF StepNames
<1> QED  BY <1>2, <1>8 DEF s

-----------------------------------------------------------------------------
(* Running steps: from x in the accumulator to y, under the assignment v.  *)

After(st, v, x) ==
    IF st.init THEN OperandIn(v, st) ELSE Arith(st.op, x, OperandIn(v, st))

Computes(s, v, x, y) ==
    \E f \in [0 .. Len(s) -> Int] :
      /\ f[0] = x /\ f[Len(s)] = y
      /\ \A j \in 1 .. Len(s) : f[j] = After(s[j], v, f[j - 1])

LEMMA ComputesOne ==
    ASSUME NEW st, NEW v, NEW x, NEW y, Computes(<<st>>, v, x, y)
    PROVE  y = After(st, v, x)
<1> DEFINE s == <<st>>
<1>1. Len(s) = 1 /\ s[1] = st  OBVIOUS
<1> HIDE DEF s
<1>2. PICK f \in [0 .. Len(s) -> Int] :
        /\ f[0] = x /\ f[Len(s)] = y
        /\ \A j \in 1 .. Len(s) : f[j] = After(s[j], v, f[j - 1])
  BY DEF Computes, s
<1>3. f[1] = After(s[1], v, f[1 - 1])  BY <1>1, <1>2
<1> QED  BY <1>1, <1>2, <1>3

LEMMA ComputesConcat ==
    ASSUME NEW T, NEW s \in Seq(T), NEW t \in Seq(T), NEW v, NEW x, NEW y,
           Computes(s \o t, v, x, y)
    PROVE  \E z \in Int : Computes(s, v, x, z) /\ Computes(t, v, z, y)
<1> DEFINE u == s \o t
           m == Len(s)
           n == Len(t)
<1>1. /\ m \in Nat /\ n \in Nat /\ Len(u) = m + n
      /\ \A j \in 1 .. m : u[j] = s[j]
      /\ \A j \in 1 .. n : u[m + j] = t[j]
  OBVIOUS
<1>2. PICK f \in [0 .. Len(u) -> Int] :
        /\ f[0] = x /\ f[Len(u)] = y
        /\ \A j \in 1 .. Len(u) : f[j] = After(u[j], v, f[j - 1])
  BY DEF Computes
<1> HIDE DEF u, m, n
<1> DEFINE g == [j \in 0 .. m |-> f[j]]
           h == [j \in 0 .. n |-> f[m + j]]
<1>3. \A j \in 0 .. m : j \in 0 .. Len(u)  BY <1>1
<1>4. \A j \in 0 .. n : m + j \in 0 .. Len(u)  BY <1>1
<1>5. Computes(s, v, x, f[m])
  <2>1. g \in [0 .. m -> Int]  BY <1>3
  <2>2. g[0] = x /\ g[m] = f[m]  BY <1>1, <1>2
  <2>3. ASSUME NEW j \in 1 .. m PROVE g[j] = After(s[j], v, g[j - 1])
    <3>1. j \in 1 .. Len(u) /\ j \in 0 .. m /\ j - 1 \in 0 .. m  BY <1>1
    <3>2. g[j] = f[j] /\ g[j - 1] = f[j - 1] /\ u[j] = s[j]  BY <1>1, <3>1
    <3>3. f[j] = After(u[j], v, f[j - 1])  BY <1>2, <3>1
    <3> QED  BY <3>2, <3>3
  <2> HIDE DEF g
  <2> QED  BY <2>1, <2>2, <2>3 DEF Computes, m
<1>6. Computes(t, v, f[m], y)
  <2>1. h \in [0 .. n -> Int]  BY <1>4
  <2>2. h[0] = f[m] /\ h[n] = y
    <3>1. 0 \in 0 .. n /\ n \in 0 .. n /\ m + 0 = m  BY <1>1
    <3> QED  BY <1>1, <1>2, <3>1
  <2>3. ASSUME NEW j \in 1 .. n PROVE h[j] = After(t[j], v, h[j - 1])
    <3>1. m + j \in 1 .. Len(u) /\ j \in 0 .. n /\ j - 1 \in 0 .. n /\ m + (j - 1) = m + j - 1
      BY <1>1
    <3>2. h[j] = f[m + j] /\ h[j - 1] = f[m + j - 1] /\ u[m + j] = t[j]  BY <1>1, <3>1
    <3>3. f[m + j] = After(u[m + j], v, f[m + j - 1])
      <4> DEFINE k == m + j
      <4>1. k \in 1 .. Len(u)  BY <3>1
      <4> HIDE DEF k
      <4>2. f[k] = After(u[k], v, f[k - 1])  BY <1>2, <4>1
      <4> QED  BY <4>2 DEF k
    <3> QED  BY <3>2, <3>3
  <2> HIDE DEF h
  <2> QED  BY <2>1, <2>2, <2>3 DEF Computes, n
<1>7. m \in 0 .. Len(u)  BY <1>1
<1>8. f[m] \in Int  BY <1>7
<1> QED  BY <1>5, <1>6, <1>8

-----------------------------------------------------------------------------
(* What the steps of a node compute.                                       *)

Numbers(e, v) == \A i \in 1 .. Len(e) : e[i].kind # "op" => v[e[i].name] \in Int

LEMMA MakeStepOperand ==
    ASSUME NEW e, IsTree(e), NEW v, Numbers(e, v), NEW i \in 1 .. Len(e), Simple(e, i),
           NEW init, NEW op
    PROVE  OperandIn(v, MakeStep(e, i, init, op)) = Values(e, v)[i]
<1> DEFINE st == MakeStep(e, i, init, op)
           val == Values(e, v)
<1>1. \A k \in 1 .. Len(e) : Leaf(e, k) => val[k] = v[e[k].name] /\ v[e[k].name] \in Int
  BY ValuesIs DEF ValueBody, Numbers, Leaf
<1>2. CASE Leaf(e, i)
  <2>1. st.leaf = e[i].name /\ st.scalar = None  BY <1>2 DEF MakeStep
  <2> HIDE DEF st
  <2> QED  BY <1>1, <1>2, <2>1 DEF OperandIn, st
<1>3. CASE ~Leaf(e, i)
  <2> DEFINE a == e[i].a
             b == e[i].b
             p == e[a].name
             q == e[b].name
  <2>1. FusedMul(e, i) /\ e[i].kind = "op" /\ e[i].op = "mul" /\ Leaf(e, a) /\ Leaf(e, b)
    BY <1>3 DEF Simple, FusedMul
  <2>2. a \in 1 .. Len(e) /\ b \in 1 .. Len(e)  BY <2>1, Shape
  <2>3. val[a] = v[p] /\ val[b] = v[q] /\ v[p] \in Int /\ v[q] \in Int  BY <1>1, <2>1, <2>2
  <2>4. p # None /\ q # None  BY <2>1, <2>2, Shape DEF Leaf
  <2>5. val[i] = Arith("mul", val[a], val[b])
    <3>1. val[i] = ValueBody(e, v, val, i)  BY ValuesIs DEF Numbers
    <3> QED  BY <1>3, <2>1, <3>1 DEF ValueBody
  <2>6. (st.leaf = p /\ st.scalar = q) \/ (st.leaf = q /\ st.scalar = p)
    <3>1. st = [leaf |-> IF Scalar(e, a) THEN q ELSE p, scalar |-> IF Scalar(e, a) THEN p ELSE q,
                init |-> init, op |-> op]
      BY <1>3 DEF MakeStep
    <3> HIDE DEF st, a, b, p, q
    <3> QED  BY <3>1
  <2> HIDE DEF st, val, a, b, p, q
  <2>7. val[i] = v[p] * v[q]  BY <2>3, <2>5 DEF Arith
  <2>8. OperandIn(v, st) = v[st.leaf] * v[st.scalar]  BY <2>4, <2>6 DEF OperandIn
  <2>9. v[p] * v[q] = v[q] * v[p]  BY <2>3
  <2>10. OperandIn(v, st) = v[p] * v[q]
    <3>1. CASE st.leaf = p /\ st.scalar = q  BY <2>8, <3>1
    <3>2. CASE st.leaf = q /\ st.scalar = p  BY <2>8, <2>9, <3>2
    <3> QED  BY <2>6, <3>1, <3>2
  <2> QED  BY <2>7, <2>10 DEF st, val
<1> QED  BY <1>2, <1>3

LEMMA AfterSet ==
    ASSUME NEW e, IsTree(e), NEW v, Numbers(e, v), NEW i \in 1 .. Len(e), Simple(e, i), NEW x
    PROVE  After(MakeStep(e, i, TRUE, "add"), v, x) = Values(e, v)[i]
<1>1. MakeStep(e, i, TRUE, "add").init = TRUE  BY MakeStepOK DEF Ops
<1> QED  BY <1>1, MakeStepOperand DEF After

LEMMA AfterApplied ==
    ASSUME NEW e, IsTree(e), NEW v, Numbers(e, v), NEW i \in 1 .. Len(e), Simple(e, i),
           NEW op \in Ops, NEW x
    PROVE  After(MakeStep(e, i, FALSE, op), v, x) = Arith(op, x, Values(e, v)[i])
<1>1. MakeStep(e, i, FALSE, op).init = FALSE /\ MakeStep(e, i, FALSE, op).op = op
  BY MakeStepOK
<1> QED  BY <1>1, MakeStepOperand DEF After

LEMMA JoinedConcat ==
    ASSUME NEW e, NEW s \in Block(e), NEW t \in Seq(StepOf(e)),
           \A j \in 1 .. Len(t) : t[j].init = FALSE, NEW op \in Ops
    PROVE  Joined(s \o t, op) = Joined(s, op) \o t
<1> DEFINE u == s \o t
           st == Rejoined(s[1], op)
<1>1. s \in Seq(StepOf(e)) /\ Len(s) \in Nat /\ Len(s) > 0  BY DEF Block
<1>2. u \in Block(e)  BY BlockMore
<1>3. u[1] = s[1]  BY <1>1
<1>4. Joined(u, op) = [u EXCEPT ![1] = Rejoined(u[1], op)]  BY <1>2, JoinedAsExcept
<1>5. Joined(s, op) = [s EXCEPT ![1] = st] /\ st \in StepOf(e)  BY JoinedAsExcept
<1>6. Joined(u, op) = [u EXCEPT ![1] = st]  BY <1>3, <1>4
<1> HIDE DEF st
<1>7. [u EXCEPT ![1] = st] = [s EXCEPT ![1] = st] \o t
  <2>1. /\ u \in Seq(StepOf(e)) /\ Len(u) = Len(s) + Len(t) /\ Len(t) \in Nat
        /\ \A j \in 1 .. Len(s) : u[j] = s[j]
        /\ \A j \in 1 .. Len(u) : j > Len(s) => u[j] = t[j - Len(s)]
    BY <1>1
  <2> DEFINE l == [s EXCEPT ![1] = st]
             r == [u EXCEPT ![1] = st]
  <2>2. l \in Seq(StepOf(e)) /\ Len(l) = Len(s) /\ \A j \in 1 .. Len(s) : l[j] = IF j = 1 THEN st ELSE s[j]
    BY <1>1, <1>5
  <2> HIDE DEF u
  <2>3. r \in Seq(StepOf(e)) /\ Len(r) = Len(u) /\ \A j \in 1 .. Len(u) : r[j] = IF j = 1 THEN st ELSE u[j]
    BY <1>1, <1>5, <2>1
  <2> HIDE DEF l, r
  <2>4. /\ l \o t \in Seq(StepOf(e)) /\ Len(l \o t) = Len(u)
        /\ \A j \in 1 .. Len(s) : (l \o t)[j] = l[j]
        /\ \A j \in 1 .. Len(u) : j > Len(s) => (l \o t)[j] = t[j - Len(s)]
    <3>1. l \o t \in Seq(StepOf(e)) /\ Len(l \o t) = Len(l) + Len(t)  BY <2>2
    <3>2. \A j \in 1 .. Len(l) : (l \o t)[j] = l[j]  BY <2>2
    <3>3. \A j \in 1 .. Len(l) + Len(t) : j > Len(l) => (l \o t)[j] = t[j - Len(l)]  BY <2>2
    <3> DEFINE w == l \o t
    <3> HIDE DEF w
    <3>4. w \in Seq(StepOf(e)) /\ Len(w) = Len(u)  BY <2>1, <2>2, <3>1 DEF w
    <3>5. \A j \in 1 .. Len(s) : w[j] = l[j]  BY <2>2, <3>2 DEF w
    <3>6. \A j \in 1 .. Len(u) : j > Len(s) => w[j] = t[j - Len(s)]
      BY <2>1, <2>2, <3>3 DEF w
    <3> QED  BY <3>4, <3>5, <3>6 DEF w
  <2>5. ASSUME NEW j \in 1 .. Len(u) PROVE r[j] = (l \o t)[j]
    <3>1. CASE j <= Len(s)
      <4>1. j \in 1 .. Len(s)  BY <1>1, <2>1, <3>1
      <4>2. r[j] = IF j = 1 THEN st ELSE s[j]  BY <2>1, <2>3, <4>1
      <4>3. (l \o t)[j] = l[j]  BY <2>4, <4>1
      <4>4. l[j] = IF j = 1 THEN st ELSE s[j]  BY <2>2, <4>1
      <4> QED  BY <4>2, <4>3, <4>4
    <3>2. CASE j > Len(s)
      <4>1. j # 1  BY <1>1, <3>2
      <4>2. r[j] = u[j]  BY <2>3, <4>1
      <4>3. u[j] = t[j - Len(s)]  BY <2>1, <3>2
      <4>4. (l \o t)[j] = t[j - Len(s)]
        <5> DEFINE w == l \o t
        <5>1. \A k \in 1 .. Len(u) : k > Len(s) => w[k] = t[k - Len(s)]  BY <2>4
        <5> HIDE DEF w
        <5>2. w[j] = t[j - Len(s)]  BY <3>2, <5>1
        <5> QED  BY <5>2 DEF w
      <4> QED  BY <4>2, <4>3, <4>4
    <3>3. j <= Len(s) \/ j > Len(s)
      <4>1. Len(u) \in Nat  BY <1>1, <2>1
      <4> HIDE DEF l, r
      <4> QED  BY <1>1, <4>1
    <3> QED  BY <3>1, <3>2, <3>3, Zenon
  <2>6. r = l \o t
    <3> DEFINE w == l \o t
    <3>1. w \in Seq(StepOf(e)) /\ Len(w) = Len(r) /\ \A j \in 1 .. Len(r) : r[j] = w[j]
      BY <2>3, <2>4, <2>5
    <3> HIDE DEF w
    <3>2. r = w  BY <2>3, <3>1, SeqEqual
    <3> QED  BY <3>2 DEF w
  <2> QED  BY <2>6 DEF l, r
<1> QED  BY <1>5, <1>6, <1>7

\* The steps of node i, appended, add its value; the steps of node i compute it.
AddsNode(e, v, i) ==
    \A x, y \in Int : Computes(Joined(Code(e)[i], "add"), v, x, y) => y = x + Values(e, v)[i]

ComputesNode(e, v, i) ==
    \A x, y \in Int : Computes(Code(e)[i], v, x, y) => y = Values(e, v)[i]

\* Running s leaves a number that op and node i turn into y.
Leads(e, v, i, op, s, x, y) ==
    \E z \in Int : Computes(s, v, x, z) /\ y = Arith(op, z, Values(e, v)[i])

\* A step after others applies its operator to what they leave.
LEMMA ComputesMore ==
    ASSUME NEW e, IsTree(e), NEW v, Numbers(e, v), NEW i \in 1 .. Len(e), Simple(e, i),
           NEW op \in Ops, NEW s \in Seq(StepOf(e)), NEW x, NEW y,
           Computes(s \o <<MakeStep(e, i, FALSE, op)>>, v, x, y)
    PROVE  Leads(e, v, i, op, s, x, y)
<1> DEFINE st == MakeStep(e, i, FALSE, op)
<1>1. st \in StepOf(e)  BY MakeStepOK
<1>2. \A z : After(st, v, z) = Arith(op, z, Values(e, v)[i])  BY AfterApplied
<1>3. Computes(s \o <<st>>, v, x, y)  OBVIOUS
<1> HIDE DEF st
<1>4. <<st>> \in Seq(StepOf(e))  BY <1>1
<1>5. PICK z \in Int : Computes(s, v, x, z) /\ Computes(<<st>>, v, z, y)
  BY <1>3, <1>4, ComputesConcat
<1>6. y = After(st, v, z)  BY <1>5, ComputesOne
<1> QED  BY <1>2, <1>5, <1>6 DEF Leads

LEMMA NodeValue ==
    ASSUME NEW e, IsTree(e), NEW v, Numbers(e, v), NEW i \in 1 .. Len(e), ~Simple(e, i)
    PROVE  /\ e[i].kind = "op" /\ e[i].op \in Ops
           /\ e[i].a \in 1 .. i - 1 /\ e[i].b \in 1 .. i - 1
           /\ e[i].a \in 1 .. Len(e) /\ e[i].b \in 1 .. Len(e)
           /\ Values(e, v)[e[i].a] \in Int /\ Values(e, v)[e[i].b] \in Int
           /\ Values(e, v)[i] = Arith(e[i].op, Values(e, v)[e[i].a], Values(e, v)[e[i].b])
           /\ Code(e)[e[i].a] \in Block(e) /\ Code(e)[e[i].b] \in Block(e)
<1>1. e[i].kind = "op" /\ ~Leaf(e, i)  BY DEF Simple, Leaf
<1>2. /\ e[i].op \in Ops
      /\ e[i].a \in 1 .. i - 1 /\ e[i].b \in 1 .. i - 1
      /\ e[i].a \in 1 .. Len(e) /\ e[i].b \in 1 .. Len(e)
  BY <1>1, Shape
<1>3. Values(e, v) \in [1 .. Len(e) -> Int]  BY ValuesIs DEF Numbers
<1>4. Values(e, v)[i] = ValueBody(e, v, Values(e, v), i)  BY ValuesIs DEF Numbers
<1>5. Code(e) \in [1 .. Len(e) -> Block(e)]  BY CodeIs
<1>6. Values(e, v)[e[i].a] \in Int /\ Values(e, v)[e[i].b] \in Int  BY <1>2, <1>3
<1>7. Code(e)[e[i].a] \in Block(e) /\ Code(e)[e[i].b] \in Block(e)  BY <1>2, <1>5
<1>8. Values(e, v)[i] = Arith(e[i].op, Values(e, v)[e[i].a], Values(e, v)[e[i].b])
  BY <1>1, <1>4 DEF ValueBody
<1> QED  BY <1>1, <1>2, <1>6, <1>7, <1>8, Zenon

LEMMA NodeCode ==
    ASSUME NEW e, IsTree(e), NEW i \in 1 .. Len(e), ~Simple(e, i)
    PROVE  Code(e)[i] =
             IF Simple(e, e[i].b) THEN Code(e)[e[i].a] \o <<MakeStep(e, e[i].b, FALSE, e[i].op)>>
             ELSE IF Simple(e, e[i].a)
                  THEN Code(e)[e[i].b] \o <<MakeStep(e, e[i].a, FALSE, e[i].op)>>
             ELSE Code(e)[e[i].a] \o Joined(Code(e)[e[i].b], e[i].op)
BY CodeIs DEF CodeBody

\* A step appended to steps that add also adds what its operator makes of it.
LEMMA AddsMore ==
    ASSUME NEW e, IsTree(e), NEW v, Numbers(e, v), NEW i \in 1 .. Len(e),
           NEW a \in 1 .. Len(e), NEW b \in 1 .. Len(e), NEW op \in {"add", "sub"},
           Simple(e, b), AddsNode(e, v, a), Code(e)[a] \in Block(e),
           Values(e, v)[a] \in Int, Values(e, v)[b] \in Int,
           Code(e)[i] = Code(e)[a] \o <<MakeStep(e, b, FALSE, op)>>,
           Values(e, v)[i] = Arith(op, Values(e, v)[a], Values(e, v)[b])
    PROVE  AddsNode(e, v, i)
<1> DEFINE s == Code(e)[a]
           st == MakeStep(e, b, FALSE, op)
<1>1. op \in Ops /\ "add" \in Ops  BY DEF Ops
<1>2. st \in StepOf(e) /\ st.init = FALSE  BY <1>1, MakeStepOK
<1>3. Joined(Code(e)[i], "add") = Joined(s, "add") \o <<st>>
  <2>1. Code(e)[i] = s \o <<st>> /\ s \in Block(e)  OBVIOUS
  <2> HIDE DEF s, st
  <2>2. <<st>> \in Seq(StepOf(e)) /\ \A j \in 1 .. Len(<<st>>) : <<st>>[j].init = FALSE
    BY <1>2
  <2>3. Joined(s \o <<st>>, "add") = Joined(s, "add") \o <<st>>
    BY <1>1, <2>1, <2>2, JoinedConcat
  <2> QED  BY <2>1, <2>3
<1>4. Joined(s, "add") \in Seq(StepOf(e))  BY <1>1, JoinedSteps
<1>5. ASSUME NEW x \in Int, NEW y \in Int, Computes(Joined(Code(e)[i], "add"), v, x, y)
      PROVE  y = x + Values(e, v)[i]
  <2>1. PICK z \in Int : Computes(Joined(s, "add"), v, x, z) /\ y = Arith(op, z, Values(e, v)[b])
    <3> DEFINE t == Joined(s, "add")
    <3>1. Computes(t \o <<st>>, v, x, y) /\ t \in Seq(StepOf(e))  BY <1>3, <1>4, <1>5
    <3> HIDE DEF t, s, st
    <3>2. Computes(t \o <<MakeStep(e, b, FALSE, op)>>, v, x, y)  BY <3>1 DEF st
    <3>3. PICK z \in Int : Computes(t, v, x, z) /\ y = Arith(op, z, Values(e, v)[b])
      <4>1. Leads(e, v, b, op, t, x, y)  BY <1>1, <3>1, <3>2, ComputesMore
      <4> QED  BY <4>1 DEF Leads
    <3> QED  BY <3>3 DEF t
  <2>2. z = x + Values(e, v)[a]  BY <2>1 DEF AddsNode
  <2> DEFINE p == Values(e, v)[a]
             q == Values(e, v)[b]
             w == Values(e, v)[i]
  <2>3. p \in Int /\ q \in Int /\ z = x + p /\ y = Arith(op, z, q) /\ w = Arith(op, p, q)
    BY <2>1, <2>2
  <2> HIDE DEF p, q, w
  <2>4. \A k, l, m \in Int : k + l + m = k + (l + m) /\ k + l - m = k + (l - m)  OBVIOUS
  <2>5. CASE op = "add"
    <3>1. y = x + p + q /\ w = p + q  BY <2>3, <2>5 DEF Arith
    <3> QED  BY <2>3, <2>4, <3>1 DEF w
  <2>6. CASE op = "sub"
    <3>1. y = x + p - q /\ w = p - q  BY <2>3, <2>6 DEF Arith
    <3> QED  BY <2>3, <2>4, <3>1 DEF w
  <2> QED  BY <2>5, <2>6
<1> QED  BY <1>5 DEF AddsNode

LEMMA AdditiveAdds ==
    ASSUME NEW e, IsTree(e), NEW v, Numbers(e, v)
    PROVE  \A i \in 1 .. Len(e) : Additive(e)[i] => AddsNode(e, v, i)
<1> DEFINE n == Len(e)
           Good(i) == Additive(e)[i] => AddsNode(e, v, i)
           S == {i \in 1 .. n : Good(i)}
           val == Values(e, v)
           code == Code(e)
<1>1. n \in Nat  BY Shape
<1>2. ASSUME NEW i \in 1 .. n, \A k \in 1 .. i - 1 : Good(k), Additive(e)[i]
      PROVE  AddsNode(e, v, i)
  <2>1. CASE Simple(e, i)
    <3> DEFINE s == <<MakeStep(e, i, TRUE, "add")>>
               t == <<MakeStep(e, i, FALSE, "add")>>
    <3>1. "add" \in Ops  BY DEF Ops
    <3>2. code[i] = s  BY <2>1, CodeIs DEF CodeBody
    <3>3. Joined(s, "add") = t
      <4> DEFINE st == MakeStep(e, i, TRUE, "add")
                 un == MakeStep(e, i, FALSE, "add")
      <4>1. Rejoined(st, "add") = un
        <5>1. /\ st \in StepOf(e) /\ un \in StepOf(e)
              /\ un.init = FALSE /\ un.op = "add"
          BY <2>1, <3>1, MakeStepOK
        <5>2. un.leaf = st.leaf /\ un.scalar = st.scalar  BY DEF MakeStep
        <5> HIDE DEF st, un
        <5> DEFINE r == Rejoined(st, "add")
        <5>3. /\ r \in StepOf(e) /\ r.init = FALSE /\ r.op = "add"
              /\ r.leaf = st.leaf /\ r.scalar = st.scalar
          BY <3>1, <5>1 DEF Rejoined, StepOf
        <5> HIDE DEF r
        <5>4. r = un  BY <5>1, <5>2, <5>3 DEF StepOf
        <5> QED  BY <5>4 DEF r
      <4>2. s \in Block(e)  BY <2>1, <3>1, MakeStepOK, BlockOne
      <4>3. Joined(s, "add") = [s EXCEPT ![1] = Rejoined(s[1], "add")]
        BY <3>1, <4>2, JoinedAsExcept
      <4> HIDE DEF st, un
      <4>4. [<<st>> EXCEPT ![1] = un] = <<un>>  OBVIOUS
      <4>5. <<st>>[1] = st  OBVIOUS
      <4> QED  BY <4>1, <4>3, <4>4, <4>5 DEF st, un
    <3>4. ASSUME NEW x \in Int, NEW y \in Int, Computes(t, v, x, y) PROVE y = x + val[i]
      <4>1. y = After(MakeStep(e, i, FALSE, "add"), v, x)  BY <3>4, ComputesOne
      <4>2. y = Arith("add", x, val[i])  BY <2>1, <3>1, <4>1, AfterApplied
      <4> QED  BY <4>2 DEF Arith
    <3> HIDE DEF s, t
    <3> QED  BY <3>2, <3>3, <3>4 DEF AddsNode
  <2>2. CASE ~Simple(e, i)
    <3> DEFINE a == e[i].a
               b == e[i].b
               op == e[i].op
    <3>1. /\ op \in Ops /\ a \in 1 .. i - 1 /\ b \in 1 .. i - 1 /\ a \in 1 .. n /\ b \in 1 .. n
          /\ val[a] \in Int /\ val[b] \in Int /\ val[i] = Arith(op, val[a], val[b])
          /\ code[a] \in Block(e) /\ code[b] \in Block(e)
      BY <2>2, NodeValue
    <3>2. code[i] = IF Simple(e, b) THEN code[a] \o <<MakeStep(e, b, FALSE, op)>>
                    ELSE IF Simple(e, a) THEN code[b] \o <<MakeStep(e, a, FALSE, op)>>
                    ELSE code[a] \o Joined(code[b], op)
      BY <2>2, NodeCode
    <3>3. \/ op \in {"add", "sub"} /\ Additive(e)[a] /\ Simple(e, b)
          \/ op = "add" /\ Additive(e)[a] /\ Additive(e)[b]
      BY <1>2, <2>2, AdditiveIs DEF AdditiveBody
    <3>4. AddsNode(e, v, a)  BY <1>2, <3>1, <3>3
    <3> HIDE DEF a, b, op, val, code, n
    <3>5. CASE Simple(e, b)
      <4>1. code[i] = code[a] \o <<MakeStep(e, b, FALSE, op)>>  BY <3>2, <3>5
      <4>2. op \in {"add", "sub"}  BY <3>3
      <4> QED  BY <3>1, <3>4, <3>5, <4>1, <4>2, AddsMore DEF n, val, code
    <3>6. CASE ~Simple(e, b)
      <4>1. op = "add" /\ Additive(e)[b]  BY <3>3, <3>6
      <4>2. AddsNode(e, v, b)  BY <1>2, <3>1, <4>1 DEF n
      <4>3. CASE Simple(e, a)
        <5>1. code[i] = code[b] \o <<MakeStep(e, a, FALSE, op)>>  BY <3>2, <3>6, <4>3
        <5>2. op \in {"add", "sub"}  BY <4>1
        <5>3. val[i] = Arith(op, val[b], val[a])  BY <3>1, <4>1 DEF Arith
        <5> QED  BY <3>1, <4>2, <4>3, <5>1, <5>2, <5>3, AddsMore DEF n, val, code
      <4>4. CASE ~Simple(e, a)
        <5> DEFINE s == code[a]
                   t == Joined(code[b], "add")
        <5>0. "add" \in Ops  BY DEF Ops
        <5>1. code[i] = s \o t  BY <3>2, <3>6, <4>1, <4>4
        <5>2. s \in Block(e)  BY <3>1
        <5>3. t \in Seq(StepOf(e)) /\ \A j \in 1 .. Len(t) : t[j].init = FALSE
          BY <3>1, <5>0, JoinedSteps
        <5> HIDE DEF s, t
        <5>4. Joined(code[i], "add") = Joined(s, "add") \o t
          BY <5>0, <5>1, <5>2, <5>3, JoinedConcat
        <5>5. Joined(s, "add") \in Seq(StepOf(e))  BY <5>0, <5>2, JoinedSteps
        <5>6. ASSUME NEW x \in Int, NEW y \in Int, Computes(Joined(code[i], "add"), v, x, y)
              PROVE  y = x + val[i]
          <6>1. PICK z \in Int : Computes(Joined(s, "add"), v, x, z) /\ Computes(t, v, z, y)
            BY <5>3, <5>4, <5>5, <5>6, ComputesConcat
          <6>2. z = x + val[a]  BY <3>4, <6>1 DEF AddsNode, s, code, val
          <6>3. y = z + val[b]  BY <4>2, <6>1 DEF AddsNode, t, code, val
          <6>4. val[i] = val[a] + val[b]  BY <3>1, <4>1 DEF Arith
          <6> QED  BY <3>1, <6>2, <6>3, <6>4
        <5> QED  BY <5>6 DEF AddsNode, code, val
      <4> QED  BY <4>3, <4>4
    <3> QED  BY <3>5, <3>6
  <2> QED  BY <2>1, <2>2
<1>3. \A i \in 1 .. n : i \in S
  <2>1. ASSUME NEW i \in 1 .. n, \A k \in 1 .. i - 1 : k \in S PROVE i \in S
    <3>1. \A k \in 1 .. i - 1 : Good(k)  BY <2>1
    <3> QED  BY <1>2, <3>1
  <2> HIDE DEF S, n
  <2> QED  BY <1>1, <2>1, EachFromEarlier
<1> QED  BY <1>3

\* What can be appended can stand first.
LEMMA AdditiveLinear ==
    ASSUME NEW e, IsTree(e)
    PROVE  \A i \in 1 .. Len(e) : Additive(e)[i] => Linear(e)[i]
<1> DEFINE n == Len(e)
           Good(i) == Additive(e)[i] => Linear(e)[i]
           S == {i \in 1 .. n : Good(i)}
<1>1. n \in Nat  BY Shape
<1>2. ASSUME NEW i \in 1 .. n, \A k \in 1 .. i - 1 : Good(k), Additive(e)[i]
      PROVE  Linear(e)[i]
  <2>1. /\ Linear(e)[i] = LinearBody(e, Linear(e), i)
        /\ Additive(e)[i] = AdditiveBody(e, Additive(e), i)
    BY AdditiveIs, LinearIs
  <2>2. CASE Simple(e, i)  BY <2>1, <2>2 DEF LinearBody
  <2>3. CASE ~Simple(e, i)
    <3>1. e[i].kind = "op"  BY <2>3 DEF Simple, Leaf
    <3>2. e[i].a \in 1 .. i - 1 /\ e[i].b \in 1 .. i - 1  BY <3>1, Shape
    <3>3. \/ Additive(e)[e[i].a] /\ Simple(e, e[i].b)
          \/ e[i].op = "add" /\ Additive(e)[e[i].a] /\ Additive(e)[e[i].b]
      BY <1>2, <2>1, <2>3 DEF AdditiveBody
    <3>4. Linear(e)[e[i].a]  BY <1>2, <3>2, <3>3
    <3> QED  BY <2>1, <3>3, <3>4 DEF LinearBody
  <2> QED  BY <2>2, <2>3
<1>3. \A i \in 1 .. n : i \in S
  <2>1. ASSUME NEW i \in 1 .. n, \A k \in 1 .. i - 1 : k \in S PROVE i \in S
    <3>1. \A k \in 1 .. i - 1 : Good(k)  BY <2>1
    <3> QED  BY <1>2, <3>1
  <2> HIDE DEF S, n
  <2> QED  BY <1>1, <2>1, EachFromEarlier
<1> QED  BY <1>3

LEMMA SimpleComputes ==
    ASSUME NEW e, IsTree(e), NEW v, Numbers(e, v), NEW i \in 1 .. Len(e), Simple(e, i)
    PROVE  ComputesNode(e, v, i)
<1>1. Code(e)[i] = <<MakeStep(e, i, TRUE, "add")>>  BY CodeIs DEF CodeBody
<1>2. ASSUME NEW x \in Int, NEW y \in Int, Computes(<<MakeStep(e, i, TRUE, "add")>>, v, x, y)
      PROVE  y = Values(e, v)[i]
  <2>1. y = After(MakeStep(e, i, TRUE, "add"), v, x)  BY <1>2, ComputesOne
  <2> QED  BY <2>1, AfterSet
<1> QED  BY <1>1, <1>2 DEF ComputesNode

LEMMA ArithCommutes ==
    ASSUME NEW op \in Ops, op # "sub", NEW x \in Int, NEW y \in Int
    PROVE  Arith(op, x, y) = Arith(op, y, x)
<1>1. op = "add" \/ op = "mul"  BY DEF Ops
<1>2. x + y = y + x /\ x * y = y * x  OBVIOUS
<1> QED  BY <1>1, <1>2 DEF Arith

\* A simple node after the steps of another.
LEMMA ComputesWith ==
    ASSUME NEW e, IsTree(e), NEW v, Numbers(e, v), NEW i \in 1 .. Len(e),
           NEW a \in 1 .. Len(e), NEW b \in 1 .. Len(e), NEW op \in Ops,
           Simple(e, b), ComputesNode(e, v, a), Code(e)[a] \in Block(e),
           Code(e)[i] = Code(e)[a] \o <<MakeStep(e, b, FALSE, op)>>,
           Values(e, v)[i] = Arith(op, Values(e, v)[a], Values(e, v)[b])
    PROVE  ComputesNode(e, v, i)
<1> DEFINE s == Code(e)[a]
<1>1. s \in Seq(StepOf(e)) /\ Code(e)[i] = s \o <<MakeStep(e, b, FALSE, op)>>  BY DEF Block
<1>2. \A x, y \in Int : Computes(s, v, x, y) => y = Values(e, v)[a]  BY DEF ComputesNode
<1> HIDE DEF s
<1>3. ASSUME NEW x \in Int, NEW y \in Int, Computes(s \o <<MakeStep(e, b, FALSE, op)>>, v, x, y)
      PROVE  y = Values(e, v)[i]
  <2>1. Leads(e, v, b, op, s, x, y)  BY <1>1, <1>3, ComputesMore
  <2>2. PICK z \in Int : Computes(s, v, x, z) /\ y = Arith(op, z, Values(e, v)[b])
    BY <2>1 DEF Leads
  <2> QED  BY <1>2, <2>2
<1> QED  BY <1>1, <1>3 DEF ComputesNode

LEMMA LinearComputes ==
    ASSUME NEW e, IsTree(e), NEW v, Numbers(e, v)
    PROVE  \A i \in 1 .. Len(e) : Linear(e)[i] => ComputesNode(e, v, i)
<1> DEFINE n == Len(e)
           Good(i) == Linear(e)[i] => ComputesNode(e, v, i)
           S == {i \in 1 .. n : Good(i)}
           val == Values(e, v)
           code == Code(e)
<1>1. n \in Nat  BY Shape
<1>2. ASSUME NEW i \in 1 .. n, \A k \in 1 .. i - 1 : Good(k), Linear(e)[i]
      PROVE  ComputesNode(e, v, i)
  <2>1. CASE Simple(e, i)  BY <2>1, SimpleComputes
  <2>2. CASE ~Simple(e, i)
    <3> DEFINE a == e[i].a
               b == e[i].b
               op == e[i].op
    <3>1. /\ op \in Ops /\ a \in 1 .. i - 1 /\ b \in 1 .. i - 1 /\ a \in 1 .. n /\ b \in 1 .. n
          /\ val[a] \in Int /\ val[b] \in Int /\ val[i] = Arith(op, val[a], val[b])
          /\ code[a] \in Block(e) /\ code[b] \in Block(e)
      BY <2>2, NodeValue
    <3>2. code[i] = IF Simple(e, b) THEN code[a] \o <<MakeStep(e, b, FALSE, op)>>
                    ELSE IF Simple(e, a) THEN code[b] \o <<MakeStep(e, a, FALSE, op)>>
                    ELSE code[a] \o Joined(code[b], op)
      BY <2>2, NodeCode
    <3>3. \/ Simple(e, b) /\ Linear(e)[a]
          \/ Simple(e, a) /\ Linear(e)[b] /\ op # "sub"
          \/ op = "add" /\ Linear(e)[a] /\ Additive(e)[b]
      BY <1>2, <2>2, LinearIs DEF LinearBody
    <3>4. \A k \in 1 .. n : Simple(e, k) => ComputesNode(e, v, k)  BY SimpleComputes
    <3>5. \A k \in 1 .. i - 1 : Linear(e)[k] => ComputesNode(e, v, k)  BY <1>2
    <3>6. \A k \in 1 .. n : Additive(e)[k] => Linear(e)[k] /\ AddsNode(e, v, k)
      BY AdditiveLinear, AdditiveAdds
    <3> HIDE DEF a, b, op, val, code, n
    <3>7. CASE Simple(e, b)
      <4>1. code[i] = code[a] \o <<MakeStep(e, b, FALSE, op)>>  BY <3>2, <3>7
      <4>2. ComputesNode(e, v, a)  BY <3>1, <3>3, <3>4, <3>5
      <4> QED  BY <3>1, <3>7, <4>1, <4>2, ComputesWith DEF n, val, code
    <3>8. CASE ~Simple(e, b) /\ Simple(e, a)
      <4>1. code[i] = code[b] \o <<MakeStep(e, a, FALSE, op)>>  BY <3>2, <3>8
      <4>2. Linear(e)[b] /\ op # "sub"  BY <3>1, <3>3, <3>6, <3>8
      <4>3. ComputesNode(e, v, b)  BY <3>1, <3>5, <4>2
      <4>4. val[i] = Arith(op, val[b], val[a])  BY <3>1, <4>2, ArithCommutes
      <4> QED  BY <3>1, <3>8, <4>1, <4>3, <4>4, ComputesWith DEF n, val, code
    <3>9. CASE ~Simple(e, b) /\ ~Simple(e, a)
      <4>1. op = "add" /\ Linear(e)[a] /\ Additive(e)[b]  BY <3>3, <3>9
      <4>2. ComputesNode(e, v, a) /\ AddsNode(e, v, b)  BY <3>1, <3>5, <3>6, <4>1
      <4> DEFINE s == code[a]
                 t == Joined(code[b], "add")
      <4>3. "add" \in Ops  BY DEF Ops
      <4>4. code[i] = s \o t  BY <3>2, <3>9, <4>1
      <4>5. s \in Seq(StepOf(e))  BY <3>1 DEF Block
      <4>6. t \in Seq(StepOf(e))  BY <3>1, <4>3, JoinedSteps
      <4> HIDE DEF s, t
      <4>7. ASSUME NEW x \in Int, NEW y \in Int, Computes(s \o t, v, x, y)
            PROVE  y = val[i]
        <5>1. PICK z \in Int : Computes(s, v, x, z) /\ Computes(t, v, z, y)
          BY <4>5, <4>6, <4>7, ComputesConcat
        <5>2. z = val[a]  BY <4>2, <5>1 DEF ComputesNode, s, code, val
        <5>3. y = z + val[b]  BY <4>2, <5>1 DEF AddsNode, t, code, val
        <5>4. val[i] = val[a] + val[b]  BY <3>1, <4>1 DEF Arith
        <5> QED  BY <5>2, <5>3, <5>4
      <4> QED  BY <4>4, <4>7 DEF ComputesNode, code, val
    <3> QED  BY <3>7, <3>8, <3>9
  <2> QED  BY <2>1, <2>2
<1>3. \A i \in 1 .. n : i \in S
  <2>1. ASSUME NEW i \in 1 .. n, \A k \in 1 .. i - 1 : k \in S PROVE i \in S
    <3>1. \A k \in 1 .. i - 1 : Good(k)  BY <2>1
    <3> QED  BY <1>2, <3>1
  <2> HIDE DEF S, n
  <2> QED  BY <1>1, <2>1, EachFromEarlier
<1> QED  BY <1>3

-----------------------------------------------------------------------------
(* The machine.                                                            *)

\* What is run is what was compiled.
Compiled ==
    /\ expr \in Exprs
    /\ phase \in {"compile", "rejected", "run", "done"}
    /\ phase \in {"run", "done"} => steps = Flatten(expr)

LEMMA CompiledInit == Init => Compiled
BY DEF Init, Compiled

LEMMA CompiledStep == Compiled /\ [Next]_vars => Compiled'
<1> SUFFICES ASSUME Compiled, [Next]_vars PROVE Compiled'  OBVIOUS
<1>1. CASE Reject  BY <1>1 DEF Compiled, Reject
<1>2. CASE Compile  BY <1>2 DEF Compiled, Compile
<1>3. CASE RunStep  BY <1>3 DEF Compiled, RunStep
<1>4. CASE Finish  BY <1>4 DEF Compiled, Finish
<1>5. CASE UNCHANGED vars  BY <1>5 DEF Compiled, vars
<1> QED  BY <1>1, <1>2, <1>3, <1>4, <1>5 DEF Next

LEMMA CompiledCovers == Compiled => StepsCoverLeaves
<1> SUFFICES ASSUME Compiled, phase \in {"run", "done"}
    PROVE  /\ {steps[j].leaf : j \in DOMAIN steps}
                \cup ({steps[j].scalar : j \in DOMAIN steps} \ {None})
                = {expr[i].name : i \in {k \in DOMAIN expr : Leaf(expr, k)}}
           /\ \A j \in DOMAIN steps : steps[j].init <=> j = 1
  BY DEF StepsCoverLeaves
<1>1. IsTree(expr) /\ steps = Flatten(expr)  BY ExprAssumption DEF Compiled
<1>2. steps \in Block(expr) /\ NamesOf(steps) = LeafNames(expr)
  BY <1>1, FlattenBlock, FlattenNames
<1>3. steps \in Seq(StepOf(expr)) /\ \A j \in 1 .. Len(steps) : steps[j].init <=> j = 1
  BY <1>2 DEF Block
<1>4. DOMAIN steps = 1 .. Len(steps)  BY <1>3
<1>5. {steps[j].leaf : j \in DOMAIN steps} \cup ({steps[j].scalar : j \in DOMAIN steps} \ {None})
        = NamesOf(steps)
  BY <1>4 DEF NamesOf, StepNames
<1> QED  BY <1>2, <1>3, <1>4, <1>5 DEF LeafNames

(* The steps name the leaves of the expression, all of them and no others, *)
(* and only the first sets the accumulator: flatten_into drops nothing.    *)
THEOREM CoversLeaves == Spec => []StepsCoverLeaves
<1>1. Spec => []Compiled  BY CompiledInit, CompiledStep, PTL DEF Spec
<1> QED  BY <1>1, CompiledCovers, PTL

\* The accumulator holds, under v, what the steps run so far make of 0.
RunSoFar(v) ==
    \E f \in [0 .. Len(steps) -> Int] :
      /\ f[0] = 0 /\ f[ip - 1] = acc[v]
      /\ \A j \in 1 .. ip - 1 : f[j] = After(steps[j], v, f[j - 1])

Progress ==
    /\ ip \in 1 .. Len(steps) + 1
    /\ phase = "compile" => ip = 1 /\ \A v \in Envs : acc[v] = 0
    /\ phase = "done" => ip = Len(steps) + 1
    /\ DOMAIN acc = Envs
    /\ phase \in {"run", "done"} => \A v \in Envs : RunSoFar(v)

Running == Compiled /\ steps \in Seq(StepOf(expr)) /\ Progress

LEMMA RunningInit == Init => Running
<1> SUFFICES ASSUME Init PROVE Running  OBVIOUS
<1>1. steps = << >> /\ Len(steps) = 0 /\ steps \in Seq(StepOf(expr))  BY DEF Init
<1>2. Compiled  BY CompiledInit
<1>3. Progress  BY <1>1 DEF Init, Progress
<1> QED  BY <1>1, <1>2, <1>3 DEF Running

\* A step brings a number to the accumulator, which stays one.
LEMMA AfterInt ==
    ASSUME NEW e \in Exprs, NEW v \in Envs, NEW st \in StepOf(e), NEW x \in Int
    PROVE  OperandIn(v, st) \in Int /\ After(st, v, x) \in Int
<1>1. IsTree(e) /\ \A i \in DOMAIN e : e[i].kind # "op" => v[e[i].name] \in Int
  BY ExprAssumption
<1>2. \A name \in LeafNames(e) : v[name] \in Int  BY <1>1 DEF LeafNames, Leaf
<1>3. /\ st.leaf \in LeafNames(e) /\ st.scalar \in LeafNames(e) \cup {None}
      /\ st.op \in Ops
  BY ScalarNamesLeaf DEF StepOf
<1>4. v[st.leaf] \in Int /\ (st.scalar # None => v[st.scalar] \in Int)  BY <1>2, <1>3
<1>5. OperandIn(v, st) \in Int  BY <1>4 DEF OperandIn
<1>6. Arith(st.op, x, OperandIn(v, st)) \in Int  BY <1>3, <1>5, ArithInt
<1> QED  BY <1>5, <1>6 DEF After

LEMMA RunningStep == Running /\ [Next]_vars => Running'
<1> SUFFICES ASSUME Running, [Next]_vars PROVE Running'  OBVIOUS
<1>1. Compiled'  BY CompiledStep DEF Running
<1> USE DEF Running
<1>2. CASE Reject
  <2>1. UNCHANGED <<expr, steps, ip, acc>> /\ phase' = "rejected"  BY <1>2 DEF Reject
  <2>2. Progress'  BY <2>1 DEF Progress
  <2> QED  BY <1>1, <2>1, <2>2
<1>3. CASE Compile
  <2>1. /\ steps' = Flatten(expr) /\ phase = "compile" /\ phase' = "run"
        /\ UNCHANGED <<expr, ip, acc>>
    BY <1>3 DEF Compile
  <2>2. IsTree(expr)  BY ExprAssumption DEF Compiled
  <2>3. steps' \in Block(expr)  BY <2>1, <2>2, FlattenBlock
  <2>4. steps' \in Seq(StepOf(expr)) /\ Len(steps') \in Nat  BY <2>3 DEF Block
  <2>5. ip = 1 /\ \A v \in Envs : acc[v] = 0  BY <2>1 DEF Progress
  <2>6. ASSUME NEW v \in Envs PROVE RunSoFar(v)'
    <3> DEFINE f == [j \in 0 .. Len(steps') |-> 0]
    <3>1. f \in [0 .. Len(steps') -> Int] /\ f[0] = 0  BY <2>4
    <3>2. ip' - 1 = 0 /\ acc'[v] = 0  BY <2>1, <2>5
    <3> HIDE DEF f
    <3> QED  BY <3>1, <3>2 DEF RunSoFar
  <2>7. Progress'
    <3>1. ip' \in 1 .. Len(steps') + 1  BY <2>1, <2>4, <2>5
    <3> QED  BY <2>1, <2>6, <3>1 DEF Progress
  <2> QED  BY <1>1, <2>1, <2>4, <2>7
<1>4. CASE RunStep
  <2>1. /\ phase = "run" /\ ip <= Len(steps) /\ ip' = ip + 1
        /\ UNCHANGED <<expr, phase, steps>>
        /\ acc' = [v \in Envs |-> IF steps[ip].init THEN OperandIn(v, steps[ip])
                                  ELSE Arith(steps[ip].op, acc[v], OperandIn(v, steps[ip]))]
    BY <1>4 DEF RunStep
  <2>2. \A v \in Envs : acc'[v] = After(steps[ip], v, acc[v])  BY <2>1 DEF After
  <2>3. ip \in 1 .. Len(steps) /\ steps \in Seq(StepOf(expr)) /\ Len(steps) \in Nat
    BY <2>1 DEF Progress
  <2>4. steps[ip] \in StepOf(expr)  BY <2>3
  <2>5. ASSUME NEW v \in Envs PROVE RunSoFar(v)'
    <3>1. PICK f \in [0 .. Len(steps) -> Int] :
            /\ f[0] = 0 /\ f[ip - 1] = acc[v]
            /\ \A j \in 1 .. ip - 1 : f[j] = After(steps[j], v, f[j - 1])
      BY <2>1 DEF Progress, RunSoFar
    <3>2. ip - 1 \in 0 .. Len(steps) /\ ip \in 0 .. Len(steps) /\ 0 \in 0 .. Len(steps)  BY <2>3
    <3>3. acc[v] \in Int  BY <3>1, <3>2
    <3> DEFINE y == After(steps[ip], v, acc[v])
               g == [f EXCEPT ![ip] = y]
    <3>4. y \in Int  BY <2>4, <3>3, AfterInt DEF Compiled
    <3> HIDE DEF y
    <3>5. g \in [0 .. Len(steps) -> Int] /\ g[ip] = y  BY <3>2, <3>4
    <3>6. \A j \in 0 .. ip - 1 : g[j] = f[j]  BY <2>3, <3>2
    <3> HIDE DEF g
    <3>7. ASSUME NEW j \in 1 .. ip PROVE g[j] = After(steps[j], v, g[j - 1])
      <4>1. CASE j = ip
        <5>1. g[ip - 1] = f[ip - 1]  BY <2>3, <3>6
        <5> QED  BY <3>1, <3>5, <4>1, <5>1 DEF y
      <4>2. CASE j # ip
        <5>1. j \in 1 .. ip - 1 /\ j \in 0 .. ip - 1 /\ j - 1 \in 0 .. ip - 1  BY <2>3, <4>2
        <5>2. g[j] = f[j] /\ g[j - 1] = f[j - 1]  BY <3>6, <5>1
        <5>3. f[j] = After(steps[j], v, f[j - 1])  BY <3>1, <5>1
        <5> QED  BY <5>2, <5>3
      <4> QED  BY <4>1, <4>2
    <3>8. g[0] = 0
      <4>1. 0 \in 0 .. ip - 1  BY <2>3
      <4> QED  BY <3>1, <3>6, <4>1
    <3>9. acc'[v] = y /\ ip' - 1 = ip /\ steps' = steps  BY <2>1, <2>2, <2>3 DEF y
    <3> QED  BY <3>5, <3>7, <3>8, <3>9 DEF RunSoFar
  <2>6. Progress'
    <3>1. ip' \in 1 .. Len(steps') + 1  BY <2>1, <2>3
    <3> QED  BY <2>1, <2>5, <3>1 DEF Progress
  <2> QED  BY <1>1, <2>1, <2>6
<1>5. CASE Finish
  <2>1. /\ phase = "run" /\ ip > Len(steps) /\ phase' = "done"
        /\ UNCHANGED <<expr, steps, ip, acc>>
    BY <1>5 DEF Finish
  <2>2. ip = Len(steps) + 1
    <3>1. Len(steps) \in Nat /\ ip \in 1 .. Len(steps) + 1  BY DEF Progress
    <3> QED  BY <2>1, <3>1
  <2>3. \A v \in Envs : RunSoFar(v)'  BY <2>1 DEF Progress, RunSoFar
  <2>4. Progress'  BY <2>1, <2>2, <2>3 DEF Progress
  <2> QED  BY <1>1, <2>1, <2>4
<1>6. CASE UNCHANGED vars
  <2>1. UNCHANGED <<expr, phase, steps, ip, acc>>  BY <1>6 DEF vars
  <2>2. phase \in {"run", "done"} => \A v \in Envs : RunSoFar(v)'
    BY <2>1 DEF Progress, RunSoFar
  <2>3. Progress'  BY <2>1, <2>2 DEF Progress
  <2> QED  BY <1>1, <2>1, <2>3
<1> QED  BY <1>2, <1>3, <1>4, <1>5, <1>6 DEF Next

LEMMA RunningRight == Running => LinearIsRight
<1> SUFFICES ASSUME Running, phase = "done", IsLinear(expr), NEW v \in Envs
    PROVE  acc[v] = Values(expr, v)[Len(expr)]
  BY DEF LinearIsRight, Right
<1>1. IsTree(expr) /\ expr \in Exprs  BY ExprAssumption DEF Running, Compiled
<1>2. Len(expr) \in 1 .. Len(expr) /\ DOMAIN expr = 1 .. Len(expr)  BY <1>1, Shape
<1>3. Numbers(expr, v)  BY <1>1, <1>2, ExprAssumption DEF Numbers
<1>4. steps = Code(expr)[Len(expr)]  BY DEF Running, Compiled, Flatten
<1>5. ip = Len(steps) + 1 /\ RunSoFar(v) /\ Len(steps) \in Nat  BY DEF Running, Progress
<1>6. ip - 1 = Len(steps)  BY <1>5
<1>7. PICK f \in [0 .. Len(steps) -> Int] :
        /\ f[0] = 0 /\ f[Len(steps)] = acc[v]
        /\ \A j \in 1 .. Len(steps) : f[j] = After(steps[j], v, f[j - 1])
  BY <1>5, <1>6 DEF RunSoFar
<1>8. Computes(steps, v, 0, acc[v])  BY <1>7 DEF Computes
<1>9. acc[v] \in Int  BY <1>5, <1>7
<1>10. ComputesNode(expr, v, Len(expr))
  BY <1>1, <1>2, <1>3, LinearComputes DEF IsLinear
<1> QED  BY <1>4, <1>8, <1>9, <1>10 DEF ComputesNode

(* The steps of a linear expression compute it, whatever numbers its       *)
(* leaves stand for: one accumulator, in the order flatten_into chooses,   *)
(* is enough for those.                                                    *)
THEOREM LinearComputed == Spec => []LinearIsRight
<1>1. Spec => []Running  BY RunningInit, RunningStep, PTL DEF Spec
<1> QED  BY <1>1, RunningRight, PTL

(* So the steps of any expression are its own and all of them, and those   *)
(* of a linear one compute it.                                             *)
THEOREM Flattens == Spec => []StepsRight
<1>1. StepsCoverLeaves /\ LinearIsRight => StepsRight  BY DEF StepsRight
<1> QED  BY <1>1, CoversLeaves, LinearComputed, PTL

=============================================================================

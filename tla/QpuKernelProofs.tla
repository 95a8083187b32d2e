-------------------------- MODULE QpuKernelProofs --------------------------
(***************************************************************************)
(* Theorems about the kernel and what it is built on, for every machine    *)
(* size and every set of calls: the per-QPU blocks partition the outermost *)
(* dimension (WorkSplit), the uniform stream the driver writes is the one  *)
(* the preamble reads and every live value has a register of its own       *)
(* (KernelLayout), and the kernel computes the elementwise map, with any   *)
(* number of dimensions, tensors and steps (QpuKernel).                    *)
(*                                                                         *)
(* The invariant of the last follows each QPU's group through the loops:   *)
(* its pointers are there (PointersOK), its transfers too (TransferOK),    *)
(* what is stored of its block lies behind it (StoredBehind), its          *)
(* accumulators hold the expression so far (AccOK) and memory only         *)
(* reference values (MemoryOK).                                            *)
(***************************************************************************)
EXTENDS QpuKernelCorrect, SequenceTheorems, WellFoundedInduction, TLAPS

-----------------------------------------------------------------------------
(* WorkSplit: for every number of QPUs and every size.                     *)

\* Quotient and remainder, as the shifts of the preamble compute them.
LEMMA DivisionFacts ==
    ASSUME NEW n \in Nat
    PROVE  /\ Base(n) \in Nat
           /\ Rem(n) \in 0 .. NQ - 1
           /\ n = Base(n) * NQ + Rem(n)
<1>1. NQ \in Int /\ NQ > 0  BY NQAssumption
<1>2. n = NQ * (n \div NQ) + (n % NQ) /\ n % NQ \in 0 .. NQ - 1 /\ n \div NQ \in Int
  BY <1>1
<1>3. n \div NQ >= 0  BY <1>1
<1> DEFINE b == n \div NQ
<1>4. b * NQ = NQ * b  BY <1>1, <1>2
<1>5. b * NQ \in Int  BY <1>1, <1>2
<1> QED  BY <1>1, <1>2, <1>3, <1>4, <1>5 DEF Base, Rem

\* The next QPU's block starts where this one's ends.
LEMMA NextStart ==
    ASSUME NEW n \in Nat, NEW q \in Nat
    PROVE  Start(q + 1, n) = Start(q, n) + Share(q, n)
<1> DEFINE b == Base(n)
           r == Rem(n)
<1>1. b \in Nat /\ r \in Nat  BY DivisionFacts, NQAssumption
<1>2. (q + 1) * b = q * b + b /\ q * b \in Nat  BY <1>1
<1> HIDE DEF b, r
<1>3. (IF q + 1 < r THEN q + 1 ELSE r)
        = (IF q < r THEN q ELSE r) + (IF q < r THEN 1 ELSE 0)
  BY <1>1
<1>4. (q + 1) * b + (IF q + 1 < r THEN q + 1 ELSE r)
        = (q * b + (IF q < r THEN q ELSE r)) + (b + (IF q < r THEN 1 ELSE 0))
  BY <1>1, <1>2, <1>3
<1> QED  BY <1>4 DEF Start, Share, b, r

\* The blocks of the QPUs are consecutive, the first starts at 0 and the last
\* ends at n: nothing is computed twice, nothing is left out.
THEOREM SplitCovers == \A n \in Nat : BlocksAbut(n)
<1> SUFFICES ASSUME NEW n \in Nat PROVE BlocksAbut(n)
  OBVIOUS
<1>1. Base(n) \in Nat /\ Rem(n) \in 0 .. NQ - 1 /\ n = Base(n) * NQ + Rem(n)
  BY DivisionFacts
<1>2. Start(0, n) = 0
  BY <1>1 DEF Start
<1>3. \A q \in QPU : Start(q + 1, n) = Start(q, n) + Share(q, n)
  BY NextStart, NQAssumption DEF QPU
<1>4. Start(NQ, n) = n
  <2>1. NQ * Base(n) = Base(n) * NQ  BY <1>1, NQAssumption
  <2>2. ~(NQ < Rem(n))  BY <1>1, NQAssumption
  <2> QED  BY <1>1, <2>1, <2>2, NQAssumption DEF Start
<1> QED  BY <1>2, <1>3, <1>4 DEF BlocksAbut

\* A lower-numbered QPU's block ends before a higher-numbered one's begins.
LEMMA StartMonotone ==
    ASSUME NEW n \in Nat, NEW p \in Nat, NEW q \in Nat, p < q
    PROVE  Start(p, n) + Share(p, n) <= Start(q, n)
<1> DEFINE b == Base(n)
           r == Rem(n)
           f(x) == IF x < r THEN x ELSE r
<1>1. b \in Nat /\ r \in Nat  BY DivisionFacts, NQAssumption
<1>2. PICK k \in Nat : q = p + 1 + k  BY SMT
<1>3. q * b = (p + 1) * b + k * b /\ (p + 1) * b \in Nat /\ k * b \in Nat
  BY <1>1, <1>2
<1>4. q * b >= (p + 1) * b  BY <1>3, <1>1
<1>5. f(p + 1) <= f(q) /\ f(p + 1) \in Nat /\ f(q) \in Nat  BY <1>1, <1>2
<1>6. Start(q, n) = q * b + f(q) /\ Start(p + 1, n) = (p + 1) * b + f(p + 1)
  BY DEF Start
<1>7. Start(p + 1, n) <= Start(q, n)
  <2> HIDE DEF b, f
  <2>1. q * b \in Nat  BY <1>1 DEF b
  <2> QED  BY <1>3, <1>4, <1>5, <1>6, <2>1
<1> QED  BY <1>7, NextStart

\* No index belongs to two QPUs.
THEOREM SplitDisjoint ==
    \A n \in Nat : \A p, q \in QPU :
        p # q => Block(p, n) \cap Block(q, n) = {}
<1> SUFFICES ASSUME NEW n \in Nat, NEW p \in QPU, NEW q \in QPU, p < q
             PROVE  Block(p, n) \cap Block(q, n) = {}
  BY NQAssumption DEF QPU
<1>1. p \in Nat /\ q \in Nat  BY NQAssumption DEF QPU
<1>2. Start(p, n) + Share(p, n) <= Start(q, n)  BY <1>1, StartMonotone
<1>3. Start(p, n) \in Int /\ Share(p, n) \in Int /\ Start(q, n) \in Int
  <2>1. Base(n) \in Nat /\ Rem(n) \in Nat  BY DivisionFacts, NQAssumption
  <2>2. p * Base(n) \in Int /\ q * Base(n) \in Int  BY <2>1, <1>1
  <2> QED  BY <2>1, <2>2, <1>1 DEF Start, Share
<1> QED  BY <1>2, <1>3 DEF Block

-----------------------------------------------------------------------------
(* Arithmetic of two-dimensional indices.                                  *)

\* Position i * D + d of an N by D table is inside the table, and its quotient
\* and remainder by D are i and d again.
LEMMA TableIndex ==
    ASSUME NEW N \in Nat, NEW D \in Nat \ {0},
           NEW i \in 0 .. N - 1, NEW d \in 0 .. D - 1
    PROVE  /\ i * D \in Nat /\ N * D \in Nat
           /\ i * D + d \in 0 .. N * D - 1
           /\ (i * D + d) \div D = i
           /\ (i * D + d) % D = d
<1>1. i * D \in Nat /\ N * D \in Nat  OBVIOUS
<1>2. PICK k \in Nat : N = i + 1 + k  BY SMT
<1>3. N * D = i * D + D + k * D /\ k * D \in Nat  BY <1>2
<1>4. i * D + d \in 0 .. N * D - 1  BY <1>1, <1>3
<1>5. (D * i + d) \div D = i /\ (D * i + d) % D = d
  <2>1. PICK q \in Int, r \in 0 .. D - 1 : q = (D * i + d) \div D
                        /\ r = (D * i + d) % D /\ D * i + d = D * q + r
    OBVIOUS
  <2>2. D * (i - q) = r - d  BY <2>1
  <2>3. CASE i - q >= 1
    <3>1. D * (i - q) >= D  BY <2>1, <2>3
    <3> QED  BY <2>1, <2>2, <3>1
  <2>4. CASE i - q <= -1
    <3>1. D * (i - q) <= 0 - D  BY <2>1, <2>4
    <3> QED  BY <2>1, <2>2, <3>1
  <2>5. CASE i = q  BY <2>1, <2>5
  <2> QED  BY <2>1, <2>3, <2>4, <2>5
<1>6. D * i = i * D  OBVIOUS
<1> QED  BY <1>1, <1>4, <1>5, <1>6

-----------------------------------------------------------------------------
(* The uniform stream.                                                     *)

\* The quotient and remainder of a position in a table are indices of it.
LEMMA TablePosition ==
    ASSUME NEW N \in Nat, NEW D \in Nat \ {0}, NEW j \in 1 .. N * D
    PROVE  (j - 1) \div D \in 0 .. N - 1 /\ (j - 1) % D \in 0 .. D - 1
<1>1. N * D \in Nat  OBVIOUS
<1>2. PICK x \in Int, y \in 0 .. D - 1 : x = (j - 1) \div D
                      /\ y = (j - 1) % D /\ j - 1 = D * x + y
  BY <1>1
<1>3. x >= 0
  <2>1. SUFFICES ASSUME x <= -1 PROVE FALSE  BY <1>2
  <2>2. D * x <= 0 - D  BY <1>2, <2>1
  <2> QED  BY <1>2, <2>2, <1>1
<1>4. x <= N - 1
  <2>1. SUFFICES ASSUME x >= N PROVE FALSE  BY <1>2
  <2>2. PICK k \in Nat : x = N + k  BY <2>1, <1>2, SMT
  <2>3. D * x = N * D + D * k /\ D * k \in Nat  BY <2>2
  <2> QED  BY <1>2, <2>3, <1>1
<1> QED  BY <1>2, <1>3, <1>4

\* A table of n words, as a sequence.
LEMMA TableSeq ==
    ASSUME NEW n \in Nat, NEW f \in [1 .. n -> Int]
    PROVE  f \in Seq(Int) /\ Len(f) = n
  OBVIOUS

LEMMA StreamBlocks ==
    ASSUME NEW c, CallShape(c, Int)
    PROVE  /\ PtrWords(c) \in Seq(Int) /\ Len(PtrWords(c)) = c.n
           /\ StartWords(c) \in Seq(Int) /\ Len(StartWords(c)) = c.n * c.d
           /\ OutStartWords(c) \in Seq(Int) /\ Len(OutStartWords(c)) = c.d
           /\ DimWords(c) \in Seq(Int) /\ Len(DimWords(c)) = c.d
           /\ SizeWords(c) \in Seq(Int) /\ Len(SizeWords(c)) = c.d
           /\ ScalarWords(c) \in Seq(Int) /\ Len(ScalarWords(c)) = c.s
<1>0. c.n \in Nat /\ c.d \in Nat \ {0} /\ c.s \in Nat /\ c.n * c.d \in Nat
  BY DEF CallShape
<1>1. PtrWords(c) \in [1 .. c.n -> Int]
  <2>1. \A j \in 1 .. c.n : j - 1 \in 0 .. c.n - 1  BY <1>0
  <2> QED  BY <2>1, <1>0 DEF CallShape, PtrWords
<1>2. StartWords(c) \in [1 .. c.n * c.d -> Int]
  <2>1. \A j \in 1 .. c.n * c.d : /\ (j - 1) \div c.d \in 0 .. c.n - 1
                                  /\ (j - 1) % c.d \in 0 .. c.d - 1
    BY <1>0, TablePosition
  <2>2. \A x \in 0 .. c.n - 1, y \in 0 .. c.d - 1 : c.start[x][y] \in Int
    BY DEF CallShape
  <2> QED  BY <2>1, <2>2, Zenon DEF StartWords
<1>3. OutStartWords(c) \in [1 .. c.d -> Int]
  <2>1. \A j \in 1 .. c.d : j - 1 \in 0 .. c.d - 1  BY <1>0
  <2> QED  BY <2>1, <1>0 DEF CallShape, OutStartWords
<1>4. DimWords(c) \in [1 .. c.d -> Int]
  <2>1. \A j \in 1 .. c.d : j - 1 \in 0 .. c.d - 1  BY <1>0
  <2> QED  BY <2>1, <1>0 DEF CallShape, DimWords
<1>5. SizeWords(c) \in [1 .. c.d -> Int]
  <2>1. \A j \in 1 .. c.d : j - 1 \in 0 .. c.d - 1  BY <1>0
  <2> QED  BY <2>1, <1>0 DEF CallShape, SizeWords
<1>6. ScalarWords(c) \in [1 .. c.s -> Int]
  <2>1. \A j \in 1 .. c.s : j - 1 \in 0 .. c.s - 1  BY <1>0
  <2> QED  BY <2>1, <1>0 DEF CallShape, ScalarWords
<1> QED  BY <1>0, <1>1, <1>2, <1>3, <1>4, <1>5, <1>6, TableSeq

\* r is the words of p followed by those of b.
Extended(r, p, b) ==
    /\ r \in Seq(Int)
    /\ Len(r) = Len(p) + Len(b)
    /\ \A k \in 1 .. Len(p) : r[k] = p[k]
    /\ \A k \in 1 .. Len(b) : r[Len(p) + k] = b[k]

LEMMA AppendBlock ==
    ASSUME NEW p \in Seq(Int), NEW b \in Seq(Int)
    PROVE  Extended(p \o b, p, b)
<1>1. Len(p) \in Nat /\ Len(b) \in Nat  BY LenProperties
<1>2. /\ p \o b \in Seq(Int)
      /\ Len(p \o b) = Len(p) + Len(b)
      /\ \A i \in 1 .. Len(p) + Len(b) :
           (p \o b)[i] = IF i <= Len(p) THEN p[i] ELSE b[i - Len(p)]
  BY ConcatProperties
<1>3. \A k \in 1 .. Len(p) : k \in 1 .. Len(p) + Len(b) /\ k <= Len(p)  BY <1>1
<1>4. \A k \in 1 .. Len(b) : /\ Len(p) + k \in 1 .. Len(p) + Len(b)
                             /\ ~(Len(p) + k <= Len(p))
                             /\ (Len(p) + k) - Len(p) = k
  BY <1>1
<1> QED  BY <1>1, <1>2, <1>3, <1>4 DEF Extended

\* The stream has as many words as the driver allocates, and word for word the
\* preamble pops from it what the driver meant: the reads of CompileToLLIR.cpp
\* and the writes of CodeGen.cpp are in the same order, for every number of
\* tensors, dimensions and scalars.
THEOREM StreamAgrees ==
    ASSUME NEW c, CallShape(c, Int), NEW q \in Int
    PROVE  /\ HostUniforms(c, q) \in Seq(Int)
           /\ Len(HostUniforms(c, q)) = NumUnifs(c.n, c.d, c.s)
           /\ \A i \in 0 .. c.n - 1 : HostUniforms(c, q)[UPtr(c, i)] = c.ptr[i]
           /\ HostUniforms(c, q)[UOut(c)] = c.out
           /\ \A i \in 0 .. c.n - 1, d \in 0 .. c.d - 1 :
                HostUniforms(c, q)[UStart(c, i, d)] = c.start[i][d]
           /\ \A d \in 0 .. c.d - 1 :
                /\ HostUniforms(c, q)[UOutStart(c, d)] = c.ostart[d]
                /\ HostUniforms(c, q)[UDim(c, d)] = c.dim[d]
                /\ HostUniforms(c, q)[USize(c, d)] = c.size[d]
           /\ \A k \in 0 .. c.s - 1 : HostUniforms(c, q)[UScalar(c, k)] = c.scalar[k]
           /\ HostUniforms(c, q)[UQpu(c)] = q
<1> DEFINE n == c.n
           m == c.d
           t == n * m
           s == c.s
           P1 == PtrWords(c)
           P2 == P1 \o <<c.out>>
           P3 == P2 \o StartWords(c)
           P4 == P3 \o OutStartWords(c)
           P5 == P4 \o DimWords(c)
           P6 == P5 \o SizeWords(c)
           P7 == P6 \o ScalarWords(c)
           P8 == P7 \o <<q>>
<1>1. n \in Nat /\ m \in Nat \ {0} /\ s \in Nat /\ t \in Nat /\ c.out \in Int
  BY DEF CallShape
<1>2. /\ P1 \in Seq(Int) /\ Len(P1) = n
      /\ StartWords(c) \in Seq(Int) /\ Len(StartWords(c)) = t
      /\ OutStartWords(c) \in Seq(Int) /\ Len(OutStartWords(c)) = m
      /\ DimWords(c) \in Seq(Int) /\ Len(DimWords(c)) = m
      /\ SizeWords(c) \in Seq(Int) /\ Len(SizeWords(c)) = m
      /\ ScalarWords(c) \in Seq(Int) /\ Len(ScalarWords(c)) = s
  BY StreamBlocks
<1>3. /\ <<c.out>> \in Seq(Int) /\ Len(<<c.out>>) = 1 /\ <<c.out>>[1] = c.out
      /\ <<q>> \in Seq(Int) /\ Len(<<q>>) = 1 /\ <<q>>[1] = q
  BY <1>1
<1>4. HostUniforms(c, q) = P8  BY DEF HostUniforms
<1>5. Extended(P2, P1, <<c.out>>) /\ P2 \in Seq(Int)
  BY <1>2, <1>3, AppendBlock DEF Extended
<1> HIDE DEF P1, P2, n, m, t, s
<1>6. Extended(P3, P2, StartWords(c)) /\ P3 \in Seq(Int)
  BY <1>2, <1>5, AppendBlock DEF Extended
<1> HIDE DEF P3
<1>7. Extended(P4, P3, OutStartWords(c)) /\ P4 \in Seq(Int)
  BY <1>2, <1>6, AppendBlock DEF Extended
<1> HIDE DEF P4
<1>8. Extended(P5, P4, DimWords(c)) /\ P5 \in Seq(Int)
  BY <1>2, <1>7, AppendBlock DEF Extended
<1> HIDE DEF P5
<1>9. Extended(P6, P5, SizeWords(c)) /\ P6 \in Seq(Int)
  BY <1>2, <1>8, AppendBlock DEF Extended
<1> HIDE DEF P6
<1>10. Extended(P7, P6, ScalarWords(c)) /\ P7 \in Seq(Int)
  BY <1>2, <1>9, AppendBlock DEF Extended
<1> HIDE DEF P7
<1>11. Extended(P8, P7, <<q>>)
  BY <1>3, <1>10, AppendBlock
<1> HIDE DEF P8
<1>12. /\ Len(P2) = n + 1
       /\ Len(P3) = n + 1 + t
       /\ Len(P4) = n + 1 + t + m
       /\ Len(P5) = n + 1 + t + m + m
       /\ Len(P6) = n + 1 + t + m + m + m
       /\ Len(P7) = n + 1 + t + m + m + m + s
       /\ Len(P8) = n + 1 + t + m + m + m + s + 1
  BY <1>1, <1>2, <1>3, <1>5, <1>6, <1>7, <1>8, <1>9, <1>10, <1>11 DEF Extended
<1>13. /\ \A k \in 1 .. n + 1 + t + m + m + m + s : P8[k] = P7[k]
       /\ \A k \in 1 .. n + 1 + t + m + m + m : P8[k] = P6[k]
       /\ \A k \in 1 .. n + 1 + t + m + m : P8[k] = P5[k]
       /\ \A k \in 1 .. n + 1 + t + m : P8[k] = P4[k]
       /\ \A k \in 1 .. n + 1 + t : P8[k] = P3[k]
       /\ \A k \in 1 .. n + 1 : P8[k] = P2[k]
       /\ \A k \in 1 .. n : P8[k] = P1[k]
  <2>1. \A k \in 1 .. n + 1 + t + m + m + m + s : P8[k] = P7[k]
    BY <1>11, <1>12 DEF Extended
  <2>2. \A k \in 1 .. n + 1 + t + m + m + m : P8[k] = P6[k]
    <3>1. \A k \in 1 .. n + 1 + t + m + m + m : k \in 1 .. n + 1 + t + m + m + m + s
      BY <1>1
    <3>2. \A k \in 1 .. n + 1 + t + m + m + m : P7[k] = P6[k]
      BY <1>10, <1>12 DEF Extended
    <3> QED  BY <2>1, <3>1, <3>2
  <2>3. \A k \in 1 .. n + 1 + t + m + m : P8[k] = P5[k]
    BY <2>2, <1>1, <1>9, <1>12 DEF Extended
  <2>4. \A k \in 1 .. n + 1 + t + m : P8[k] = P4[k]
    BY <2>3, <1>1, <1>8, <1>12 DEF Extended
  <2>5. \A k \in 1 .. n + 1 + t : P8[k] = P3[k]
    BY <2>4, <1>1, <1>7, <1>12 DEF Extended
  <2>6. \A k \in 1 .. n + 1 : P8[k] = P2[k]
    BY <2>5, <1>1, <1>6, <1>12 DEF Extended
  <2>7. \A k \in 1 .. n : P8[k] = P1[k]
    BY <2>6, <1>1, <1>2, <1>5, <1>12 DEF Extended
  <2> QED  BY <2>1, <2>2, <2>3, <2>4, <2>5, <2>6, <2>7
<1>14. (n + 1) * m = t + m /\ (n + 2) * m = t + m + m /\ (n + 3) * m = t + m + m + m
  BY <1>1 DEF t
<1>15. \A i \in 0 .. n - 1 : P8[UPtr(c, i)] = c.ptr[i]
  <2> SUFFICES ASSUME NEW i \in 0 .. n - 1 PROVE P8[1 + i] = c.ptr[i]  BY DEF UPtr
  <2>1. 1 + i \in 1 .. n /\ (1 + i) - 1 = i  BY <1>1
  <2>2. P8[1 + i] = P1[1 + i]  BY <1>13, <2>1
  <2> QED  BY <2>1, <2>2 DEF P1, PtrWords, n
<1>16. P8[UOut(c)] = c.out
  <2>1. P2[n + 1] = c.out  BY <1>2, <1>3, <1>5 DEF Extended
  <2>2. n + 1 \in 1 .. n + 1  BY <1>1
  <2> QED  BY <2>1, <2>2, <1>13 DEF UOut, n
<1>17. \A i \in 0 .. n - 1, d \in 0 .. m - 1 : P8[UStart(c, i, d)] = c.start[i][d]
  <2> SUFFICES ASSUME NEW i \in 0 .. n - 1, NEW d \in 0 .. m - 1
               PROVE  P8[UStart(c, i, d)] = c.start[i][d]
    OBVIOUS
  <2>1. /\ i * m + d \in 0 .. t - 1
        /\ (i * m + d) \div m = i /\ (i * m + d) % m = d
    BY <1>1, TableIndex DEF t
  <2>2. PICK x \in Int : x = i * m + d  BY <2>1, <1>1
  <2>3. UStart(c, i, d) = n + 1 + (x + 1)
    <3>1. UStart(c, i, d) = n + 2 + i * m + d  BY DEF UStart, n, m
    <3>2. i * m \in Int  BY <1>1
    <3> QED  BY <1>1, <2>2, <3>1, <3>2
  <2>4. x + 1 \in 1 .. t /\ (x + 1) - 1 = x /\ n + 1 + (x + 1) \in 1 .. n + 1 + t
    BY <1>1, <2>1, <2>2
  <2>5. P8[n + 1 + (x + 1)] = P3[n + 1 + (x + 1)]  BY <1>13, <2>4
  <2>6. P3[n + 1 + (x + 1)] = StartWords(c)[x + 1]
    BY <1>2, <1>6, <1>12, <2>4 DEF Extended
  <2>7. StartWords(c)[x + 1] = c.start[((x + 1) - 1) \div m][((x + 1) - 1) % m]
    BY <2>4 DEF StartWords, n, m, t
  <2> QED  BY <2>1, <2>2, <2>3, <2>4, <2>5, <2>6, <2>7
<1>18. \A d \in 0 .. m - 1 : /\ P8[UOutStart(c, d)] = c.ostart[d]
                             /\ P8[UDim(c, d)] = c.dim[d]
                             /\ P8[USize(c, d)] = c.size[d]
  <2> SUFFICES ASSUME NEW d \in 0 .. m - 1
               PROVE  /\ P8[UOutStart(c, d)] = c.ostart[d]
                      /\ P8[UDim(c, d)] = c.dim[d]
                      /\ P8[USize(c, d)] = c.size[d]
    OBVIOUS
  <2>1. d + 1 \in 1 .. m /\ (d + 1) - 1 = d  BY <1>1
  <2>2. /\ UOutStart(c, d) = n + 1 + t + (d + 1)
        /\ UDim(c, d) = n + 1 + t + m + (d + 1)
        /\ USize(c, d) = n + 1 + t + m + m + (d + 1)
    <3>1. /\ UOutStart(c, d) = n + 2 + t + d
          /\ UDim(c, d) = n + 2 + (n + 1) * m + d
          /\ USize(c, d) = n + 2 + (n + 2) * m + d
      BY DEF UOutStart, UDim, USize, n, m, t
    <3> QED  BY <3>1, <1>1, <1>14
  <2>3. /\ P4[n + 1 + t + (d + 1)] = OutStartWords(c)[d + 1]
        /\ P5[n + 1 + t + m + (d + 1)] = DimWords(c)[d + 1]
        /\ P6[n + 1 + t + m + m + (d + 1)] = SizeWords(c)[d + 1]
    BY <1>2, <1>7, <1>8, <1>9, <1>12, <2>1 DEF Extended
  <2>4. /\ n + 1 + t + (d + 1) \in 1 .. n + 1 + t + m
        /\ n + 1 + t + m + (d + 1) \in 1 .. n + 1 + t + m + m
        /\ n + 1 + t + m + m + (d + 1) \in 1 .. n + 1 + t + m + m + m
    BY <1>1, <2>1
  <2>5. /\ OutStartWords(c)[d + 1] = c.ostart[(d + 1) - 1]
        /\ DimWords(c)[d + 1] = c.dim[(d + 1) - 1]
        /\ SizeWords(c)[d + 1] = c.size[(d + 1) - 1]
    BY <2>1 DEF OutStartWords, DimWords, SizeWords, m
  <2> QED  BY <2>1, <2>2, <2>3, <2>4, <2>5, <1>13
<1>19. \A k \in 0 .. s - 1 : P8[UScalar(c, k)] = c.scalar[k]
  <2> SUFFICES ASSUME NEW k \in 0 .. s - 1 PROVE P8[UScalar(c, k)] = c.scalar[k]
    OBVIOUS
  <2>1. k + 1 \in 1 .. s /\ (k + 1) - 1 = k  BY <1>1
  <2>2. UScalar(c, k) = n + 1 + t + m + m + m + (k + 1)
    <3>1. UScalar(c, k) = n + 2 + (n + 3) * m + k  BY DEF UScalar, n, m
    <3> QED  BY <3>1, <1>1, <1>14
  <2>3. P7[n + 1 + t + m + m + m + (k + 1)] = ScalarWords(c)[k + 1]
    BY <1>2, <1>10, <1>12, <2>1 DEF Extended
  <2>4. n + 1 + t + m + m + m + (k + 1) \in 1 .. n + 1 + t + m + m + m + s
    BY <1>1, <2>1
  <2>5. ScalarWords(c)[k + 1] = c.scalar[(k + 1) - 1]
    BY <2>1 DEF ScalarWords, s
  <2> QED  BY <2>1, <2>2, <2>3, <2>4, <2>5, <1>13
<1>20. P8[UQpu(c)] = q
  <2>1. UQpu(c) = n + 2 + (n + 3) * m + s  BY DEF UQpu, n, m, s
  <2>2. UQpu(c) = n + 1 + t + m + m + m + s + 1  BY <2>1, <1>1, <1>14
  <2>3. P8[n + 1 + t + m + m + m + s + 1] = q  BY <1>3, <1>11, <1>12 DEF Extended
  <2> QED  BY <2>2, <2>3
<1>21. Len(P8) = NumUnifs(c.n, c.d, c.s)
  <2>1. NumUnifs(c.n, c.d, c.s) = n + 1 + (n + 1) * m + 2 * m + s + 1
    BY DEF NumUnifs, n, m, s
  <2> QED  BY <2>1, <1>1, <1>12, <1>14
<1>22. P8 \in Seq(Int)  BY <1>11 DEF Extended
<1> QED  BY <1>4, <1>15, <1>16, <1>17, <1>18, <1>19, <1>20, <1>21, <1>22 DEF n, m, s

-----------------------------------------------------------------------------
(* Registers.                                                              *)

\* Register file A: within the emitter's assertion every pointer, slice start,
\* stride, iteration count and scalar is in one of the 32 registers ...
THEOREM RaInRange ==
    ASSUME NEW N \in Nat, NEW D \in Nat \ {0}, NEW S \in Nat, RaFits(N, D, S)
    PROVE  /\ \A i \in 0 .. N - 1 : RaPtr(N, D, i) \in 0 .. 31
           /\ RaOut(N, D) \in 0 .. 31
           /\ \A i \in 0 .. N - 1, d \in 0 .. D - 1 : RaStart(N, D, i, d) \in 0 .. 31
           /\ \A d \in 0 .. D - 1 : /\ RaOutStart(N, D, d) \in 0 .. 31
                                    /\ RaStride(N, D, d) \in 0 .. 31
                                    /\ RaIters(N, D, d) \in 0 .. 31
           /\ \A s \in 0 .. S - 1 : RaScalar(N, D, s) \in 0 .. 31
<1>1. N * D \in Nat /\ (N + 1) * D = N * D + D  OBVIOUS
<1> DEFINE t == N * D
<1>2. t \in Nat /\ (N + 1) * D = t + D  BY <1>1
<1>3. \A i \in 0 .. N - 1, d \in 0 .. D - 1 : i * D + d \in 0 .. t - 1
  BY TableIndex
<1>4. \A i \in 0 .. N - 1, d \in 0 .. D - 1 : RaStart(N, D, i, d) = N + 1 + (i * D + d)
  BY DEF RaStart
<1> HIDE DEF t
<1>5. N + 1 + (t + D) + 2 * D + S - 1 < 32  BY <1>2 DEF RaFits
<1>6. \A i \in 0 .. N - 1 : RaPtr(N, D, i) \in 0 .. 31  BY <1>2, <1>5 DEF RaPtr
<1>7. RaOut(N, D) \in 0 .. 31  BY <1>2, <1>5 DEF RaOut
<1>8. \A i \in 0 .. N - 1, d \in 0 .. D - 1 : RaStart(N, D, i, d) \in 0 .. 31
  <2>1. \A x \in 0 .. t - 1 : N + 1 + x \in 0 .. 31  BY <1>2, <1>5
  <2> QED  BY <1>3, <1>4, <2>1
<1>9. \A d \in 0 .. D - 1 : /\ RaOutStart(N, D, d) \in 0 .. 31
                            /\ RaStride(N, D, d) \in 0 .. 31
                            /\ RaIters(N, D, d) \in 0 .. 31
  BY <1>2, <1>5 DEF RaOutStart, RaStride, RaIters, t
<1>10. \A s \in 0 .. S - 1 : RaScalar(N, D, s) \in 0 .. 31
  BY <1>2, <1>5 DEF RaScalar
<1> QED  BY <1>6, <1>7, <1>8, <1>9, <1>10

\* ... no two input slice starts share one ...
THEOREM RaStartsDistinct ==
    ASSUME NEW N \in Nat, NEW D \in Nat \ {0},
           NEW i \in 0 .. N - 1, NEW d \in 0 .. D - 1,
           NEW j \in 0 .. N - 1, NEW e \in 0 .. D - 1,
           RaStart(N, D, i, d) = RaStart(N, D, j, e)
    PROVE  i = j /\ d = e
<1>1. i * D + d = j * D + e
  <2>1. i * D \in Int /\ j * D \in Int  OBVIOUS
  <2> QED  BY <2>1 DEF RaStart
<1>2. (i * D + d) \div D = i /\ (i * D + d) % D = d  BY TableIndex
<1>3. (j * D + e) \div D = j /\ (j * D + e) % D = e  BY TableIndex
<1> QED  BY <1>1, <1>2, <1>3

\* ... and the groups of registers do not overlap: pointers, output pointer, slice
\* starts, output starts, strides, iteration counts and scalars follow each other.
THEOREM RaGroupsApart ==
    ASSUME NEW N \in Nat, NEW D \in Nat \ {0},
           NEW i \in 0 .. N - 1, NEW j \in 0 .. N - 1,
           NEW a \in 0 .. D - 1, NEW b \in 0 .. D - 1,
           NEW d \in 0 .. D - 1, NEW e \in 0 .. D - 1, NEW s \in Nat
    PROVE  /\ RaPtr(N, D, i) < RaOut(N, D)
           /\ RaOut(N, D) < RaStart(N, D, j, a)
           /\ RaStart(N, D, j, a) < RaOutStart(N, D, b)
           /\ RaOutStart(N, D, b) < RaStride(N, D, d)
           /\ RaStride(N, D, d) < RaIters(N, D, e)
           /\ RaIters(N, D, e) < RaScalar(N, D, s)
<1>1. j * D + a \in 0 .. N * D - 1  BY TableIndex
<1>2. RaStart(N, D, j, a) = N + 1 + (j * D + a)  BY DEF RaStart
<1> DEFINE t == N * D
           x == j * D + a
<1>3. t \in Nat /\ (N + 1) * D = t + D  OBVIOUS
<1>4. x \in 0 .. t - 1  BY <1>1
<1>5. /\ RaOutStart(N, D, b) = N + 1 + t + b
      /\ RaStride(N, D, d) = N + 1 + (N + 1) * D + d
      /\ RaIters(N, D, e) = N + 1 + (N + 1) * D + D + e
      /\ RaScalar(N, D, s) = N + 1 + (N + 1) * D + 2 * D + s
  BY DEF RaOutStart, RaStride, RaIters, RaScalar
<1>6. RaStart(N, D, j, a) = N + 1 + x  BY <1>2
<1> HIDE DEF t, x
<1> QED  BY <1>3, <1>4, <1>5, <1>6 DEF RaPtr, RaOut

\* Register file B: constants, loop counters, pointers and accumulators are in
\* that order, apart from each other, and within the 32 registers; the dimension
\* and slice sizes the preamble parks in rb 0 .. 2D - 1 fit as well.
THEOREM RbApart ==
    ASSUME NEW N \in Nat \ {0}, NEW D \in Nat \ {0}, NEW S \in Nat,
           RbFits(N, D), RaFits(N, D, S),
           NEW d \in 0 .. D - 1, NEW i \in 0 .. N - 1,
           NEW k \in 0 .. 7
    PROVE  /\ 3 < RbCounter(N, D, d)
           /\ RbCounter(N, D, d) < RbPtr(N, D, i)
           /\ RbPtr(N, D, i) < RbTile(N, D, k)
           /\ RbTile(N, D, k) \in 0 .. 31
           /\ 2 * D - 1 \in 0 .. 31
<1>1. (N + 1) * D = N * D + D /\ N * D \in Nat  OBVIOUS
<1> QED  BY <1>1 DEF RbFits, RaFits, RbCounter, RbPtr, RbTile

-----------------------------------------------------------------------------
(* The invariant.                                                          *)

\* The streams are those the driver wrote.
UnifOK == unif = [q \in QPU |-> HostUniforms(call, q)]

\* A transfer is in flight only while its QPU is about to wait for it.
InFlight ==
    \A q \in QPU : /\ load[q] # None => pc[q] = "take"
                   /\ store[q] # None => pc[q] = "drain"

IInv == TypeOK /\ UnifOK /\ InFlight /\ StagedIntact

-----------------------------------------------------------------------------
(* Arithmetic of the machine.                                              *)

LEMMA Machine ==
    /\ NQ \in Nat \ {0} /\ TILES \in Nat \ {0} /\ LANES \in Nat \ {0}
    /\ ROWS \in Nat /\ NQ * TILES <= ROWS /\ NQ * TILES \in Nat
    /\ GROUP \in Nat \ {0}
    /\ WORD \in Nat /\ WORD > 4 /\ W24 \in Nat \ {0}
<1>1. TILES * LANES \in Nat \ {0}  BY MachineAssumption
<1>2. NQ * TILES \in Nat  BY MachineAssumption, NQAssumption
<1> DEFINE g == TILES * LANES
<1>3. g \in Nat \ {0}  BY <1>1
<1>4. 4 * g < WORD  BY MachineAssumption DEF GROUP
<1> HIDE DEF g
<1>5. WORD > 4  BY <1>3, <1>4, MachineAssumption
<1> QED  BY <1>1, <1>2, <1>5, MachineAssumption, NQAssumption DEF GROUP

LEMMA WordsNat == \A w \in Words : w \in Nat /\ w \in Int
  BY Machine DEF Words

LEMMA ModWord == \A x \in Int : x % WORD \in Words
  BY Machine DEF Words

LEMMA Mul24Word == \A a, b \in Int : Mul24(a, b) \in Words /\ Mul24(a, b) \in Int
<1> SUFFICES ASSUME NEW a \in Int, NEW b \in Int PROVE Mul24(a, b) \in Words
  BY WordsNat
<1>1. a % W24 \in Int /\ b % W24 \in Int  BY Machine
<1>2. (a % W24) * (b % W24) \in Int  BY <1>1
<1> QED  BY <1>2, ModWord DEF Mul24

\* What a QPU finds in its uniforms.
LEMMA StreamFacts ==
    ASSUME TypeOK, UnifOK, NEW q \in QPU
    PROVE  /\ call.d \in Nat \ {0} /\ call.n \in Nat \ {0} /\ call.s \in Nat
           /\ QNum(q) = q
           /\ unif[q][UOut(call)] \in Words
           /\ \A i \in Inputs : unif[q][UPtr(call, i)] \in Words
           /\ \A i \in Inputs, d \in Dims : unif[q][UStart(call, i, d)] \in Words
           /\ \A d \in Dims : /\ unif[q][UOutStart(call, d)] \in Words
                              /\ Dim(q, d) = call.dim[d] /\ call.dim[d] \in Words
                              /\ Size(q, d) = call.size[d] /\ call.size[d] \in Words
<1>1. CallOK(call)  BY CallsAssumption DEF TypeOK
<1>2. CallShape(call, Words)  BY <1>1 DEF CallOK
<1>3. Words \subseteq Int  BY Machine DEF Words
<1>4. CallShape(call, Int)  BY <1>2, <1>3 DEF CallShape
<1>5. q \in Int  BY Machine DEF QPU
<1>6. unif[q] = HostUniforms(call, q)  BY DEF UnifOK
<1>7. /\ call.out \in Words
      /\ \A i \in Inputs : call.ptr[i] \in Words
      /\ \A i \in Inputs, d \in Dims : call.start[i][d] \in Words
      /\ \A d \in Dims : /\ call.ostart[d] \in Words
                         /\ call.dim[d] \in Words /\ call.size[d] \in Words
  BY <1>2 DEF CallShape, Inputs, Dims
<1>8. /\ HostUniforms(call, q)[UQpu(call)] = q
      /\ HostUniforms(call, q)[UOut(call)] = call.out
      /\ \A i \in Inputs : HostUniforms(call, q)[UPtr(call, i)] = call.ptr[i]
      /\ \A i \in Inputs, d \in Dims :
           HostUniforms(call, q)[UStart(call, i, d)] = call.start[i][d]
      /\ \A d \in Dims : /\ HostUniforms(call, q)[UOutStart(call, d)] = call.ostart[d]
                         /\ HostUniforms(call, q)[UDim(call, d)] = call.dim[d]
                         /\ HostUniforms(call, q)[USize(call, d)] = call.size[d]
  BY <1>4, <1>5, StreamAgrees DEF Inputs, Dims
<1>9. call.d \in Nat \ {0} /\ call.n \in Nat \ {0} /\ call.s \in Nat
  BY <1>2 DEF CallShape
<1> QED  BY <1>6, <1>7, <1>8, <1>9 DEF QNum, Dim, Size

\* Iteration counts and block offsets are numbers.
LEMMA SplitFacts ==
    ASSUME TypeOK, UnifOK, NEW q \in QPU, NEW d \in Dims
    PROVE  /\ Units(q, d) \in Nat
           /\ NumIter(q, d) \in Nat
           /\ BlockOffset(q) \in Int
<1>1. \A e \in Dims : Units(q, e) \in Nat
  <2> SUFFICES ASSUME NEW e \in Dims PROVE Units(q, e) \in Nat  OBVIOUS
  <2>1. Size(q, e) \in Nat  BY StreamFacts, Machine DEF Words
  <2>2. e = 0 => Size(q, 0) \div GROUP \in Nat  BY <2>1, Machine
  <2> QED  BY <2>1, <2>2 DEF Units
<1>2. QNum(q) = q /\ q \in Nat  BY StreamFacts, Machine DEF QPU
<1>3. \A n \in Nat : Share(q, n) \in Nat /\ Start(q, n) \in Int
  <2> SUFFICES ASSUME NEW n \in Nat PROVE Share(q, n) \in Nat /\ Start(q, n) \in Int
    OBVIOUS
  <2>1. Base(n) \in Nat /\ Rem(n) \in Nat  BY DivisionFacts, NQAssumption
  <2>2. q * Base(n) \in Int  BY <2>1, <1>2
  <2> QED  BY <2>1, <2>2, <1>2 DEF Share, Start
<1>4. call.d - 1 \in Dims  BY StreamFacts DEF Dims
<1>5. BlockOffset(q) \in Int
  <2>1. Start(q, Units(q, call.d - 1)) \in Int  BY <1>1, <1>3, <1>4
  <2>2. (IF call.d = 1 THEN GROUP ELSE 1) \in Int  BY Machine
  <2> QED  BY <2>1, <2>2, <1>2 DEF BlockOffset
<1> QED  BY <1>1, <1>2, <1>3, <1>5 DEF NumIter

-----------------------------------------------------------------------------
(* The rows of the VPM.                                                    *)

\* The three setup words select the same row, and it is row k of band q.
LEMMA SameRows ==
    ASSUME TypeOK, UnifOK, NEW q \in QPU, NEW k \in Tiles
    PROVE  /\ VpmRow(q, k) = q * TILES + k
           /\ LoadRow(q, k) = q * TILES + k
           /\ StoreRow(q, k) = q * TILES + k
           /\ q * TILES + k \in 0 .. ROWS - 1
<1>1. QNum(q) = q /\ q \in 0 .. NQ - 1 /\ k \in 0 .. TILES - 1
  BY StreamFacts DEF QPU, Tiles
<1>2. q * TILES \in Nat /\ q * TILES + k \in 0 .. NQ * TILES - 1
  BY <1>1, Machine, TableIndex
<1> DEFINE b == q * TILES
<1>3. b \in Nat  BY <1>2
<1>4. /\ Rb1(q) = b
      /\ Rb2(q) = b * 16
      /\ Rb3(q) = b * 128
  BY <1>1 DEF Rb1, Rb2, Rb3
<1>5. b + k \in 0 .. ROWS - 1
  BY <1>2, Machine
<1> HIDE DEF b
<1>6. (b * 16) \div 16 = b /\ (b * 128) \div 128 = b  BY <1>3
<1>7. (b + k) % ROWS = b + k  BY <1>5, Machine
<1> QED  BY <1>4, <1>5, <1>6, <1>7 DEF VpmRow, LoadRow, StoreRow, b

\* A row belongs to one tile of one QPU.
LEMMA RowsDistinct ==
    ASSUME NEW p \in QPU, NEW j \in Tiles, NEW q \in QPU, NEW k \in Tiles,
           p * TILES + j = q * TILES + k
    PROVE  p = q /\ j = k
<1>1. (p * TILES + j) \div TILES = p /\ (p * TILES + j) % TILES = j
  BY Machine, TableIndex DEF QPU, Tiles
<1>2. (q * TILES + k) \div TILES = q /\ (q * TILES + k) % TILES = k
  BY Machine, TableIndex DEF QPU, Tiles
<1> QED  BY <1>1, <1>2

-----------------------------------------------------------------------------
(* Type correctness.                                                       *)

LEMMA CallFacts ==
    ASSUME TypeOK
    PROVE  /\ CallOK(call) /\ CallShape(call, Words)
           /\ Len(call.steps) \in Nat \ {0}
           /\ \A j \in 1 .. Len(call.steps) : StepOK(call, call.steps[j])
           /\ 0 \in Dims /\ call.d - 1 \in Dims
           /\ \A q \in QPU : pc[q] \in {"body", "take"} /\ pos[q] \in 1 .. Len(call.steps)
                              /\ Step(q).ti # None => Step(q).ti \in Inputs
<1>1. CallOK(call)  BY CallsAssumption DEF TypeOK
<1>2. \A q \in QPU : pos[q] \in 1 .. Len(call.steps) => StepOK(call, Step(q))
  BY <1>1 DEF CallOK, Step
<1> QED  BY <1>1, <1>2 DEF CallOK, CallShape, Dims, Inputs, StepOK

\* Going to a label with a position that exists there keeps the control sound.
LEMMA GoToControl ==
    ASSUME TypeOK, call' = call, NEW p \in QPU, NEW label \in Labels, NEW n \in Nat,
           GoTo(p, label, n),
           label \in {"setup", "loop"} => n \in Dims,
           label = "take" => n \in 1 .. Len(call.steps) /\ call.steps[n].ti # None,
           label = "body" => n \in 1 .. Len(call.steps) + 1
    PROVE  ControlOK'
<1>1. pc' \in [QPU -> Labels] /\ pos' \in [QPU -> Nat]
  BY DEF GoTo, TypeOK, ControlOK
<1>2. pc'[p] = label /\ pos'[p] = n
  BY DEF GoTo, TypeOK, ControlOK
<1>3. \A q \in QPU : q # p => pc'[q] = pc[q] /\ pos'[q] = pos[q]
  BY DEF GoTo, TypeOK, ControlOK
<1>4. ASSUME NEW q \in QPU
      PROVE  /\ pc'[q] \in {"setup", "loop"} => pos'[q] \in Dims'
             /\ pc'[q] = "take" => pos'[q] \in 1 .. Len(call'.steps) /\ Step(q)'.ti # None
             /\ pc'[q] = "body" => pos'[q] \in 1 .. Len(call'.steps) + 1
  <2>1. CASE q = p  BY <2>1, <1>2 DEF Dims, Step
  <2>2. CASE q # p  BY <2>2, <1>3 DEF TypeOK, ControlOK, Dims, Step
  <2> QED  BY <2>1, <2>2
<1> QED  BY <1>1, <1>4 DEF ControlOK

-----------------------------------------------------------------------------

\* No step writes a uniform or the arguments of the call.
LEMMA StepStreams ==
    ASSUME UnifOK, [Next]_vars
    PROVE  UnifOK'
<1>1. call' = call /\ unif' = unif
  BY DEF Next, vars, QpuStep, Preamble, SetupDim, ScalarStep, IssueLoad, DmaLoad,
         TakeTiles, PackTiles, IssueStore, DmaStore, Advance, LoopAgain, LoopExit
<1> QED  BY <1>1 DEF UnifOK, HostUniforms, PtrWords, StartWords, OutStartWords,
         DimWords, SizeWords, ScalarWords

\* Every step keeps the type invariant.
LEMMA StepType ==
    ASSUME TypeOK, UnifOK, [Next]_vars
    PROVE  TypeOK'
<1> USE DEF TypeOK
<1>1. CASE UNCHANGED vars
  BY <1>1 DEF vars, ControlOK, RegistersOK, SharedOK, Dims, Inputs, Step
<1> SUFFICES ASSUME NEW p \in QPU, QpuStep(p) \/ DmaLoad(p) \/ DmaStore(p)
             PROVE  TypeOK'
  BY <1>1 DEF Next
<1>2. call' = call
  BY DEF QpuStep, Preamble, SetupDim, ScalarStep, IssueLoad, DmaLoad, TakeTiles,
         PackTiles, IssueStore, DmaStore, Advance, LoopAgain, LoopExit
<1>3. Dims' = Dims /\ Inputs' = Inputs  BY <1>2 DEF Dims, Inputs
<1>4. pos[p] \in Nat  BY DEF ControlOK
<1>5. CASE Preamble(p)
  <2> USE <1>5 DEF Preamble
  <2>1. ControlOK'  BY <1>2, CallFacts, GoToControl DEF Labels
  <2>2. RegistersOK'
    <3>1. [i \in Inputs |-> unif[p][UPtr(call, i)]] \in [Inputs -> Words]
      BY StreamFacts
    <3>2. unif[p][UOut(call)] \in Words  BY StreamFacts
    <3> QED  BY <1>3, <3>1, <3>2 DEF RegistersOK
  <2>3. SharedOK'  BY DEF SharedOK
  <2> QED  BY <1>2, <2>1, <2>2, <2>3
<1>6. CASE SetupDim(p)
  <2> DEFINE d == pos[p]
             w == IF d = 0 THEN 4 ELSE Mul24(stride[p][d - 1], Dim(p, d - 1))
             Moved(x, start) == (x + Mul24(Shifted(p, d, start), w)) % WORD
  <2>1. d \in Dims  BY <1>6 DEF SetupDim, ControlOK
  <2>2. call.d \in Nat \ {0}  BY StreamFacts
  <2>3. w \in Words
    <3>1. CASE d = 0  BY <3>1, Machine DEF Words
    <3>2. CASE d # 0
      <4>1. d - 1 \in Dims  BY <2>1, <2>2, <3>2 DEF Dims
      <4>2. stride[p][d - 1] \in Int /\ Dim(p, d - 1) \in Int
        <5>1. stride[p][d - 1] \in Words  BY <4>1 DEF RegistersOK
        <5>2. Dim(p, d - 1) \in Words  BY <4>1, StreamFacts
        <5> QED  BY <5>1, <5>2, WordsNat
      <4> QED  BY <3>2, <4>2, Mul24Word
    <3> QED  BY <3>1, <3>2
  <2>4. \A x, start \in Words : Moved(x, start) \in Words
    <3> SUFFICES ASSUME NEW x \in Words, NEW start \in Words
                 PROVE  Moved(x, start) \in Words
      OBVIOUS
    <3>1. x \in Int /\ start \in Int /\ w \in Int  BY <2>3, Machine DEF Words
    <3>2. Shifted(p, d, start) \in Int  BY <2>1, <3>1, SplitFacts DEF Shifted
    <3>3. Mul24(Shifted(p, d, start), w) \in Int
      BY <3>1, <3>2, Mul24Word
    <3> QED  BY <3>1, <3>3, ModWord
  <2> HIDE DEF w
  <2>5. ControlOK'
    <3>1. CASE Outermost(p)
      BY <1>2, <1>6, <3>1, CallFacts, GoToControl DEF SetupDim, Labels
    <3>2. CASE ~Outermost(p)
      <4>1. d + 1 \in Dims  BY <2>1, <2>2, <3>2 DEF Dims, Outermost
      <4>2. GoTo(p, "setup", d + 1)  BY <1>6, <3>2 DEF SetupDim
      <4> QED  BY <1>2, <1>4, <4>1, <4>2, GoToControl DEF Labels
    <3> QED  BY <3>1, <3>2
  <2>6. RegistersOK'
    <3>1. stride' \in [QPU -> [Dims -> Words]]
      BY <1>6, <2>3 DEF SetupDim, RegistersOK, w
    <3>2. ptr' \in [QPU -> [Inputs -> Words]]
      <4>1. ptr' = [ptr EXCEPT ![p] =
                      [i \in Inputs |-> Moved(ptr[p][i], unif[p][UStart(call, i, d)])]]
        BY <1>6 DEF SetupDim, w
      <4>2. [i \in Inputs |-> Moved(ptr[p][i], unif[p][UStart(call, i, d)])]
              \in [Inputs -> Words]
        <5> HIDE DEF Moved
        <5>1. \A i \in Inputs : ptr[p][i] \in Words  BY DEF RegistersOK
        <5>2. \A i \in Inputs : unif[p][UStart(call, i, d)] \in Words
          BY <2>1, StreamFacts
        <5> QED  BY <2>4, <5>1, <5>2
      <4> HIDE DEF Moved
      <4> QED  BY <4>1, <4>2 DEF RegistersOK
    <3>3. outp' \in [QPU -> Words]
      <4>1. outp' = [outp EXCEPT ![p] = Moved(outp[p], unif[p][UOutStart(call, d)])]
        BY <1>6 DEF SetupDim, w
      <4>2. outp[p] \in Words /\ unif[p][UOutStart(call, d)] \in Words
        BY <2>1, StreamFacts DEF RegistersOK
      <4> HIDE DEF Moved
      <4> QED  BY <2>4, <4>1, <4>2 DEF RegistersOK
    <3>4. counter' \in [QPU -> [Dims -> Nat]]
      <4>1. [e \in Dims |-> NumIter(p, e)] \in [Dims -> Nat]  BY SplitFacts
      <4>2. counter' = counter \/ counter' = [counter EXCEPT ![p] = [e \in Dims |-> NumIter(p, e)]]
        BY <1>6 DEF SetupDim
      <4> QED  BY <4>1, <4>2 DEF RegistersOK
    <3> QED  BY <1>3, <3>1, <3>2, <3>3, <3>4 DEF RegistersOK
  <2>7. SharedOK'  BY <1>6 DEF SetupDim, SharedOK
  <2> QED  BY <1>2, <2>5, <2>6, <2>7
<1>7. CASE ScalarStep(p)
  <2>1. pos[p] \in 1 .. Len(call.steps) /\ GoTo(p, "body", pos[p] + 1)
    BY <1>7 DEF ScalarStep, InBody
  <2>2. ControlOK'
    <3>1. pos[p] + 1 \in 1 .. Len(call.steps) + 1 /\ pos[p] + 1 \in Nat
      BY <2>1, CallFacts
    <3> QED  BY <1>2, <2>1, <3>1, GoToControl DEF Labels
  <2>3. RegistersOK'  BY <1>3, <1>7 DEF ScalarStep, regs, RegistersOK
  <2>4. SharedOK'  BY <1>7 DEF ScalarStep, SharedOK
  <2> QED  BY <1>2, <2>2, <2>3, <2>4
<1>8. CASE IssueLoad(p)
  <2>1. pos[p] \in 1 .. Len(call.steps) /\ Step(p).ti # None
        /\ GoTo(p, "take", pos[p]) /\ pc[p] = "body"
    BY <1>8 DEF IssueLoad, InBody
  <2>2. ControlOK'  BY <1>2, <1>4, <2>1, GoToControl DEF Labels, Step
  <2>3. RegistersOK'  BY <1>3, <1>8 DEF IssueLoad, regs, RegistersOK
  <2>4. SharedOK'
    <3>1. ptr[p][Step(p).ti] \in Words  BY <2>1, CallFacts DEF RegistersOK
    <3> QED  BY <1>8, <3>1 DEF IssueLoad, SharedOK
  <2> QED  BY <1>2, <2>2, <2>3, <2>4
<1>9. CASE DmaLoad(p)
  <2>1. ControlOK'  BY <1>2, <1>3, <1>9 DEF DmaLoad, ControlOK, Step
  <2>2. RegistersOK'  BY <1>3, <1>9 DEF DmaLoad, regs, RegistersOK
  <2>3. SharedOK'
    <3>1. DOMAIN vpm' = 0 .. ROWS - 1  BY <1>9 DEF DmaLoad
    <3> QED  BY <1>9, <3>1 DEF DmaLoad, SharedOK
  <2> QED  BY <1>2, <2>1, <2>2, <2>3
<1>10. CASE TakeTiles(p)
  <2>1. pos[p] \in 1 .. Len(call.steps) /\ GoTo(p, "body", pos[p] + 1)
    BY <1>10 DEF TakeTiles, ControlOK
  <2>2. ControlOK'
    <3>1. pos[p] + 1 \in 1 .. Len(call.steps) + 1 /\ pos[p] + 1 \in Nat
      BY <2>1, CallFacts
    <3> QED  BY <1>2, <2>1, <3>1, GoToControl DEF Labels
  <2>3. RegistersOK'  BY <1>3, <1>10 DEF TakeTiles, regs, RegistersOK
  <2>4. SharedOK'  BY <1>10 DEF TakeTiles, SharedOK
  <2> QED  BY <1>2, <2>2, <2>3, <2>4
<1>11. CASE PackTiles(p)
  <2>1. ControlOK'  BY <1>2, <1>4, <1>11, GoToControl DEF PackTiles, Labels
  <2>2. RegistersOK'  BY <1>3, <1>11 DEF PackTiles, regs, RegistersOK
  <2>3. SharedOK'
    <3>1. DOMAIN vpm' = 0 .. ROWS - 1  BY <1>11 DEF PackTiles
    <3> QED  BY <1>11, <3>1 DEF PackTiles, SharedOK
  <2> QED  BY <1>2, <2>1, <2>2, <2>3
<1>12. CASE IssueStore(p)
  <2>1. ControlOK'  BY <1>2, <1>4, <1>12, GoToControl DEF IssueStore, Labels
  <2>2. RegistersOK'  BY <1>3, <1>12 DEF IssueStore, regs, RegistersOK
  <2>3. SharedOK'
    <3>1. outp[p] \in Words  BY DEF RegistersOK
    <3> QED  BY <1>12, <3>1 DEF IssueStore, SharedOK
  <2> QED  BY <1>2, <2>1, <2>2, <2>3
<1>13. CASE DmaStore(p)
  <2>1. ControlOK'  BY <1>2, <1>3, <1>13 DEF DmaStore, ControlOK, Step
  <2>2. RegistersOK'  BY <1>3, <1>13 DEF DmaStore, regs, RegistersOK
  <2>3. SharedOK'  BY <1>13 DEF DmaStore, SharedOK
  <2> QED  BY <1>2, <2>1, <2>2, <2>3
<1>14. CASE Advance(p)
  <2>1. ControlOK'  BY <1>2, <1>14, CallFacts, GoToControl DEF Advance, Labels
  <2>2. RegistersOK'
    <3>1. \A x \in Words : (x + 4 * GROUP) % WORD \in Words
      BY ModWord, Machine DEF Words
    <3>2. [i \in Inputs |-> (ptr[p][i] + 4 * GROUP) % WORD] \in [Inputs -> Words]
      BY <3>1 DEF RegistersOK
    <3>3. (outp[p] + 4 * GROUP) % WORD \in Words  BY <3>1 DEF RegistersOK
    <3> QED  BY <1>3, <1>14, <3>2, <3>3 DEF Advance, RegistersOK
  <2>3. SharedOK'  BY <1>14 DEF Advance, SharedOK
  <2> QED  BY <1>2, <2>1, <2>2, <2>3
<1>15. ASSUME pc[p] = "loop", Corrected(p, pos[p])
       PROVE  ptr' \in [QPU -> [Inputs -> Words]] /\ outp' \in [QPU -> Words]
  <2> DEFINE d == pos[p]
             x == Correction(p, d)
  <2>1. d \in Dims  BY <1>15 DEF ControlOK
  <2>2. call.d \in Nat \ {0}  BY StreamFacts
  <2>3. x \in Int
    <3>1. CASE d = 0  BY <3>1 DEF Correction
    <3>2. CASE d # 0
      <4>1. d - 1 \in Dims  BY <2>1, <2>2, <3>2 DEF Dims
      <4>2. stride[p][d] \in Int /\ stride[p][d - 1] \in Int
        BY <2>1, <4>1, Machine DEF RegistersOK, Words
      <4>3. NumIter(p, d - 1) \in Int  BY <4>1, SplitFacts
      <4>4. InnerTravel(p, d) \in Int
        <5>1. 4 * GROUP \in Int  BY Machine
        <5>2. (IF d = 1 THEN 4 * GROUP ELSE stride[p][d - 1]) \in Int  BY <4>2, <5>1
        <5> QED  BY <4>3, <5>2, Mul24Word DEF InnerTravel
      <4> QED  BY <3>2, <4>2, <4>4 DEF Correction
    <3> QED  BY <3>1, <3>2
  <2>4. Corrected(p, d)  BY <1>15
  <2> HIDE DEF d
  <2>5. ptr' = [ptr EXCEPT ![p] = [i \in Inputs |-> (ptr[p][i] + x) % WORD]]
        /\ outp' = [outp EXCEPT ![p] = (outp[p] + x) % WORD]
    BY <2>4 DEF Corrected
  <2> HIDE DEF x
  <2>6. \A y \in Words : (y + x) % WORD \in Words
    BY <2>3, ModWord, Machine DEF Words
  <2>7. [i \in Inputs |-> (ptr[p][i] + x) % WORD] \in [Inputs -> Words]
    BY <2>6 DEF RegistersOK
  <2>8. (outp[p] + x) % WORD \in Words  BY <2>6 DEF RegistersOK
  <2> QED  BY <2>5, <2>7, <2>8 DEF RegistersOK
<1>16. CASE LoopAgain(p)
  <2>1. ControlOK'  BY <1>2, <1>16, CallFacts, GoToControl DEF LoopAgain, Labels
  <2>2. RegistersOK'
    <3>1. ptr' \in [QPU -> [Inputs -> Words]] /\ outp' \in [QPU -> Words]
      BY <1>15, <1>16 DEF LoopAgain
    <3>2. pos[p] \in Dims  BY <1>16 DEF LoopAgain, ControlOK
    <3>3. Reentered(p, pos[p]) \in [Dims -> Nat]
      <4>1. counter[p][pos[p]] \in Nat  BY <3>2 DEF RegistersOK
      <4>2. Decremented(p, pos[p]) \in Nat
        BY <4>1, ModWord, Machine DEF Decremented, Words
      <4>3. \A e \in Dims : NumIter(p, e) \in Nat /\ counter[p][e] \in Nat
        BY SplitFacts DEF RegistersOK
      <4> QED  BY <4>2, <4>3 DEF Reentered
    <3> QED  BY <1>3, <1>16, <3>1, <3>3 DEF LoopAgain, RegistersOK
  <2>3. SharedOK'  BY <1>16 DEF LoopAgain, SharedOK
  <2> QED  BY <1>2, <2>1, <2>2, <2>3
<1>17. CASE LoopExit(p)
  <2>1. pos[p] \in Dims  BY <1>17 DEF LoopExit, ControlOK
  <2>2. ControlOK'
    <3>1. CASE Outermost(p)
      BY <1>2, <1>17, <3>1, GoToControl DEF LoopExit, Labels
    <3>2. CASE ~Outermost(p)
      <4>1. pos[p] + 1 \in Dims  BY <2>1, <3>2, StreamFacts DEF Dims, Outermost
      <4>2. GoTo(p, "loop", pos[p] + 1)  BY <1>17, <3>2 DEF LoopExit
      <4> QED  BY <1>2, <1>4, <4>1, <4>2, GoToControl DEF Labels
    <3> QED  BY <3>1, <3>2
  <2>3. RegistersOK'
    <3>1. ptr' \in [QPU -> [Inputs -> Words]] /\ outp' \in [QPU -> Words]
      BY <1>15, <1>17 DEF LoopExit
    <3>2. counter' \in [QPU -> [Dims -> Nat]]
      BY <1>17 DEF LoopExit, RegistersOK
    <3> QED  BY <1>3, <1>17, <3>1, <3>2 DEF LoopExit, RegistersOK
  <2>4. SharedOK'  BY <1>17 DEF LoopExit, SharedOK
  <2> QED  BY <1>2, <2>2, <2>3, <2>4
<1> QED  BY <1>5, <1>6, <1>7, <1>8, <1>9, <1>10, <1>11, <1>12, <1>13, <1>14,
            <1>16, <1>17 DEF QpuStep

\* The initial states have the types.
LEMMA InitType == Init => TypeOK
<1> SUFFICES ASSUME Init PROVE TypeOK  OBVIOUS
<1>1. call \in Calls  BY DEF Init
<1>2. CallShape(call, Words)  BY <1>1, CallsAssumption DEF CallOK
<1>3. 0 \in Words  BY Machine DEF Words
<1>4. ControlOK  BY DEF Init, ControlOK, Labels
<1>5. RegistersOK  BY <1>3 DEF Init, RegistersOK
<1>6. SharedOK  BY DEF Init, SharedOK
<1> QED  BY <1>1, <1>4, <1>5, <1>6 DEF TypeOK

\* Every QPU is always at a place of the program with a position that exists
\* there, and its pointers, strides and transfer addresses are machine words.
THEOREM TypeCorrect == Spec => []TypeOK
<1>1. Init => TypeOK /\ UnifOK  BY InitType DEF Init, UnifOK
<1>2. TypeOK /\ UnifOK /\ [Next]_vars => TypeOK' /\ UnifOK'
  <2> SUFFICES ASSUME TypeOK, UnifOK, [Next]_vars PROVE TypeOK' /\ UnifOK'
    OBVIOUS
  <2>1. UnifOK'  BY StepStreams
  <2> QED  BY <2>1, StepType
<1> QED  BY <1>1, <1>2, PTL DEF Spec

-----------------------------------------------------------------------------
(* What a QPU packed stays in its rows until the DMA engine has stored it. *)

\* A QPU starts a transfer and then waits for it, so none is in flight elsewhere.
LEMMA StepInFlight ==
    ASSUME TypeOK, InFlight, [Next]_vars
    PROVE  InFlight'
<1>1. CASE UNCHANGED vars  BY <1>1 DEF vars, InFlight
<1> SUFFICES ASSUME NEW p \in QPU, QpuStep(p) \/ DmaLoad(p) \/ DmaStore(p),
                    NEW q \in QPU
             PROVE  /\ load'[q] # None => pc'[q] = "take"
                    /\ store'[q] # None => pc'[q] = "drain"
  BY <1>1 DEF Next, InFlight
<1>2. /\ pc \in [QPU -> Labels] /\ DOMAIN load = QPU /\ DOMAIN store = QPU
      /\ load[p] # None => pc[p] = "take"
      /\ store[p] # None => pc[p] = "drain"
      /\ load[q] # None => pc[q] = "take"
      /\ store[q] # None => pc[q] = "drain"
  BY DEF InFlight, TypeOK, ControlOK, SharedOK
<1>3. CASE q # p
  <2>1. pc'[q] = pc[q] /\ load'[q] = load[q] /\ store'[q] = store[q]
    BY <1>2, <1>3 DEF QpuStep, Preamble, SetupDim, ScalarStep, IssueLoad, DmaLoad,
       TakeTiles, PackTiles, IssueStore, DmaStore, Advance, LoopAgain, LoopExit, GoTo
  <2> QED  BY <1>2, <2>1
<1>4. CASE q = p
  <2>1. CASE DmaLoad(p) \/ DmaStore(p)
    BY <1>2, <1>4, <2>1 DEF DmaLoad, DmaStore
  <2>2. CASE QpuStep(p)
    BY <1>2, <1>4, <2>2 DEF QpuStep, Preamble, SetupDim, ScalarStep, IssueLoad,
       TakeTiles, PackTiles, IssueStore, Advance, LoopAgain, LoopExit, GoTo, InBody,
       VrWait, VwWait
  <2> QED  BY <2>1, <2>2
<1> QED  BY <1>3, <1>4

\* Packing and loading put the right tile in every row of the QPU's band, and
\* leave the bands of the others alone.
LEMMA BandWrites ==
    ASSUME TypeOK, UnifOK, NEW p \in QPU, NEW q \in QPU, NEW k \in Tiles
    PROVE  /\ PackTiles(p) => vpm'[StoreRow(q, k)] =
                                IF q = p THEN acc[p][k] ELSE vpm[StoreRow(q, k)]
           /\ DmaLoad(p) /\ q # p => vpm'[StoreRow(q, k)] = vpm[StoreRow(q, k)]
<1> DEFINE r == q * TILES + k
<1>1. StoreRow(q, k) = r /\ r \in 0 .. ROWS - 1  BY SameRows
<1>2. \A j \in Tiles : VpmRow(p, j) = p * TILES + j /\ LoadRow(p, j) = p * TILES + j
  BY SameRows
<1>3. \A j \in Tiles : r = p * TILES + j => p = q /\ j = k  BY RowsDistinct
<1>4. ASSUME PackTiles(p)
      PROVE  vpm'[r] = IF q = p THEN acc[p][k] ELSE vpm[r]
  <2>1. vpm'[r] = IF \E j \in Tiles : r = VpmRow(p, j)
                  THEN acc[p][CHOOSE j \in Tiles : r = VpmRow(p, j)] ELSE vpm[r]
    BY <1>1, <1>4 DEF PackTiles
  <2>2. CASE q = p
    <3>1. r = VpmRow(p, k)  BY <1>2, <2>2
    <3>2. \A j \in Tiles : r = VpmRow(p, j) => j = k  BY <1>2, <1>3
    <3> HIDE DEF r
    <3>3. (CHOOSE j \in Tiles : r = VpmRow(p, j)) = k  BY <3>1, <3>2
    <3> QED  BY <2>1, <2>2, <3>1, <3>3
  <2>3. CASE q # p
    <3>1. ~ \E j \in Tiles : r = VpmRow(p, j)  BY <1>2, <1>3, <2>3
    <3> QED  BY <2>1, <2>3, <3>1
  <2> QED  BY <2>2, <2>3
<1>5. ASSUME DmaLoad(p), q # p PROVE vpm'[r] = vpm[r]
  <2>1. ~ \E j \in Tiles : r = LoadRow(p, j)  BY <1>2, <1>3, <1>5
  <2> HIDE DEF r
  <2> QED  BY <1>1, <1>5, <2>1 DEF DmaLoad
<1> QED  BY <1>1, <1>4, <1>5

LEMMA StepStaged ==
    ASSUME IInv, [Next]_vars
    PROVE  StagedIntact'
<1> USE DEF IInv
<1>1. CASE UNCHANGED vars
  BY <1>1 DEF vars, StagedIntact, StoreRow, Rb3, QNum, UQpu
<1> SUFFICES ASSUME NEW p \in QPU, QpuStep(p) \/ DmaLoad(p) \/ DmaStore(p),
                    NEW q \in QPU, NEW k \in Tiles,
                    pc'[q] = "pack" \/ store'[q] # None
             PROVE  vpm'[StoreRow(q, k)'] = acc'[q][k]
  BY <1>1 DEF Next, StagedIntact
<1>2. StoreRow(q, k)' = StoreRow(q, k)
  <2>1. call' = call /\ unif' = unif
    BY DEF QpuStep, Preamble, SetupDim, ScalarStep, IssueLoad, DmaLoad, TakeTiles,
           PackTiles, IssueStore, DmaStore, Advance, LoopAgain, LoopExit
  <2> QED  BY <2>1 DEF StoreRow, Rb3, QNum, UQpu
<1>3. /\ pc \in [QPU -> Labels] /\ DOMAIN acc = QPU
      /\ DOMAIN load = QPU /\ DOMAIN store = QPU
      /\ load[q] # None => pc[q] = "take"
      /\ store[q] # None => pc[q] = "drain"
      /\ pc[q] = "pack" \/ store[q] # None => vpm[StoreRow(q, k)] = acc[q][k]
  BY DEF TypeOK, ControlOK, SharedOK, InFlight, StagedIntact
<1>4. CASE DmaLoad(p)
  <2>1. load[p] # None /\ pc' = pc /\ store' = store /\ acc' = acc
    BY <1>4 DEF DmaLoad
  <2>2. q # p  BY <1>3, <2>1
  <2> QED  BY <1>2, <1>3, <1>4, <2>1, <2>2, BandWrites
<1>5. CASE PackTiles(p)
  <2>1. store' = store /\ acc' = acc /\ pc'= [pc EXCEPT ![p] = "pack"]
    BY <1>5 DEF PackTiles, GoTo
  <2>2. q # p => pc'[q] = pc[q]  BY <2>1, <1>3
  <2> QED  BY <1>2, <1>3, <1>5, <2>1, <2>2, BandWrites
<1>6. CASE DmaStore(p)
  BY <1>2, <1>3, <1>6 DEF DmaStore
<1>7. CASE IssueStore(p)
  BY <1>2, <1>3, <1>7 DEF IssueStore, GoTo
<1>8. CASE ScalarStep(p) \/ TakeTiles(p)
  <2>1. /\ pc' = [pc EXCEPT ![p] = "body"] /\ vpm' = vpm /\ store' = store
        /\ \A o \in QPU : o # p => acc'[o] = acc[o]
        /\ pc[p] \in {"body", "take"}
    BY <1>3, <1>8 DEF ScalarStep, TakeTiles, GoTo, InBody
  <2>2. q # p
    <3>1. q = p => pc'[q] = "body" /\ store'[q] = None  BY <1>3, <2>1
    <3> QED  BY <3>1
  <2> QED  BY <1>2, <1>3, <2>1, <2>2
<1>9. CASE Preamble(p) \/ SetupDim(p) \/ IssueLoad(p) \/ Advance(p) \/ LoopAgain(p)
           \/ LoopExit(p)
  <2>1. vpm' = vpm /\ acc' = acc /\ store' = store
    BY <1>9 DEF Preamble, SetupDim, IssueLoad, Advance, LoopAgain, LoopExit
  <2>2. pc'[q] = "pack" => pc[q] = "pack"
    BY <1>3, <1>9 DEF Preamble, SetupDim, IssueLoad, Advance, LoopAgain, LoopExit, GoTo
  <2> QED  BY <1>2, <1>3, <2>1, <2>2
<1> QED  BY <1>4, <1>5, <1>6, <1>7, <1>8, <1>9 DEF QpuStep

\* On any number of QPUs whose bands fit in the VPM: between packing a group and
\* the end of its DMA store, no step of any QPU or of the DMA engine changes the
\* rows the engine is reading for this QPU, nor do its accumulators change.
THEOREM StagedSafe == Spec => []StagedIntact
<1>1. Init => IInv
  <2>1. Init => TypeOK  BY InitType
  <2>2. Init => UnifOK /\ InFlight /\ StagedIntact
    BY DEF Init, UnifOK, InFlight, StagedIntact
  <2> QED  BY <2>1, <2>2 DEF IInv
<1>2. IInv /\ [Next]_vars => IInv'
  <2> SUFFICES ASSUME IInv, [Next]_vars PROVE IInv'  OBVIOUS
  <2>1. TypeOK /\ UnifOK /\ InFlight /\ StagedIntact  BY DEF IInv
  <2>2. TypeOK'  BY <2>1, StepType
  <2>3. UnifOK'  BY <2>1, StepStreams
  <2>4. InFlight'  BY <2>1, StepInFlight
  <2>5. StagedIntact'  BY StepStaged
  <2> QED  BY <2>2, <2>3, <2>4, <2>5 DEF IInv
<1>3. IInv => StagedIntact  BY DEF IInv
<1> QED  BY <1>1, <1>2, <1>3, PTL DEF Spec

-----------------------------------------------------------------------------
(* The loop counters.                                                      *)

\* With work for everyone, no loop of any QPU has zero iterations.
LEMMA NoEmptyLoop ==
    ASSUME TypeOK, UnifOK, FullShares(call), NEW q \in QPU, NEW d \in Dims
    PROVE  NumIter(q, d) \in Nat /\ NumIter(q, d) >= 1
<1>1. NumIter(q, d) \in Nat /\ Units(q, d) \in Nat  BY SplitFacts
<1>2. Units(q, d) >= IF d = call.d - 1 THEN NQ ELSE 1
  <2>1. Size(q, d) = call.size[d]  BY StreamFacts
  <2>2. Units(q, d) = IF d = 0 THEN call.size[0] \div GROUP ELSE call.size[d]
    BY <2>1 DEF Units
  <2> QED  BY <2>2 DEF FullShares, Dims
<1>3. CASE d # call.d - 1
  BY <1>1, <1>2, <1>3 DEF NumIter
<1>4. CASE d = call.d - 1
  <2> DEFINE n == Units(q, d)
  <2>1. n \in Nat /\ n >= NQ  BY <1>1, <1>2, <1>4
  <2> HIDE DEF n
  <2>2. Base(n) \in Nat /\ Rem(n) \in 0 .. NQ - 1 /\ n = Base(n) * NQ + Rem(n)
    BY <2>1, DivisionFacts
  <2>3. Base(n) # 0
    <3>1. Base(n) = 0 => n = Rem(n)
      <4>1. Base(n) = 0 => Base(n) * NQ = 0  BY NQAssumption
      <4> QED  BY <2>2, <4>1, NQAssumption
    <3> QED  BY <2>1, <2>2, <3>1, NQAssumption
  <2>4. Share(QNum(q), n) >= 1  BY <2>2, <2>3 DEF Share
  <2>5. NumIter(q, d) = Share(QNum(q), n)  BY <1>4 DEF NumIter, n
  <2> QED  BY <1>1, <2>4, <2>5
<1> QED  BY <1>3, <1>4

\* Loops e < pos[q] are over when QPU q is at the end of the body of loop pos[q].
Running(q, d) ==
    \/ pc[q] \in {"body", "take", "pack", "drain"}
    \/ pc[q] = "loop" /\ d >= pos[q]

CountersOK ==
    \A q \in QPU, d \in Dims : Running(q, d) => counter[q][d] \in 1 .. NumIter(q, d)

LEMMA StepCounters ==
    ASSUME TypeOK, UnifOK, FullShares(call), CountersOK, [Next]_vars
    PROVE  CountersOK'
<1>0. ASSUME call' = call, unif' = unif
      PROVE  Dims' = Dims /\ \A q, d : NumIter(q, d)' = NumIter(q, d)
  BY <1>0 DEF Dims, NumIter, Units, Size, QNum, Share, Base, Rem, UQpu, USize
<1>1. CASE UNCHANGED vars
  BY <1>0, <1>1 DEF vars, CountersOK, Running
<1> SUFFICES ASSUME NEW p \in QPU, QpuStep(p) \/ DmaLoad(p) \/ DmaStore(p)
             PROVE  CountersOK'
  BY <1>1 DEF Next
<1>2. Dims' = Dims /\ \A q, d : NumIter(q, d)' = NumIter(q, d)
  <2>1. call' = call /\ unif' = unif
    BY DEF QpuStep, Preamble, SetupDim, ScalarStep, IssueLoad, DmaLoad, TakeTiles,
           PackTiles, IssueStore, DmaStore, Advance, LoopAgain, LoopExit
  <2> QED  BY <1>0, <2>1
<1> SUFFICES ASSUME NEW q \in QPU, NEW d \in Dims, Running(q, d)'
             PROVE  counter'[q][d] \in 1 .. NumIter(q, d)
  BY <1>2 DEF CountersOK
<1>3. /\ pc \in [QPU -> Labels] /\ pos \in [QPU -> Nat]
      /\ counter \in [QPU -> [Dims -> Nat]]
      /\ Running(q, d) => counter[q][d] \in 1 .. NumIter(q, d)
      /\ call.d \in Nat \ {0}
  BY StreamFacts DEF TypeOK, ControlOK, RegistersOK, CountersOK
<1>4. \A e \in Dims : NumIter(q, e) \in Nat /\ NumIter(q, e) >= 1  BY NoEmptyLoop
<1>5. CASE q # p
  <2>1. pc'[q] = pc[q] /\ pos'[q] = pos[q] /\ counter'[q] = counter[q]
    BY <1>3, <1>5 DEF QpuStep, Preamble, SetupDim, ScalarStep, IssueLoad, DmaLoad,
       TakeTiles, PackTiles, IssueStore, DmaStore, Advance, LoopAgain, LoopExit, GoTo,
       regs
  <2> QED  BY <1>3, <2>1 DEF Running
<1>6. CASE q = p
  <2>1. CASE DmaLoad(p) \/ DmaStore(p)
    BY <1>3, <1>6, <2>1 DEF DmaLoad, DmaStore, regs, Running
  <2>2. CASE ScalarStep(p) \/ IssueLoad(p) \/ TakeTiles(p) \/ PackTiles(p)
             \/ IssueStore(p) \/ Advance(p)
    <3>1. counter' = counter /\ pc[p] \in {"body", "take", "pack", "drain"}
      BY <2>2 DEF ScalarStep, IssueLoad, TakeTiles, PackTiles, IssueStore, Advance,
         InBody, regs
    <3> QED  BY <1>3, <1>6, <3>1 DEF Running
  <2>3. CASE Preamble(p)
    BY <1>3, <1>6, <2>3 DEF Preamble, GoTo, Running
  <2>4. CASE SetupDim(p)
    <3>1. Outermost(p)  BY <1>3, <1>6, <2>4 DEF SetupDim, GoTo, Running
    <3>2. counter'[q] = [e \in Dims |-> NumIter(q, e)]
      BY <1>3, <1>6, <2>4, <3>1 DEF SetupDim
    <3> QED  BY <1>4, <3>2
  <2>5. CASE LoopAgain(p) \/ LoopExit(p)
    <3> DEFINE x == pos[p]
               c == counter[p][x]
    <3>1. pc[p] = "loop" /\ x \in Dims
      BY <2>5 DEF LoopAgain, LoopExit, TypeOK, ControlOK
    <3>2. c \in 1 .. NumIter(p, x)
      BY <3>1, <1>3 DEF CountersOK, Running, Dims
    <3>3. Decremented(p, x) \in Nat /\ Decremented(p, x) <= c - 1
      <4>1. NumIter(p, x) \in Nat  BY <1>4, <1>6, <3>1
      <4>2. c - 1 \in Nat  BY <3>2, <4>1
      <4>3. \A y \in Nat : y % WORD \in Nat /\ y % WORD <= y  BY Machine
      <4> QED  BY <4>2, <4>3 DEF Decremented
    <3>4. d > x => counter[p][d] \in 1 .. NumIter(p, d)
      BY <3>1, <1>3, <1>6 DEF Running, Dims
    <3>5. CASE LoopAgain(p)
      <4>1. /\ counter' = [counter EXCEPT ![p] = Reentered(p, x)]
            /\ Decremented(p, x) # 0
        BY <3>5 DEF LoopAgain
      <4>2. counter'[q][d] = IF d < x THEN NumIter(q, d)
                             ELSE IF d = x THEN Decremented(q, x) ELSE counter[q][d]
        BY <4>1, <1>3, <1>6 DEF Reentered
      <4>3. NumIter(q, d) \in Nat /\ NumIter(q, d) >= 1  BY <1>4
      <4> HIDE DEF x
      <4>4. CASE d < x  BY <4>2, <4>3, <4>4
      <4>5. CASE d = x
        <5>1. counter'[q][d] = Decremented(q, x)  BY <4>2, <4>5, <3>1 DEF Dims
        <5> QED  BY <5>1, <4>1, <4>3, <4>5, <3>2, <3>3, <1>6
      <4>6. CASE d > x
        <5>1. counter'[q][d] = counter[q][d]  BY <4>2, <4>6, <3>1 DEF Dims
        <5> QED  BY <5>1, <4>6, <3>4, <1>6
      <4> QED  BY <4>4, <4>5, <4>6, <3>1 DEF Dims
    <3>6. CASE LoopExit(p)
      <4>1. ~Outermost(p) /\ pc'[q] = "loop" /\ pos'[q] = x + 1
        <5>1. CASE Outermost(p)
          <6>1. pc'[q] = "done"  BY <1>3, <1>6, <3>6, <5>1 DEF LoopExit, GoTo
          <6> QED  BY <6>1 DEF Running
        <5>2. CASE ~Outermost(p)
          BY <1>3, <1>6, <3>6, <5>2 DEF LoopExit, GoTo
        <5> QED  BY <5>1, <5>2
      <4>2. d >= x + 1  BY <4>1 DEF Running
      <4>3. counter'[q][d] = counter[q][d]
        <5>1. counter' = [counter EXCEPT ![p][x] = 0]  BY <3>6 DEF LoopExit
        <5>2. d # x  BY <4>2, <3>1 DEF Dims
        <5> HIDE DEF x
        <5> QED  BY <5>1, <5>2, <1>3, <1>6
      <4> QED  BY <4>2, <4>3, <3>1, <3>4, <1>6 DEF Dims
    <3> QED  BY <2>5, <3>5, <3>6
  <2> QED  BY <2>1, <2>2, <2>3, <2>4, <2>5 DEF QpuStep
<1> QED  BY <1>5, <1>6

\* If every QPU has something to do in every loop, the do-while loops never run
\* past zero: a counter in use is between one and the loop's iteration count.
\* (Without the assumption this fails: see the run kernel_short.)
THEOREM CountersSafe ==
    ASSUME \A c \in Calls : FullShares(c)
    PROVE  Spec => []CountersInRange
<1> DEFINE CInv == TypeOK /\ UnifOK /\ CountersOK
<1>1. Init => CInv
  <2>1. Init => UnifOK /\ CountersOK  BY DEF Init, UnifOK, CountersOK, Running
  <2> QED  BY <2>1, InitType
<1>2. CInv /\ [Next]_vars => CInv'
  <2> SUFFICES ASSUME CInv, [Next]_vars PROVE CInv'  OBVIOUS
  <2>1. FullShares(call)  BY DEF TypeOK
  <2>2. TypeOK'  BY StepType
  <2>3. UnifOK'  BY StepStreams
  <2>4. CountersOK'  BY <2>1, StepCounters
  <2> QED  BY <2>2, <2>3, <2>4
<1>3. CInv => CountersInRange
  BY DEF CountersOK, Running, CountersInRange
<1> QED  BY <1>1, <1>2, <1>3, PTL DEF Spec


-----------------------------------------------------------------------------
(* Induction on numbers, with a set in the place of a predicate.           *)

LEMMA LeastNumber ==
    ASSUME NEW T, T \subseteq Nat, T # {}
    PROVE  \E x \in T : \A y \in T : x <= y
<1>1. PICK x \in T : \A y \in T : ~ (<<y, x>> \in OpToRel(<, Nat))
  <2>1. IsWellFoundedOn(OpToRel(<, Nat), Nat)  BY NatLessThanWellFounded
  <2> QED  BY <2>1, WFMin
<1>2. \A y \in T : ~(y < x)  BY <1>1 DEF OpToRel
<1> QED  BY <1>2

LEMMA UpTo ==
    ASSUME NEW n \in Nat, NEW S, 0 \in S,
           \A m \in 0 .. n - 1 : m \in S => m + 1 \in S
    PROVE  \A m \in 0 .. n : m \in S
<1> DEFINE T == {m \in 0 .. n : m \notin S}
<1>1. SUFFICES ASSUME T # {} PROVE FALSE  OBVIOUS
<1>2. T \subseteq Nat  OBVIOUS
<1>3. PICK x \in T : \A y \in T : x <= y
  <2> HIDE DEF T
  <2> QED  BY <1>1, <1>2, LeastNumber
<1>4. x # 0  OBVIOUS
<1>5. x - 1 \in 0 .. n - 1 /\ x - 1 \notin T  BY <1>3, <1>4
<1>6. x - 1 \in S  BY <1>5
<1> QED  BY <1>5, <1>6

\* A number is not two different quotients and remainders.
LEMMA QuotientUnique ==
    ASSUME NEW n \in Nat, NEW x \in Int, NEW y \in Int,
           NEW r \in 0 .. n - 1, NEW s \in 0 .. n - 1, r + n * x = s + n * y
    PROVE  x = y /\ r = s
<1>1. ASSUME NEW u \in Int, NEW v \in Int, NEW a \in 0 .. n - 1, NEW b \in 0 .. n - 1,
             a + n * u = b + n * v, u < v
      PROVE  FALSE
  <2>1. n * v - n * u = n * (v - u)  OBVIOUS
  <2>2. n * (v - u) >= n
    <3>1. n * (v - u) = n + n * (v - u - 1)  OBVIOUS
    <3>2. v - u - 1 \in Nat  BY <1>1
    <3>3. n * (v - u - 1) \in Nat  BY <3>2
    <3> QED  BY <3>1, <3>3
  <2>3. n * u \in Int /\ n * v \in Int  OBVIOUS
  <2>4. n * v - n * u < n  BY <1>1, <2>3
  <2>5. n * (v - u) \in Int  OBVIOUS
  <2> QED  BY <2>1, <2>2, <2>3, <2>4, <2>5
<1>2. x = y  BY <1>1
<1> QED  BY <1>2

\* A sequence whose every term is an affine function of the one before.
LEMMA AffineSequence ==
    ASSUME NEW n \in Nat, NEW i0 \in Int,
           NEW A \in [0 .. n - 1 -> Int], NEW B \in [0 .. n - 1 -> Int]
    PROVE  \E f \in [0 .. n -> Int] :
             f[0] = i0 /\ \A d \in 0 .. n - 1 : f[d + 1] = A[d] * f[d] + B[d]
<1> DEFINE Upto(m) == {f \in [0 .. m -> Int] :
                   f[0] = i0 /\ \A d \in 0 .. m - 1 : f[d + 1] = A[d] * f[d] + B[d]}
           S == {m \in 0 .. n : Upto(m) # {}}
<1>1. 0 \in S
  <2>1. [d \in 0 .. 0 |-> i0] \in [0 .. 0 -> Int]  OBVIOUS
  <2>2. [d \in 0 .. 0 |-> i0] \in Upto(0)  BY <2>1
  <2> HIDE DEF Upto
  <2> QED  BY <2>2
<1>2. ASSUME NEW m \in 0 .. n - 1, m \in S PROVE m + 1 \in S
  <2>1. PICK f \in [0 .. m -> Int] :
           f[0] = i0 /\ \A d \in 0 .. m - 1 : f[d + 1] = A[d] * f[d] + B[d]
    BY <1>2
  <2>2. A[m] * f[m] + B[m] \in Int  OBVIOUS
  <2> DEFINE g == [d \in 0 .. m + 1 |-> IF d = m + 1 THEN A[m] * f[m] + B[m] ELSE f[d]]
  <2>3. g \in [0 .. m + 1 -> Int]  BY <2>2
  <2>4. g[0] = i0  BY <2>1
  <2>5. ASSUME NEW d \in 0 .. (m + 1) - 1 PROVE g[d + 1] = A[d] * g[d] + B[d]
    <3>1. g[d] = f[d]  OBVIOUS
    <3>2. CASE d = m  BY <3>1, <3>2
    <3>3. CASE d # m
      <4>1. d \in 0 .. m - 1  BY <3>3
      <4>2. g[d + 1] = f[d + 1]  BY <4>1
      <4> QED  BY <2>1, <3>1, <4>1, <4>2
    <3> QED  BY <3>2, <3>3
  <2> HIDE DEF g
  <2>6. g \in Upto(m + 1)  BY <2>3, <2>4, <2>5
  <2> HIDE DEF Upto
  <2> QED  BY <2>6
<1>3. Upto(n) # {}
  <2> HIDE DEF Upto
  <2>1. \A m \in 0 .. n : m \in S
    <3> HIDE DEF S
    <3> QED  BY <1>1, <1>2, UpTo
  <2>2. n \in 0 .. n  OBVIOUS
  <2>3. n \in S
    <3> HIDE DEF S
    <3> QED  BY <2>1, <2>2, Zenon
  <2> QED  BY <2>3, Zenon
<1> QED  BY <1>3

-----------------------------------------------------------------------------
(* Offsets, in bytes, of the elements of a tensor of the call's dimensions. *)

Coords(c) == [0 .. c.d - 1 -> Int]

\* What the first d coordinates contribute to the offset of element x.
Offset(c, x) ==
    LET o[d \in 0 .. c.d] ==
            IF d = 0 THEN 0 ELSE o[d - 1] + ByteStride(c)[d - 1] * x[d - 1]
    IN  o

\* A function into a set is one into a larger set.
LEMMA Widen ==
    ASSUME NEW D, NEW S, NEW T, S \subseteq T
    PROVE  [D -> S] \subseteq [D -> T]
<1> SUFFICES ASSUME NEW f \in [D -> S] PROVE f \in [D -> T]  OBVIOUS
<1>1. \A x \in D : f[x] \in T  OBVIOUS
<1>2. f = [x \in D |-> f[x]]  OBVIOUS
<1> QED  BY <1>1, <1>2, Zenon

LEMMA ShapeFacts ==
    ASSUME NEW c, CallOK(c)
    PROVE  /\ c.d \in Nat \ {0} /\ c.n \in Nat \ {0} /\ 0 \in 0 .. c.d - 1
           /\ c.out \in Nat /\ c.ostart \in Coords(c) /\ c.dim \in Coords(c)
           /\ \A d \in 0 .. c.d - 1 :
                c.dim[d] \in Nat /\ c.size[d] \in Nat /\ c.ostart[d] \in Nat
           /\ \A i \in 0 .. c.n - 1 :
                /\ c.ptr[i] \in Nat /\ c.start[i] \in Coords(c)
                /\ \A d \in 0 .. c.d - 1 : c.start[i][d] \in Nat
<1>1. CallShape(c, Words)  BY DEF CallOK
<1>2. Words \subseteq Nat  BY Machine DEF Words
<1>3. c.d \in Nat \ {0} /\ c.n \in Nat \ {0} /\ 0 \in 0 .. c.d - 1
  BY <1>1 DEF CallShape
<1>4. c.out \in Nat /\ c.ostart \in [0 .. c.d - 1 -> Nat]
  BY <1>1, <1>2 DEF CallShape
<1>5. c.dim \in [0 .. c.d - 1 -> Nat] /\ c.size \in [0 .. c.d - 1 -> Nat]
  <2>1. c.dim \in [0 .. c.d - 1 -> Words] /\ c.size \in [0 .. c.d - 1 -> Words]
    BY <1>1 DEF CallShape
  <2> QED  BY <1>2, <2>1, Widen
<1>6. \A i \in 0 .. c.n - 1 : c.ptr[i] \in Nat /\ c.start[i] \in [0 .. c.d - 1 -> Nat]
  <2> SUFFICES ASSUME NEW i \in 0 .. c.n - 1
               PROVE  c.ptr[i] \in Nat /\ c.start[i] \in [0 .. c.d - 1 -> Nat]
    OBVIOUS
  <2>1. c.ptr[i] \in Words /\ c.start[i] \in [0 .. c.d - 1 -> Words]
    BY <1>1 DEF CallShape
  <2>2. [0 .. c.d - 1 -> Words] \subseteq [0 .. c.d - 1 -> Nat]  BY <1>2, Widen
  <2> HIDE DEF Words
  <2> QED  BY <1>2, <2>1, <2>2
<1>7. \A f \in [0 .. c.d - 1 -> Nat] : f \in Coords(c) /\ \A d \in 0 .. c.d - 1 : f[d] \in Nat
  <2>1. [0 .. c.d - 1 -> Nat] \subseteq [0 .. c.d - 1 -> Int]  BY Widen
  <2> QED  BY <2>1 DEF Coords
<1> QED  BY <1>3, <1>4, <1>5, <1>6, <1>7

LEMMA StrideFacts ==
    ASSUME NEW c, CallOK(c)
    PROVE  /\ ByteStride(c) \in [0 .. c.d -> Nat]
           /\ ByteStride(c)[0] = 4
           /\ \A d \in 0 .. c.d - 1 : ByteStride(c)[d + 1] = ByteStride(c)[d] * c.dim[d]
<1> DEFINE D == c.d
           w == ByteStride(c)
<1>1. D \in Nat /\ \A d \in 0 .. D - 1 : c.dim[d] \in Nat  BY ShapeFacts
<1>2. \E f : f = [d \in 0 .. D |-> IF d = 0 THEN 4 ELSE f[d - 1] * c.dim[d - 1]]
  <2>1. PICK f \in [0 .. D -> Int] :
          f[0] = 4 /\ \A d \in 0 .. D - 1 : f[d + 1] = c.dim[d] * f[d] + [e \in 0 .. D - 1 |-> 0][d]
    <3> DEFINE B == [e \in 0 .. D - 1 |-> 0]
               A == c.dim
    <3>1. A \in [0 .. D - 1 -> Int] /\ B \in [0 .. D - 1 -> Int]
      BY ShapeFacts DEF Coords
    <3>0. D \in Nat /\ 4 \in Int  BY <1>1
    <3> HIDE DEF A, B, D
    <3>2. \E f \in [0 .. D -> Int] :
             f[0] = 4 /\ \A d \in 0 .. D - 1 : f[d + 1] = A[d] * f[d] + B[d]
      BY <3>0, <3>1, AffineSequence
    <3> QED  BY <3>2 DEF A, B
  <2>2. ASSUME NEW d \in 0 .. D, d # 0 PROVE f[d] = f[d - 1] * c.dim[d - 1]
    <3>1. d - 1 \in 0 .. D - 1 /\ (d - 1) + 1 = d  BY <1>1, <2>2
    <3>2. f[(d - 1) + 1] = c.dim[d - 1] * f[d - 1] + 0  BY <2>1, <3>1
    <3>3. c.dim[d - 1] \in Int /\ f[d - 1] \in Int  BY <1>1, <3>1
    <3> QED  BY <3>1, <3>2, <3>3
  <2>3. f = [d \in 0 .. D |-> IF d = 0 THEN 4 ELSE f[d - 1] * c.dim[d - 1]]
    BY <2>1, <2>2
  <2> QED  BY <2>3
<1>3. w = [d \in 0 .. D |-> IF d = 0 THEN 4 ELSE w[d - 1] * c.dim[d - 1]]
  BY <1>2 DEF ByteStride
<1> HIDE DEF w, D
<1>4. w[0] = 4  BY <1>1, <1>3
<1>5. \A d \in 0 .. D - 1 : w[d + 1] = w[d] * c.dim[d]
  <2> SUFFICES ASSUME NEW d \in 0 .. D - 1 PROVE w[d + 1] = w[d] * c.dim[d]  OBVIOUS
  <2>1. d + 1 \in 0 .. D /\ d + 1 # 0 /\ (d + 1) - 1 = d  BY <1>1
  <2>2. w[d + 1] = w[(d + 1) - 1] * c.dim[(d + 1) - 1]  BY <1>3, <2>1
  <2> QED  BY <2>1, <2>2
<1>6. \A m \in 0 .. D : m \in {e \in 0 .. D : w[e] \in Nat}
  <2> DEFINE S == {e \in 0 .. D : w[e] \in Nat}
  <2>1. 0 \in S  BY <1>1, <1>4
  <2>2. ASSUME NEW m \in 0 .. D - 1, m \in S PROVE m + 1 \in S
    <3>1. w[m] \in Nat /\ c.dim[m] \in Nat  BY <1>1, <2>2
    <3>2. w[m] * c.dim[m] \in Nat  BY <3>1
    <3> QED  BY <1>1, <1>5, <3>2
  <2> HIDE DEF S
  <2>3. \A m \in 0 .. D : m \in S  BY <1>1, <2>1, <2>2, UpTo
  <2> QED  BY <2>3 DEF S
<1>7. DOMAIN w = 0 .. D /\ w = [d \in DOMAIN w |-> w[d]]
  <2> DEFINE rhs == [d \in 0 .. D |-> IF d = 0 THEN 4 ELSE w[d - 1] * c.dim[d - 1]]
  <2>1. DOMAIN rhs = 0 .. D /\ rhs = [d \in DOMAIN rhs |-> rhs[d]]  OBVIOUS
  <2>2. w = rhs  BY <1>3
  <2> HIDE DEF rhs
  <2> QED  BY <2>1, <2>2
<1>8. w \in [0 .. D -> Nat]  BY <1>6, <1>7
<1> QED  BY <1>4, <1>5, <1>8 DEF w, D

LEMMA OffsetFacts ==
    ASSUME NEW c, CallOK(c), NEW x \in Coords(c)
    PROVE  /\ Offset(c, x)[0] = 0
           /\ \A d \in 0 .. c.d : Offset(c, x)[d] \in Int
           /\ \A d \in 0 .. c.d - 1 :
                Offset(c, x)[d + 1] = Offset(c, x)[d] + ByteStride(c)[d] * x[d]
<1> DEFINE D == c.d
           w == ByteStride(c)
           s == Offset(c, x)
<1>1. D \in Nat /\ \A d \in 0 .. D - 1 : x[d] \in Int  BY ShapeFacts DEF Coords
<1>2. \A d \in 0 .. D : w[d] \in Nat  BY StrideFacts
<1>3. \A d \in 0 .. D - 1 : w[d] * x[d] \in Int
  <2> HIDE DEF w, D
  <2> SUFFICES ASSUME NEW d \in 0 .. D - 1 PROVE w[d] * x[d] \in Int  OBVIOUS
  <2>1. w[d] \in Int /\ x[d] \in Int  BY <1>1, <1>2
  <2> QED  BY <2>1
<1>4. PICK f \in [0 .. D -> Int] :
        f[0] = 0 /\ \A d \in 0 .. D - 1 : f[d + 1] = f[d] + w[d] * x[d]
  <2> DEFINE A == [d \in 0 .. D - 1 |-> 1]
             B == [d \in 0 .. D - 1 |-> w[d] * x[d]]
  <2>1. A \in [0 .. D - 1 -> Int] /\ B \in [0 .. D - 1 -> Int]  BY <1>3
  <2>0. D \in Nat /\ 0 \in Int  BY <1>1
  <2> HIDE DEF A, B, D
  <2>2. PICK f \in [0 .. D -> Int] :
          f[0] = 0 /\ \A d \in 0 .. D - 1 : f[d + 1] = A[d] * f[d] + B[d]
    BY <2>0, <2>1, AffineSequence
  <2>3. ASSUME NEW d \in 0 .. D - 1 PROVE f[d + 1] = f[d] + w[d] * x[d]
    <3>1. A[d] = 1 /\ B[d] = w[d] * x[d]  BY DEF A, B
    <3>2. d \in 0 .. D  BY <2>0
    <3>3. f[d] \in Int  BY <3>2
    <3>4. B[d] \in Int  BY <2>1
    <3> QED  BY <2>2, <3>1, <3>3, <3>4
  <2> QED  BY <2>2, <2>3
<1>5. \E g : g = [d \in 0 .. D |-> IF d = 0 THEN 0 ELSE g[d - 1] + w[d - 1] * x[d - 1]]
  <2>1. ASSUME NEW d \in 0 .. D, d # 0 PROVE f[d] = f[d - 1] + w[d - 1] * x[d - 1]
    <3> HIDE DEF w
    <3>1. d - 1 \in 0 .. D - 1 /\ (d - 1) + 1 = d  BY <1>1, <2>1
    <3> QED  BY <1>4, <3>1
  <2> HIDE DEF w
  <2>2. f = [d \in 0 .. D |-> IF d = 0 THEN 0 ELSE f[d - 1] + w[d - 1] * x[d - 1]]
    BY <1>4, <2>1
  <2> QED  BY <2>2
<1>6. s = [d \in 0 .. D |-> IF d = 0 THEN 0 ELSE s[d - 1] + w[d - 1] * x[d - 1]]
  BY <1>5 DEF Offset
<1> HIDE DEF w, D, s
<1>7. s[0] = 0  BY <1>1, <1>6
<1>8. \A d \in 0 .. D - 1 : s[d + 1] = s[d] + w[d] * x[d]
  <2> SUFFICES ASSUME NEW d \in 0 .. D - 1 PROVE s[d + 1] = s[d] + w[d] * x[d]  OBVIOUS
  <2>1. d + 1 \in 0 .. D /\ d + 1 # 0 /\ (d + 1) - 1 = d  BY <1>1
  <2>2. s[d + 1] = s[(d + 1) - 1] + w[(d + 1) - 1] * x[(d + 1) - 1]  BY <1>6, <2>1
  <2> QED  BY <2>1, <2>2
<1>9. \A m \in 0 .. D : s[m] \in Int
  <2> DEFINE S == {e \in 0 .. D : s[e] \in Int}
  <2>1. 0 \in S  BY <1>1, <1>7
  <2>2. ASSUME NEW m \in 0 .. D - 1, m \in S PROVE m + 1 \in S
    <3>1. s[m] \in Int /\ w[m] * x[m] \in Int  BY <1>3, <2>2
    <3>2. s[m] + w[m] * x[m] \in Int  BY <3>1
    <3> QED  BY <1>1, <1>8, <3>2
  <2> HIDE DEF S
  <2>3. \A m \in 0 .. D : m \in S  BY <1>1, <2>1, <2>2, UpTo
  <2> QED  BY <2>3 DEF S
<1> QED  BY <1>7, <1>8, <1>9 DEF s, w, D

\* Row-major positions by Horner's rule, from the outermost dimension inwards,
\* are offsets summed from the innermost outwards.
LEMMA LinearIsOffset ==
    ASSUME NEW c, CallOK(c), NEW x \in Coords(c)
    PROVE  4 * Linear(c, x) = Offset(c, x)[c.d]
<1> DEFINE D == c.d
           w == ByteStride(c)
           s == Offset(c, x)
           m == c.dim
<1>1. D \in Nat \ {0} /\ x \in [0 .. D - 1 -> Int] /\ m \in [0 .. D - 1 -> Int]
  BY ShapeFacts DEF Coords
<1>2. w[0] = 4 /\ \A d \in 0 .. D - 1 : w[d + 1] = w[d] * m[d]  BY StrideFacts
<1>3. \A d \in 0 .. D : w[d] \in Nat  BY StrideFacts
<1>4. s[0] = 0 /\ \A d \in 0 .. D - 1 : s[d + 1] = s[d] + w[d] * x[d]
  BY OffsetFacts
<1>5. \A d \in 0 .. D : s[d] \in Int  BY OffsetFacts
<1>6. \E g : g = [d \in 0 .. D |-> IF d = D THEN 0
                     ELSE x[d] + (IF d = D - 1 THEN 0 ELSE m[d] * g[d + 1])]
  <2> HIDE DEF D, m
  <2> DEFINE A == [k \in 0 .. D - 1 |-> m[D - 1 - k]]
             B == [k \in 0 .. D - 1 |-> x[D - 1 - k]]
  <2>1. A \in [0 .. D - 1 -> Int] /\ B \in [0 .. D - 1 -> Int]
    <3>1. \A k \in 0 .. D - 1 : D - 1 - k \in 0 .. D - 1  BY <1>1
    <3> QED  BY <1>1, <3>1
  <2>2. D \in Nat /\ 0 \in Int  BY <1>1
  <2> HIDE DEF A, B
  <2>3. PICK h \in [0 .. D -> Int] :
          h[0] = 0 /\ \A d \in 0 .. D - 1 : h[d + 1] = A[d] * h[d] + B[d]
    BY <2>1, <2>2, AffineSequence
  <2> DEFINE g == [d \in 0 .. D |-> h[D - d]]
  <2>4. ASSUME NEW d \in 0 .. D - 1 PROVE g[d] = x[d] + m[d] * g[d + 1]
    <3> DEFINE k == D - 1 - d
    <3>1. k \in 0 .. D - 1 /\ k + 1 = D - d /\ k = D - (d + 1) /\ D - 1 - k = d
      BY <1>1
    <3>2. d + 1 \in 0 .. D /\ d \in 0 .. D  BY <1>1
    <3>3. h[k + 1] = A[k] * h[k] + B[k]  BY <2>3, <3>1
    <3>4. A[k] = m[d] /\ B[k] = x[d]
      <4> HIDE DEF k
      <4> QED  BY <3>1 DEF A, B
    <3>5. g[d] = h[k + 1] /\ g[d + 1] = h[k]
      <4> HIDE DEF k
      <4>1. g[d] = h[D - d] /\ g[d + 1] = h[D - (d + 1)]  BY <3>2
      <4> QED  BY <4>1, <3>1
    <3>6. h[k] \in Int /\ m[d] \in Int /\ x[d] \in Int  BY <1>1, <3>1
    <3>7. m[d] * h[k] \in Int  BY <3>6
    <3> HIDE DEF g, k
    <3> QED  BY <3>3, <3>4, <3>5, <3>6, <3>7
  <2>5. g[D] = 0
    <3>1. D - D = 0 /\ D \in 0 .. D  BY <1>1
    <3> QED  BY <2>3, <3>1
  <2>6. m[D - 1] * g[(D - 1) + 1] = 0
    <3>1. (D - 1) + 1 = D /\ D - 1 \in 0 .. D - 1  BY <1>1
    <3>2. m[D - 1] \in Int  BY <1>1, <3>1
    <3> HIDE DEF g
    <3> QED  BY <2>5, <3>1, <3>2
  <2>7. g = [d \in 0 .. D |-> g[d]]  OBVIOUS
  <2> HIDE DEF g
  <2>8. ASSUME NEW d \in 0 .. D
        PROVE  g[d] = IF d = D THEN 0 ELSE x[d] + (IF d = D - 1 THEN 0 ELSE m[d] * g[d + 1])
    <3>1. CASE d = D  BY <2>5, <3>1
    <3>2. CASE d = D - 1
      <4>1. d \in 0 .. D - 1 /\ d # D  BY <1>1, <3>2
      <4>2. g[d] = x[d] + m[d] * g[d + 1] /\ m[d] * g[d + 1] = 0  BY <2>4, <2>6, <3>2, <4>1
      <4>3. x[d] \in Int  BY <1>1, <4>1
      <4> QED  BY <3>2, <4>1, <4>2, <4>3
    <3>3. CASE d # D /\ d # D - 1
      <4>1. d \in 0 .. D - 1  BY <1>1, <3>3
      <4> QED  BY <2>4, <3>3, <4>1
    <3> QED  BY <3>1, <3>2, <3>3
  <2>9. g = [d \in 0 .. D |-> IF d = D THEN 0
                     ELSE x[d] + (IF d = D - 1 THEN 0 ELSE m[d] * g[d + 1])]
    BY <2>7, <2>8
  <2> QED  BY <2>9
<1>7. PICK g : /\ g = [d \in 0 .. D |-> IF d = D THEN 0
                         ELSE x[d] + (IF d = D - 1 THEN 0 ELSE m[d] * g[d + 1])]
               /\ Linear(c, x) = g[0]
  BY <1>6 DEF Linear
<1> HIDE DEF D, w, s, m
<1>8. g[D] = 0  BY <1>1, <1>7
<1>9. \A d \in 0 .. D - 1 :
        g[d] = x[d] + (IF d = D - 1 THEN 0 ELSE m[d] * g[d + 1])
  BY <1>1, <1>7
<1>10. \A d \in 0 .. D : g[d] \in Int
  <2> DEFINE S == {k \in 0 .. D : g[D - k] \in Int}
  <2>1. 0 \in S
    <3>1. D - 0 = D  BY <1>1
    <3> QED  BY <1>1, <1>8, <3>1
  <2>2. ASSUME NEW k \in 0 .. D - 1, k \in S PROVE k + 1 \in S
    <3> DEFINE d == D - (k + 1)
    <3>1. d \in 0 .. D - 1 /\ d + 1 = D - k  BY <1>1
    <3> HIDE DEF d
    <3>2. g[d + 1] \in Int  BY <2>2, <3>1
    <3>3. x[d] \in Int /\ m[d] \in Int  BY <1>1, <3>1
    <3>4. m[d] * g[d + 1] \in Int  BY <3>2, <3>3
    <3>5. g[d] \in Int  BY <1>9, <3>1, <3>3, <3>4
    <3>6. k + 1 \in 0 .. D  BY <1>1
    <3> QED  BY <3>5, <3>6 DEF d
  <2>3. \A k \in 0 .. D : k \in S
    <3> HIDE DEF S
    <3> QED  BY <1>1, <2>1, <2>2, UpTo
  <2>4. SUFFICES ASSUME NEW d \in 0 .. D PROVE g[d] \in Int  OBVIOUS
  <2>5. D - d \in 0 .. D /\ D - (D - d) = d  BY <1>1
  <2> QED  BY <2>3, <2>5
<1>11. \A d \in 0 .. D - 1 : g[d] = x[d] + m[d] * g[d + 1]
  <2> SUFFICES ASSUME NEW d \in 0 .. D - 1 PROVE g[d] = x[d] + m[d] * g[d + 1]
    OBVIOUS
  <2>1. x[d] \in Int /\ m[d] \in Int  BY <1>1
  <2>2. CASE d = D - 1
    <3>1. d + 1 = D  BY <1>1, <2>2
    <3>2. m[d] * g[d + 1] = 0  BY <1>8, <2>1, <3>1
    <3> QED  BY <1>9, <2>1, <2>2, <3>2
  <2> QED  BY <1>9, <2>2
<1>12. \A d \in 0 .. D : 4 * g[0] = s[d] + w[d] * g[d]
  <2> DEFINE S == {d \in 0 .. D : 4 * g[0] = s[d] + w[d] * g[d]}
  <2>1. 0 \in S
    <3>1. 0 \in 0 .. D  BY <1>1
    <3>2. g[0] \in Int  BY <1>10, <3>1
    <3> QED  BY <1>2, <1>4, <3>1, <3>2
  <2>2. ASSUME NEW d \in 0 .. D - 1, d \in S PROVE d + 1 \in S
    <3>1. d \in 0 .. D /\ d + 1 \in 0 .. D  BY <1>1
    <3>2. /\ s[d] \in Int /\ w[d] \in Int /\ x[d] \in Int /\ m[d] \in Int
          /\ g[d] \in Int /\ g[d + 1] \in Int
      BY <1>1, <1>3, <1>5, <1>10, <3>1
    <3>3. /\ 4 * g[0] = s[d] + w[d] * g[d]
          /\ g[d] = x[d] + m[d] * g[d + 1]
          /\ s[d + 1] = s[d] + w[d] * x[d]
          /\ w[d + 1] = w[d] * m[d]
      BY <1>2, <1>4, <1>11, <2>2
    <3>4. \A ss, ww, xx, mm, gg \in Int :
            ss + ww * (xx + mm * gg) = (ss + ww * xx) + (ww * mm) * gg
      OBVIOUS
    <3>5. s[d] + w[d] * (x[d] + m[d] * g[d + 1])
            = (s[d] + w[d] * x[d]) + (w[d] * m[d]) * g[d + 1]
      BY <3>2, <3>4
    <3>6. 4 * g[0] = s[d + 1] + w[d + 1] * g[d + 1]  BY <3>3, <3>5, Zenon
    <3> QED  BY <3>1, <3>6
  <2> HIDE DEF S
  <2>3. \A d \in 0 .. D : d \in S  BY <1>1, <2>1, <2>2, UpTo
  <2> QED  BY <2>3 DEF S
<1>13. 4 * g[0] = s[D]
  <2>1. D \in 0 .. D  BY <1>1
  <2>2. w[D] \in Int /\ s[D] \in Int  BY <1>3, <1>5, <2>1
  <2>3. w[D] * g[D] = 0  BY <1>8, <2>2
  <2> QED  BY <1>12, <2>1, <2>2, <2>3
<1> QED  BY <1>7, <1>13 DEF D, s

\* Coordinates that differ in dimension e only.
LEMMA OffsetShift ==
    ASSUME NEW c, CallOK(c), NEW x \in Coords(c), NEW e \in 0 .. c.d - 1, NEW v \in Int
    PROVE  Offset(c, [x EXCEPT ![e] = v])[c.d]
             = Offset(c, x)[c.d] + ByteStride(c)[e] * (v - x[e])
<1> DEFINE D == c.d
           w == ByteStride(c)
           y == [x EXCEPT ![e] = v]
           s == Offset(c, x)
           t == Offset(c, y)
           k == w[e] * (v - x[e])
           diff(d) == IF d > e THEN k ELSE 0
<1>1. D \in Nat \ {0} /\ x \in [0 .. D - 1 -> Int] /\ e \in 0 .. D - 1
  BY ShapeFacts DEF Coords
<1>2. y \in Coords(c)  BY DEF Coords
<1>3. \A d \in 0 .. D : w[d] \in Nat  BY StrideFacts
<1>4. s[0] = 0 /\ \A d \in 0 .. D - 1 : s[d + 1] = s[d] + w[d] * x[d]
  BY OffsetFacts
<1>5. \A d \in 0 .. D : s[d] \in Int /\ t[d] \in Int
  <2> HIDE DEF y
  <2> QED  BY <1>2, OffsetFacts
<1>6. t[0] = 0 /\ \A d \in 0 .. D - 1 : t[d + 1] = t[d] + w[d] * y[d]
  <2> HIDE DEF y
  <2> QED  BY <1>2, OffsetFacts
<1>7. y[e] = v /\ \A d \in 0 .. D - 1 : d # e => y[d] = x[d]  BY <1>1
<1> HIDE DEF D, w, s, t, y
<1>8. k \in Int
  <2>1. w[e] \in Int /\ x[e] \in Int /\ v \in Int  BY <1>1, <1>3
  <2> QED  BY <2>1
<1> HIDE DEF k
<1>9. \A d \in 0 .. D : t[d] = s[d] + diff(d)
  <2> DEFINE S == {d \in 0 .. D : t[d] = s[d] + diff(d)}
  <2>1. 0 \in S
    <3>1. 0 \in 0 .. D /\ ~(0 > e)  BY <1>1
    <3> QED  BY <1>4, <1>6, <3>1
  <2>2. ASSUME NEW d \in 0 .. D - 1, d \in S PROVE d + 1 \in S
    <3>1. d \in 0 .. D /\ d + 1 \in 0 .. D /\ d \in Int /\ e \in Int  BY <1>1
    <3>2. s[d] \in Int /\ w[d] \in Int /\ x[d] \in Int  BY <1>1, <1>3, <1>5, <3>1
    <3>3. w[d] * x[d] \in Int  BY <3>2
    <3>4. /\ t[d] = s[d] + diff(d)
          /\ s[d + 1] = s[d] + w[d] * x[d]
          /\ t[d + 1] = t[d] + w[d] * y[d]
      BY <1>4, <1>6, <2>2
    <3>5. CASE d = e
      <4>1. w[d] * y[d] = w[d] * x[d] + k
        BY <1>7, <3>2, <3>5 DEF k
      <4>2. diff(d) = 0 /\ diff(d + 1) = k  BY <3>1, <3>5
      <4> QED  BY <1>8, <3>1, <3>2, <3>3, <3>4, <4>1, <4>2
    <3>6. CASE d # e
      <4>1. diff(d + 1) = diff(d) /\ diff(d) \in Int  BY <1>8, <3>1, <3>6
      <4>2. y[d] = x[d]  BY <1>7, <3>6
      <4> HIDE DEF diff
      <4>3. t[d + 1] = s[d + 1] + diff(d + 1)  BY <3>2, <3>3, <3>4, <4>1, <4>2
      <4> QED  BY <3>1, <4>3
    <3> QED  BY <3>5, <3>6
  <2>3. \A d \in 0 .. D : d \in S
    <3> HIDE DEF S
    <3> QED  BY <1>1, <2>1, <2>2, UpTo
  <2> QED  BY <2>3
<1>10. D \in 0 .. D /\ D > e  BY <1>1
<1>11. t[D] = s[D] + k  BY <1>9, <1>10
<1> QED  BY <1>11 DEF D, w, y, s, t, k

\* The coordinates of the elements of a tensor.
InTensor(c, x) == x \in Coords(c) /\ \A d \in 0 .. c.d - 1 : 0 <= x[d] /\ x[d] < c.dim[d]

\* An element inside the tensor is inside the words of the tensor.
LEMMA OffsetBound ==
    ASSUME NEW c, CallOK(c), NEW x, InTensor(c, x)
    PROVE  \A d \in 0 .. c.d :
             0 <= Offset(c, x)[d] /\ Offset(c, x)[d] + 4 <= ByteStride(c)[d]
<1> DEFINE D == c.d
           w == ByteStride(c)
           s == Offset(c, x)
           S == {d \in 0 .. D : 0 <= s[d] /\ s[d] + 4 <= w[d]}
<1>0. x \in Coords(c)  BY DEF InTensor
<1>1. D \in Nat \ {0} /\ x \in [0 .. D - 1 -> Int]  BY <1>0, ShapeFacts DEF Coords
<1>2. w[0] = 4 /\ \A d \in 0 .. D - 1 : w[d + 1] = w[d] * c.dim[d]  BY StrideFacts
<1>3. \A d \in 0 .. D : w[d] \in Nat  BY StrideFacts
<1>4. s[0] = 0 /\ \A d \in 0 .. D - 1 : s[d + 1] = s[d] + w[d] * x[d]
  BY <1>0, OffsetFacts
<1>5. \A d \in 0 .. D : s[d] \in Int  BY <1>0, OffsetFacts
<1>6. \A d \in 0 .. D - 1 : c.dim[d] \in Nat /\ 0 <= x[d] /\ x[d] < c.dim[d]
  BY ShapeFacts DEF InTensor
<1> HIDE DEF D, w, s
<1>7. 0 \in S  BY <1>1, <1>2, <1>4
<1>8. ASSUME NEW d \in 0 .. D - 1, d \in S PROVE d + 1 \in S
  <2>1. d \in 0 .. D /\ d + 1 \in 0 .. D  BY <1>1
  <2>2. /\ s[d] \in Int /\ w[d] \in Nat /\ x[d] \in Nat /\ c.dim[d] \in Nat
        /\ c.dim[d] - 1 - x[d] \in Nat
    BY <1>1, <1>3, <1>5, <1>6, <2>1
  <2>3. 0 <= s[d] /\ s[d] + 4 <= w[d]  BY <1>8
  <2>4. s[d + 1] = s[d] + w[d] * x[d] /\ w[d + 1] = w[d] * c.dim[d]  BY <1>2, <1>4
  <2>5. \A a, b, e \in Nat : a * e = a * b + a + a * (e - 1 - b)  OBVIOUS
  <2>6. w[d] * c.dim[d] = w[d] * x[d] + w[d] + w[d] * (c.dim[d] - 1 - x[d])
    BY <2>2, <2>5
  <2>7. w[d] * x[d] \in Nat /\ w[d] * (c.dim[d] - 1 - x[d]) \in Nat  BY <2>2
  <2>8. 0 <= s[d + 1] /\ s[d + 1] + 4 <= w[d + 1]
    BY <2>2, <2>3, <2>4, <2>6, <2>7
  <2> QED  BY <2>1, <2>8
<1>9. \A d \in 0 .. D : d \in S
  <2> HIDE DEF S
  <2> QED  BY <1>1, <1>7, <1>8, UpTo
<1> QED  BY <1>9 DEF D, w, s

\* Different elements of a tensor have different offsets.
LEMMA OffsetInjective ==
    ASSUME NEW c, CallOK(c), NEW x, InTensor(c, x), NEW y, InTensor(c, y),
           Offset(c, x)[c.d] = Offset(c, y)[c.d]
    PROVE  x = y
<1> DEFINE D == c.d
           w == ByteStride(c)
           s == Offset(c, x)
           t == Offset(c, y)
           S == {d \in 0 .. D : s[d] = t[d] => \A e \in 0 .. d - 1 : x[e] = y[e]}
<1>0. x \in Coords(c) /\ y \in Coords(c)  BY DEF InTensor
<1>1. D \in Nat \ {0} /\ x \in [0 .. D - 1 -> Int] /\ y \in [0 .. D - 1 -> Int]
  BY <1>0, ShapeFacts DEF Coords
<1>2. \A d \in 0 .. D : w[d] \in Nat  BY StrideFacts
<1>3. \A d \in 0 .. D - 1 : /\ s[d + 1] = s[d] + w[d] * x[d]
                            /\ t[d + 1] = t[d] + w[d] * y[d]
  BY <1>0, OffsetFacts
<1>4. \A d \in 0 .. D : s[d] \in Int /\ t[d] \in Int  BY <1>0, OffsetFacts
<1>5. \A d \in 0 .. D : /\ 0 <= s[d] /\ s[d] + 4 <= w[d]
                        /\ 0 <= t[d] /\ t[d] + 4 <= w[d]
  BY OffsetBound
<1>6. s[D] = t[D]  OBVIOUS
<1> HIDE DEF D, w, s, t
<1>7. 0 \in S  BY <1>1
<1>8. ASSUME NEW d \in 0 .. D - 1, d \in S PROVE d + 1 \in S
  <2>1. d \in 0 .. D /\ d + 1 \in 0 .. D /\ d \in Int  BY <1>1
  <2> SUFFICES ASSUME s[d + 1] = t[d + 1]
               PROVE  \A e \in 0 .. (d + 1) - 1 : x[e] = y[e]
    BY <2>1
  <2>2. s[d] \in 0 .. w[d] - 1 /\ t[d] \in 0 .. w[d] - 1 /\ w[d] \in Nat
    BY <1>2, <1>4, <1>5, <2>1
  <2>3. x[d] \in Int /\ y[d] \in Int  BY <1>1
  <2>4. s[d] + w[d] * x[d] = t[d] + w[d] * y[d]  BY <1>3
  <2>5. x[d] = y[d] /\ s[d] = t[d]
    <3> DEFINE n == w[d]
               u == x[d]
               v == y[d]
               a == s[d]
               b == t[d]
    <3>1. /\ n \in Nat /\ u \in Int /\ v \in Int /\ a \in 0 .. n - 1 /\ b \in 0 .. n - 1
          /\ a + n * u = b + n * v
      BY <2>2, <2>3, <2>4
    <3> HIDE DEF n, u, v, a, b
    <3>2. u = v /\ a = b  BY ONLY <3>1, QuotientUnique
    <3> QED  BY <3>2 DEF u, v, a, b
  <2>6. \A e \in 0 .. d - 1 : x[e] = y[e]  BY <1>8, <2>5
  <2>7. ASSUME NEW e \in 0 .. (d + 1) - 1 PROVE x[e] = y[e]
    <3>1. e = d \/ e \in 0 .. d - 1  BY <2>1
    <3> QED  BY <2>5, <2>6, <3>1
  <2> QED  BY <2>7
<1>9. \A d \in 0 .. D : d \in S
  <2> HIDE DEF S
  <2> QED  BY <1>1, <1>7, <1>8, UpTo
<1>10. D \in 0 .. D  BY <1>1
<1>11. \A e \in 0 .. D - 1 : x[e] = y[e]  BY <1>6, <1>9, <1>10
<1> QED  BY <1>1, <1>11

-----------------------------------------------------------------------------
(* Elements of a slice.                                                    *)

\* The coordinates in the tensor of the element at ix of the slice at start.
Placed(c, start, ix) == [d \in 0 .. c.d - 1 |-> start[d] + ix[d]]

LEMMA ElementIsOffset ==
    ASSUME NEW c, CallOK(c), NEW base \in Int, NEW start \in Coords(c),
           NEW ix \in Coords(c)
    PROVE  /\ Placed(c, start, ix) \in Coords(c)
           /\ ElementAt(c, base, start, ix) = base + Offset(c, Placed(c, start, ix))[c.d]
           /\ ElementAt(c, base, start, ix) \in Int
<1> DEFINE x == Placed(c, start, ix)
<1>1. x \in Coords(c)  BY DEF Placed, Coords
<1>2. ElementAt(c, base, start, ix) = base + 4 * Linear(c, x)  BY DEF ElementAt, Placed
<1> HIDE DEF x
<1>3. 4 * Linear(c, x) = Offset(c, x)[c.d]  BY <1>1, LinearIsOffset
<1>4. c.d \in 0 .. c.d  BY ShapeFacts
<1>5. Offset(c, x)[c.d] \in Int  BY <1>1, <1>4, OffsetFacts
<1>6. ElementAt(c, base, start, ix) = base + Offset(c, x)[c.d]  BY <1>2, <1>3
<1>7. ElementAt(c, base, start, ix) \in Int  BY <1>5, <1>6
<1> QED  BY <1>1, <1>6, <1>7 DEF x

\* Moving along dimension e moves by its stride.
LEMMA ElementShift ==
    ASSUME NEW c, CallOK(c), NEW base \in Int, NEW start \in Coords(c),
           NEW ix \in Coords(c), NEW e \in 0 .. c.d - 1, NEW v \in Int
    PROVE  ElementAt(c, base, start, [ix EXCEPT ![e] = v])
             = ElementAt(c, base, start, ix) + ByteStride(c)[e] * (v - ix[e])
<1> DEFINE x == Placed(c, start, ix)
           iy == [ix EXCEPT ![e] = v]
           y == Placed(c, start, iy)
           w == ByteStride(c)
<1>1. iy \in Coords(c) /\ start[e] \in Int /\ ix[e] \in Int  BY DEF Coords
<1>2. y = [x EXCEPT ![e] = start[e] + v]  BY DEF Placed, Coords
<1>3. x[e] = start[e] + ix[e]  BY DEF Placed
<1> HIDE DEF x, y, iy
<1>4. /\ x \in Coords(c)
      /\ ElementAt(c, base, start, ix) = base + Offset(c, x)[c.d]
      /\ ElementAt(c, base, start, iy) = base + Offset(c, y)[c.d]
  BY <1>1, ElementIsOffset DEF x, y
<1>5. c.d \in 0 .. c.d /\ e \in 0 .. c.d  BY ShapeFacts
<1>6. Offset(c, x)[c.d] \in Int /\ w[e] \in Int
  BY <1>4, <1>5, OffsetFacts, StrideFacts
<1>7. Offset(c, y)[c.d] = Offset(c, x)[c.d] + w[e] * ((start[e] + v) - x[e])
  <2>1. start[e] + v \in Int  BY <1>1
  <2> HIDE DEF w
  <2> QED  BY <1>2, <1>4, <2>1, OffsetShift DEF w
<1>8. (start[e] + v) - x[e] = v - ix[e]  BY <1>1, <1>3
<1>9. w[e] * (v - ix[e]) \in Int
  <2>1. v - ix[e] \in Int  BY <1>1
  <2> HIDE DEF w
  <2> QED  BY <1>6, <2>1
<1> HIDE DEF w
<1> QED  BY <1>4, <1>6, <1>7, <1>8, <1>9 DEF iy, w

-----------------------------------------------------------------------------
(* The indices of a slice, and the groups of a QPU's part of it.           *)

\* Groups of elements (indices, of an outer dimension) along dimension d.
Groups(c, d) == IF d = 0 THEN c.size[0] \div GROUP ELSE c.size[d]

\* QPU q's part of them: their number and the first one.
Iters(c, q, d)  == IF d = c.d - 1 THEN Share(q, Groups(c, d)) ELSE Groups(c, d)
Origin(c, q, d) == IF d = c.d - 1 THEN Start(q, Groups(c, d)) ELSE 0

\* Element m of the group at P.
Lane(c, P, m) == [d \in 0 .. c.d - 1 |-> IF d = 0 THEN GROUP * P[0] + m ELSE P[d]]

\* The groups in QPU q's part of a slice.
InShare(c, q, P) ==
    /\ P \in Coords(c)
    /\ \A d \in 0 .. c.d - 1 : /\ Origin(c, q, d) <= P[d]
                               /\ P[d] < Origin(c, q, d) + Iters(c, q, d)

LEMMA GroupsFacts ==
    ASSUME NEW c, CallOK(c), NEW d \in 0 .. c.d - 1
    PROVE  /\ Groups(c, d) \in Nat /\ Covered(c, d) \in Nat
           /\ Covered(c, d) = Groups(c, d) * (IF d = 0 THEN GROUP ELSE 1)
           /\ Covered(c, d) <= c.size[d]
<1>1. c.size[d] \in Nat /\ GROUP \in Nat \ {0} /\ c.d \in Nat
  BY ShapeFacts, Machine
<1>2. CASE d = 0
  <2> DEFINE s == c.size[0]
             g == GROUP
             k == s \div g
  <2>1. s \in Nat /\ g \in Nat \ {0}  BY <1>1, <1>2
  <2>2. Covered(c, d) = k * g /\ Groups(c, d) = k  BY <1>2 DEF Covered, Groups
  <2> HIDE DEF s, g
  <2>3. k \in Nat /\ k * g <= s  BY <2>1
  <2> HIDE DEF k
  <2>4. k * g \in Nat  BY <2>1, <2>3
  <2> QED  BY <1>2, <2>2, <2>3, <2>4 DEF s, g
<1>3. CASE d # 0
  BY <1>1, <1>3 DEF Covered, Groups
<1> QED  BY <1>2, <1>3

\* Extent chooses a value that exists, so it cuts no index off.
LEMMA IndicesAre ==
    ASSUME NEW c, CallOK(c), NEW ix
    PROVE  ix \in Indices(c) <=>
             /\ ix \in [0 .. c.d - 1 -> Nat]
             /\ \A d \in 0 .. c.d - 1 : ix[d] < c.size[d]
<1> DEFINE D == c.d
           n == { c.size[d] : d \in 0 .. D - 1 }
           S == {m \in 0 .. D - 1 : \E x \in 0 .. m :
                   \A y \in 0 .. m : c.size[y] <= c.size[x]}
<1>1. D \in Nat \ {0} /\ \A d \in 0 .. D - 1 : c.size[d] \in Nat
  BY ShapeFacts
<1> HIDE DEF D
<1>2. 0 \in S  BY <1>1
<1>3. ASSUME NEW m \in 0 .. (D - 1) - 1, m \in S PROVE m + 1 \in S
  <2>1. PICK x \in 0 .. m : \A y \in 0 .. m : c.size[y] <= c.size[x]
    BY <1>3
  <2>2. m + 1 \in 0 .. D - 1 /\ \A y \in 0 .. m + 1 : y \in 0 .. m \/ y = m + 1
    BY <1>1
  <2>3. x \in 0 .. m + 1 /\ m + 1 \in 0 .. m + 1 /\ x \in 0 .. D - 1  BY <1>1
  <2>4. \A y \in 0 .. m + 1 : y \in 0 .. D - 1  BY <1>1
  <2>5. CASE c.size[m + 1] <= c.size[x]
    <3>1. \A y \in 0 .. m + 1 : c.size[y] <= c.size[x]
      BY <2>1, <2>2, <2>5
    <3> QED  BY <2>2, <2>3, <3>1
  <2>6. CASE ~(c.size[m + 1] <= c.size[x])
    <3>1. \A y \in 0 .. m + 1 : c.size[y] <= c.size[m + 1]
      <4> SUFFICES ASSUME NEW y \in 0 .. m + 1
                   PROVE  c.size[y] <= c.size[m + 1]
        OBVIOUS
      <4>1. c.size[y] \in Nat /\ c.size[x] \in Nat /\ c.size[m + 1] \in Nat
        BY <1>1, <2>2, <2>3, <2>4
      <4>2. CASE y \in 0 .. m
        <5>1. c.size[y] <= c.size[x]  BY <2>1, <4>2
        <5> QED  BY <2>6, <4>1, <5>1
      <4>3. CASE y = m + 1  BY <4>1, <4>3
      <4> QED  BY <2>2, <4>2, <4>3
    <3> QED  BY <2>2, <2>3, <3>1
  <2> QED  BY <2>5, <2>6
<1>4. \E e \in n : \A v \in n : v <= e
  <2>1. D - 1 \in Nat /\ D - 1 \in 0 .. D - 1  BY <1>1
  <2>2. \A m \in 0 .. D - 1 : m \in S
    <3> HIDE DEF S
    <3> QED  BY <1>2, <1>3, <2>1, UpTo
  <2>3. PICK x \in 0 .. D - 1 : \A y \in 0 .. D - 1 : c.size[y] <= c.size[x]
    BY <2>1, <2>2
  <2> QED  BY <2>3
<1>5. Extent(c) = CHOOSE e \in n : \A v \in n : v <= e  BY DEF Extent, D
<1>6. Extent(c) \in n /\ \A v \in n : v <= Extent(c)
  <2> HIDE DEF n
  <2> QED  BY <1>4, <1>5
<1>7. Extent(c) \in Nat /\ \A d \in 0 .. D - 1 : c.size[d] <= Extent(c)
  BY <1>1, <1>6
<1>8. ASSUME NEW e \in [0 .. D - 1 -> Nat], \A d \in 0 .. D - 1 : e[d] < c.size[d]
      PROVE  e \in [0 .. D - 1 -> 0 .. Extent(c) - 1]
  <2> SUFFICES ASSUME NEW d \in 0 .. D - 1 PROVE e[d] \in 0 .. Extent(c) - 1
    OBVIOUS
  <2> DEFINE s == c.size[d]
  <2>1. e[d] \in Nat /\ e[d] < s /\ s \in Nat /\ s <= Extent(c)
    BY <1>1, <1>7, <1>8
  <2> HIDE DEF s
  <2> QED  BY <1>7, <2>1
<1>9. \A e : e \in [0 .. D - 1 -> 0 .. Extent(c) - 1] => e \in [0 .. D - 1 -> Nat]
  BY <1>7
<1> QED  BY <1>8, <1>9 DEF Indices, D

\* The elements that are in whole groups, and their words.
Reached(c) == { ix \in Indices(c) : ix[0] < Covered(c, 0) }

Writable(c) == { OutAt(c, ix) : ix \in Reached(c) }

LEMMA ReachedAre ==
    ASSUME NEW c, CallOK(c), NEW ix
    PROVE  ix \in Reached(c) <=>
             /\ ix \in [0 .. c.d - 1 -> Nat]
             /\ \A d \in 0 .. c.d - 1 : ix[d] < Covered(c, d)
<1> DEFINE D == 0 .. c.d - 1
<1>1. 0 \in D  BY ShapeFacts
<1>2. \A d \in D : c.size[d] \in Nat /\ Covered(c, d) \in Nat /\ Covered(c, d) <= c.size[d]
  BY ShapeFacts, GroupsFacts
<1>3. \A d \in D : d # 0 => Covered(c, d) = c.size[d]  BY DEF Covered
<1>4. ix \in Indices(c) <=> ix \in [D -> Nat] /\ \A d \in D : ix[d] < c.size[d]
  BY IndicesAre
<1>5. ASSUME ix \in [D -> Nat], \A d \in D : ix[d] < Covered(c, d)
      PROVE  \A d \in D : ix[d] < c.size[d]
  <2> SUFFICES ASSUME NEW d \in D PROVE ix[d] < c.size[d]  OBVIOUS
  <2>1. ix[d] \in Nat /\ ix[d] < Covered(c, d)  BY <1>5
  <2> QED  BY <1>2, <2>1
<1>6. ASSUME \A d \in D : ix[d] < c.size[d], ix[0] < Covered(c, 0)
      PROVE  \A d \in D : ix[d] < Covered(c, d)
  BY <1>3, <1>6
<1> HIDE DEF D
<1> QED  BY <1>1, <1>4, <1>5, <1>6 DEF Reached, D

-----------------------------------------------------------------------------

\* A tensor at base and a slice of it at start that Regular calls may use.
SliceOK(c, base, start) ==
    /\ base \in Nat /\ start \in Coords(c)
    /\ \A d \in 0 .. c.d - 1 : start[d] \in Nat /\ start[d] + c.size[d] <= c.dim[d]
    /\ base + ByteStride(c)[c.d] <= WORD

LEMMA SlicesOK ==
    ASSUME NEW c, CallOK(c), Regular(c)
    PROVE  /\ SliceOK(c, c.out, c.ostart)
           /\ \A i \in 0 .. c.n - 1 : SliceOK(c, c.ptr[i], c.start[i])
BY ShapeFacts DEF SliceOK, Regular, Addressable

\* The elements of a slice are in memory,
LEMMA ElementInMemory ==
    ASSUME NEW c, CallOK(c), NEW base, NEW start, SliceOK(c, base, start),
           NEW ix \in Indices(c)
    PROVE  /\ ix \in Coords(c) /\ InTensor(c, Placed(c, start, ix))
           /\ ElementAt(c, base, start, ix) = base + Offset(c, Placed(c, start, ix))[c.d]
           /\ ElementAt(c, base, start, ix) \in Words
<1> DEFINE x == Placed(c, start, ix)
<1>1. ix \in [0 .. c.d - 1 -> Nat] /\ \A d \in 0 .. c.d - 1 : ix[d] < c.size[d]
  BY IndicesAre
<1>2. ix \in Coords(c)  BY <1>1 DEF Coords
<1>3. /\ base \in Nat /\ start \in Coords(c) /\ base + ByteStride(c)[c.d] <= WORD
      /\ \A d \in 0 .. c.d - 1 : start[d] \in Nat /\ start[d] + c.size[d] <= c.dim[d]
  BY DEF SliceOK
<1>4. \A d \in 0 .. c.d - 1 : 0 <= x[d] /\ x[d] < c.dim[d]
  <2> SUFFICES ASSUME NEW d \in 0 .. c.d - 1 PROVE 0 <= x[d] /\ x[d] < c.dim[d]
    OBVIOUS
  <2>1. x[d] = start[d] + ix[d]  BY DEF Placed
  <2>2. /\ start[d] \in Nat /\ ix[d] \in Nat /\ c.size[d] \in Nat /\ c.dim[d] \in Nat
    BY <1>1, <1>3, ShapeFacts
  <2>3. ix[d] < c.size[d] /\ start[d] + c.size[d] <= c.dim[d]
    BY <1>1, <1>3
  <2> QED  BY <2>1, <2>2, <2>3
<1>5. /\ x \in Coords(c)
      /\ ElementAt(c, base, start, ix) = base + Offset(c, x)[c.d]
      /\ ElementAt(c, base, start, ix) \in Int
  BY <1>2, <1>3, ElementIsOffset
<1> HIDE DEF x
<1>6. InTensor(c, x)  BY <1>4, <1>5 DEF InTensor
<1>7. c.d \in 0 .. c.d  BY ShapeFacts
<1>8. 0 <= Offset(c, x)[c.d] /\ Offset(c, x)[c.d] + 4 <= ByteStride(c)[c.d]
  BY <1>6, <1>7, OffsetBound
<1>9. Offset(c, x)[c.d] \in Int /\ ByteStride(c)[c.d] \in Nat
  BY <1>5, <1>7, OffsetFacts, StrideFacts
<1>10. ElementAt(c, base, start, ix) \in Words
  BY <1>3, <1>5, <1>8, <1>9, Machine DEF Words
<1> QED  BY <1>2, <1>5, <1>6, <1>10 DEF x

\* and different indices have different words.
LEMMA ElementsDistinct ==
    ASSUME NEW c, CallOK(c), NEW base, NEW start, SliceOK(c, base, start),
           NEW ix \in Indices(c), NEW jx \in Indices(c),
           ElementAt(c, base, start, ix) = ElementAt(c, base, start, jx)
    PROVE  ix = jx
<1> DEFINE x == Placed(c, start, ix)
           y == Placed(c, start, jx)
<1>1. /\ ix \in Coords(c) /\ InTensor(c, x) /\ jx \in Coords(c) /\ InTensor(c, y)
      /\ base + Offset(c, x)[c.d] = base + Offset(c, y)[c.d]
  BY ElementInMemory
<1>2. \A d \in 0 .. c.d - 1 : x[d] = start[d] + ix[d] /\ y[d] = start[d] + jx[d]
  BY DEF Placed
<1>3. base \in Int /\ start \in Coords(c)  BY DEF SliceOK
<1> HIDE DEF x, y
<1>4. c.d \in 0 .. c.d  BY ShapeFacts
<1>5. Offset(c, x)[c.d] \in Int /\ Offset(c, y)[c.d] \in Int
  BY <1>1, <1>4, OffsetFacts DEF InTensor
<1>6. Offset(c, x)[c.d] = Offset(c, y)[c.d]
  <2> DEFINE a == Offset(c, x)[c.d]
             b == Offset(c, y)[c.d]
  <2>1. a \in Int /\ b \in Int /\ base \in Int /\ base + a = base + b
    BY <1>1, <1>3, <1>5
  <2> HIDE DEF a, b
  <2>2. a = b  BY <2>1
  <2> QED  BY <2>2 DEF a, b
<1>7. x = y  BY <1>1, <1>6, OffsetInjective
<1>8. \A d \in 0 .. c.d - 1 : ix[d] = jx[d]
  BY <1>1, <1>2, <1>3, <1>7 DEF Coords
<1> DEFINE S == 0 .. c.d - 1
<1>9. ix \in [S -> Int] /\ jx \in [S -> Int] /\ \A d \in S : ix[d] = jx[d]
  BY <1>1, <1>8 DEF Coords
<1> HIDE DEF S
<1>10. ix = [d \in S |-> ix[d]] /\ jx = [d \in S |-> jx[d]]  BY <1>9
<1> QED  BY <1>9, <1>10

-----------------------------------------------------------------------------

LEMMA ShareFacts ==
    ASSUME NEW n \in Nat, NEW q \in QPU
    PROVE  Start(q, n) \in Nat /\ Share(q, n) \in Nat /\ Start(q, n) + Share(q, n) <= n
<1>1. q \in Nat /\ q < NQ /\ NQ \in Nat  BY NQAssumption DEF QPU
<1>2. Base(n) \in Nat /\ Rem(n) \in Nat  BY DivisionFacts, NQAssumption
<1>3. q * Base(n) \in Nat  BY <1>1, <1>2
<1>4. Start(q, n) \in Nat /\ Share(q, n) \in Nat
  BY <1>1, <1>2, <1>3 DEF Start, Share
<1>5. Start(NQ, n) = n  BY SplitCovers DEF BlocksAbut
<1>6. Start(q, n) + Share(q, n) <= Start(NQ, n)  BY <1>1, StartMonotone
<1> QED  BY <1>4, <1>5, <1>6

LEMMA PartFacts ==
    ASSUME NEW c, CallOK(c), NEW q \in QPU, NEW d \in 0 .. c.d - 1
    PROVE  /\ Origin(c, q, d) \in Nat /\ Iters(c, q, d) \in Nat
           /\ Origin(c, q, d) + Iters(c, q, d) <= Groups(c, d)
<1>1. Groups(c, d) \in Nat  BY GroupsFacts
<1>2. /\ Start(q, Groups(c, d)) \in Nat /\ Share(q, Groups(c, d)) \in Nat
      /\ Start(q, Groups(c, d)) + Share(q, Groups(c, d)) <= Groups(c, d)
  BY <1>1, ShareFacts
<1> QED  BY <1>1, <1>2 DEF Origin, Iters

LEMMA LaneIsCoords ==
    ASSUME NEW c, CallOK(c), NEW P \in Coords(c), NEW m \in Int
    PROVE  Lane(c, P, m) \in Coords(c)
<1>1. P[0] \in Int /\ \A d \in 0 .. c.d - 1 : P[d] \in Int  BY ShapeFacts DEF Coords
<1>2. GROUP * P[0] + m \in Int
  <2>1. GROUP \in Int  BY Machine
  <2> HIDE DEF GROUP
  <2> QED  BY <1>1, <2>1
<1> QED  BY <1>1, <1>2 DEF Lane, Coords

\* The elements of a group in a QPU's part are elements of the slice and in a whole
\* group, and their words are that QPU's.
LEMMA LaneInShare ==
    ASSUME NEW c \in Calls, CallOK(c), NEW q \in QPU, NEW P, InShare(c, q, P),
           NEW m \in 0 .. GROUP - 1
    PROVE  /\ Lane(c, P, m) \in Reached(c) /\ Lane(c, P, m) \in Indices(c)
           /\ OutAt(c, Lane(c, P, m)) \in OwnWords[c][q]
<1> DEFINE ix == Lane(c, P, m)
           o == c.d - 1
           unit == IF c.d = 1 THEN GROUP ELSE 1
<1>1. P \in Coords(c) /\ c.d \in Nat \ {0} /\ 0 \in 0 .. o /\ o \in 0 .. o
  BY ShapeFacts DEF InShare
<1>2. \A d \in 0 .. o : /\ Origin(c, q, d) \in Nat /\ Iters(c, q, d) \in Nat
                        /\ Origin(c, q, d) <= P[d]
                        /\ P[d] < Origin(c, q, d) + Iters(c, q, d)
                        /\ Origin(c, q, d) + Iters(c, q, d) <= Groups(c, d)
                        /\ Groups(c, d) \in Nat /\ P[d] \in Int
  BY <1>1, PartFacts, GroupsFacts DEF InShare, Coords
<1>3. \A d \in 0 .. o : P[d] \in Nat /\ P[d] < Groups(c, d)
  <2> SUFFICES ASSUME NEW d \in 0 .. o PROVE P[d] \in Nat /\ P[d] < Groups(c, d)
    OBVIOUS
  <2> DEFINE a == Origin(c, q, d)
             b == Iters(c, q, d)
             n == Groups(c, d)
             x == P[d]
  <2>1. a \in Nat /\ b \in Nat /\ a <= x /\ x < a + b /\ a + b <= n /\ n \in Nat /\ x \in Int
    BY <1>2
  <2> HIDE DEF a, b, n, x
  <2>2. x \in Nat /\ x < n  BY <2>1
  <2> QED  BY <2>2 DEF x, n
<1> DEFINE g == GROUP
<1>4. g \in Nat \ {0} /\ m \in 0 .. g - 1  BY Machine
<1>5. ix[0] = g * P[0] + m /\ \A d \in 0 .. o : d # 0 => ix[d] = P[d]
  BY <1>1 DEF Lane
<1>6. Covered(c, 0) = Groups(c, 0) * g
      /\ \A d \in 0 .. o : d # 0 => Covered(c, d) = Groups(c, d)
  <2>1. \A d \in 0 .. o : /\ Covered(c, d) = Groups(c, d) * (IF d = 0 THEN g ELSE 1)
                          /\ Groups(c, d) \in Nat
    BY GroupsFacts
  <2> QED  BY <1>1, <2>1
<1> HIDE DEF g
<1>7. g * P[0] + m \in Nat /\ g * P[0] + m < Groups(c, 0) * g
  <2> DEFINE x == P[0]
             n == Groups(c, 0)
  <2>1. x \in Nat /\ n \in Nat /\ x < n  BY <1>1, <1>2, <1>3
  <2> HIDE DEF x, n
  <2>2. n - 1 - x \in Nat  BY <2>1
  <2>3. g * x \in Nat /\ g * (n - 1 - x) \in Nat  BY <1>4, <2>1, <2>2
  <2>4. n * g = g * x + g + g * (n - 1 - x)  BY <1>4, <2>1
  <2>5. g * x + m \in Nat /\ g * x + m < n * g  BY <1>4, <2>3, <2>4
  <2> QED  BY <2>5 DEF x, n
<1>8. ix \in [0 .. o -> Nat] /\ \A d \in 0 .. o : ix[d] < Covered(c, d)
  <2>1. \A d \in 0 .. o : ix[d] \in Nat /\ ix[d] < Covered(c, d)
    BY <1>3, <1>5, <1>6, <1>7
  <2>2. DOMAIN ix = 0 .. o /\ ix = [d \in 0 .. o |-> ix[d]]  BY DEF Lane
  <2> HIDE DEF ix, o
  <2> QED  BY <2>1, <2>2
<1>9. ix \in Reached(c) /\ ix \in Indices(c)
  <2> HIDE DEF ix
  <2>1. ix \in Reached(c)  BY <1>8, ReachedAre
  <2> QED  BY <2>1 DEF Reached
<1>10. ix[o] \div unit = P[o] /\ Covered(c, o) \div unit = Groups(c, o)
  <2>1. CASE c.d = 1
    <3>1. unit = g /\ o = 0  BY <2>1, <1>1 DEF g
    <3> DEFINE x == P[0]
               n == Groups(c, 0)
    <3>2. x \in Nat /\ n \in Nat  BY <1>1, <1>2, <1>3
    <3> HIDE DEF x, n
    <3>3. (g * x + m) \div g = x
      <4>1. x * g + m = g * x + m  BY <1>4, <3>2
      <4>2. (x * g + m) \div g = x  BY <1>4, <3>2
      <4> QED  BY <4>1, <4>2
    <3>4. (n * g) \div g = n  BY <1>4, <3>2
    <3> QED  BY <1>5, <1>6, <3>1, <3>3, <3>4 DEF x, n
  <2>2. CASE c.d # 1
    <3>1. unit = 1 /\ o # 0  BY <2>2, <1>1
    <3>2. ix[o] = P[o] /\ Covered(c, o) = Groups(c, o) /\ P[o] \in Int /\ Groups(c, o) \in Int
      BY <1>1, <1>2, <1>5, <1>6, <3>1
    <3> HIDE DEF ix, unit, o
    <3> QED  BY <3>1, <3>2
  <2> QED  BY <2>1, <2>2
<1>11. P[o] \in Block(q, Groups(c, o))
  <2>1. /\ Origin(c, q, o) = Start(q, Groups(c, o))
        /\ Iters(c, q, o) = Share(q, Groups(c, o))
    BY DEF Origin, Iters
  <2> HIDE DEF o
  <2> QED  BY <1>1, <1>2, <2>1 DEF Block
<1>12. OwnWords[c][q] = { OutAt(c, jx) : jx \in { kx \in Indices(c) :
          (kx[o] \div unit) \in Block(q, Covered(c, o) \div unit) } }
  BY DEF OwnWords
<1> HIDE DEF ix, o, unit
<1>13. ix \in { kx \in Indices(c) :
          (kx[o] \div unit) \in Block(q, Covered(c, o) \div unit) }
  BY <1>9, <1>10, <1>11
<1> QED  BY <1>9, <1>12, <1>13 DEF ix

\* The parts of two QPUs have no word in common.
LEMMA OwnApart ==
    ASSUME NEW c \in Calls, CallOK(c), Regular(c), NEW p \in QPU, NEW q \in QPU, p # q
    PROVE  OwnWords[c][p] \cap OwnWords[c][q] = {}
<1> DEFINE o == c.d - 1
           unit == IF c.d = 1 THEN GROUP ELSE 1
           n == Covered(c, o) \div unit
           Mine(r) == { kx \in Indices(c) : (kx[o] \div unit) \in Block(r, n) }
<1>1. OwnWords[c][p] = { OutAt(c, jx) : jx \in Mine(p) }
      /\ OwnWords[c][q] = { OutAt(c, jx) : jx \in Mine(q) }
  BY DEF OwnWords
<1>2. n \in Nat
  <2>1. Covered(c, o) \in Nat /\ unit \in Nat \ {0}
    BY ShapeFacts, GroupsFacts, Machine
  <2> HIDE DEF unit, o
  <2> QED  BY <2>1
<1>3. Block(p, n) \cap Block(q, n) = {}
  <2> HIDE DEF n
  <2> QED  BY <1>2, SplitDisjoint
<1> HIDE DEF n, unit, o
<1>4. ASSUME NEW ix \in Mine(p), NEW jx \in Mine(q), OutAt(c, ix) = OutAt(c, jx)
      PROVE  FALSE
  <2>1. ix \in Indices(c) /\ jx \in Indices(c)  BY <1>4
  <2>2. SliceOK(c, c.out, c.ostart)  BY SlicesOK
  <2>3. ElementAt(c, c.out, c.ostart, ix) = ElementAt(c, c.out, c.ostart, jx)
    BY <1>4 DEF OutAt
  <2>4. ix = jx  BY <2>1, <2>2, <2>3, ElementsDistinct
  <2>5. (ix[o] \div unit) \in Block(p, n) /\ (jx[o] \div unit) \in Block(q, n)  BY <1>4
  <2> QED  BY <1>3, <2>4, <2>5
<1> HIDE DEF Mine
<1> QED  BY <1>1, <1>4

LEMMA ReferenceFacts ==
    ASSUME NEW c \in Calls, CallOK(c), Regular(c)
    PROVE  /\ \A ix \in Indices(c) : /\ OutAt(c, ix) \in DOMAIN Reference[c]
                                     /\ Reference[c][OutAt(c, ix)] = ValueAt(c, ix)
           /\ \A a \in DOMAIN Reference[c] : \E ix \in Indices(c) : a = OutAt(c, ix)
<1> DEFINE S == { OutAt(c, ix) : ix \in Indices(c) }
<1>1. Reference[c] = [a \in S |-> ValueAt(c, CHOOSE ix \in Indices(c) : OutAt(c, ix) = a)]
  BY DEF Reference
<1>2. DOMAIN Reference[c] = S  BY <1>1
<1>3. ASSUME NEW ix \in Indices(c)
      PROVE  OutAt(c, ix) \in S /\ Reference[c][OutAt(c, ix)] = ValueAt(c, ix)
  <2> DEFINE a == OutAt(c, ix)
             jx == CHOOSE jx \in Indices(c) : OutAt(c, jx) = a
  <2>1. a \in S  OBVIOUS
  <2>2. jx \in Indices(c) /\ OutAt(c, jx) = a  OBVIOUS
  <2>3. SliceOK(c, c.out, c.ostart)  BY SlicesOK
  <2>4. ElementAt(c, c.out, c.ostart, jx) = ElementAt(c, c.out, c.ostart, ix)
    <3> HIDE DEF jx
    <3> QED  BY <2>2 DEF OutAt, a
  <2>5. jx = ix
    <3> HIDE DEF jx
    <3> QED  BY <2>2, <2>3, <2>4, ElementsDistinct
  <2>6. Reference[c][a] = ValueAt(c, jx)  BY <1>1, <2>1
  <2> QED  BY <2>1, <2>5, <2>6
<1> QED  BY <1>2, <1>3

-----------------------------------------------------------------------------
(* The arithmetic of a register.                                           *)

LEMMA ModShift ==
    ASSUME NEW n \in Nat \ {0}, NEW a \in Int, NEW k \in Int
    PROVE  (a + n * k) % n = a % n
<1> DEFINE b == a + n * k
           u == a \div n
           v == b \div n
           r == a % n
           s == b % n
<1>1. n * k \in Int /\ b \in Int  OBVIOUS
<1>2. /\ u \in Int /\ v \in Int /\ r \in 0 .. n - 1 /\ s \in 0 .. n - 1
      /\ a = n * u + r /\ b = n * v + s
  <2> HIDE DEF b
  <2> QED  BY <1>1
<1>3. b = a + n * k  OBVIOUS
<1> HIDE DEF b, u, v, r, s
<1>4. n * (u + k) = n * u + n * k /\ n * u \in Int /\ n * v \in Int  BY <1>2
<1>5. r + n * (u + k) = s + n * v  BY <1>1, <1>2, <1>3, <1>4
<1>6. u + k \in Int  BY <1>2
<1>7. r = s  BY ONLY n \in Nat \ {0}, <1>2, <1>5, <1>6, QuotientUnique
<1> QED  BY <1>7 DEF b, r, s

\* Only remainders matter to a sum or a difference.
LEMMA ModSum ==
    ASSUME NEW x \in Int, NEW y \in Int
    PROVE  /\ ((x % WORD) + y) % WORD = (x + y) % WORD
           /\ (x + (y % WORD)) % WORD = (x + y) % WORD
           /\ (x - (y % WORD)) % WORD = (x - y) % WORD
<1> DEFINE n == WORD
<1>1. n \in Nat \ {0}  BY Machine
<1> HIDE DEF n
<1>2. \A z \in Int : z % n \in Int /\ z \div n \in Int /\ z = (z % n) + n * (z \div n)
  BY <1>1
<1>3. \A z \in Int : n * (z \div n) \in Int /\ n * (-(z \div n)) = -(n * (z \div n))
  BY <1>1, <1>2
<1>4. ((x % n) + y) % n = (x + y) % n
  <2>1. x + y = ((x % n) + y) + n * (x \div n)  BY <1>2, <1>3
  <2>2. (x % n) + y \in Int /\ x \div n \in Int  BY <1>2
  <2> QED  BY <1>1, <2>1, <2>2, ModShift
<1>5. (x + (y % n)) % n = (x + y) % n
  <2>1. x + y = (x + (y % n)) + n * (y \div n)  BY <1>2, <1>3
  <2>2. x + (y % n) \in Int /\ y \div n \in Int  BY <1>2
  <2> QED  BY <1>1, <2>1, <2>2, ModShift
<1>6. (x - (y % n)) % n = (x - y) % n
  <2>1. x - y = (x - (y % n)) + n * (-(y \div n))  BY <1>2, <1>3
  <2>2. x - (y % n) \in Int /\ -(y \div n) \in Int  BY <1>2
  <2> QED  BY <1>1, <2>1, <2>2, ModShift
<1> QED  BY <1>4, <1>5, <1>6 DEF n

\* mul24 is exact, as far as a register goes, on factors of 24 bits.
LEMMA Mul24Exact ==
    ASSUME NEW a \in 0 .. W24 - 1, NEW b \in 0 .. W24 - 1
    PROVE  Mul24(a, b) = (a * b) % WORD
<1>1. a % W24 = a /\ b % W24 = b  BY Machine
<1> QED  BY <1>1 DEF Mul24

-----------------------------------------------------------------------------
(* Where a group begins.                                                   *)

GroupAt(c, base, start, P) == ElementAt(c, base, start, Lane(c, P, 0))

\* Bytes from a group to the next along dimension e.
Pitch(c, e) == IF e = 0 THEN 4 * GROUP ELSE ByteStride(c)[e]

LEMMA GroupIsInt ==
    ASSUME NEW c, CallOK(c), NEW base \in Int, NEW start \in Coords(c), NEW P \in Coords(c)
    PROVE  GroupAt(c, base, start, P) \in Int
<1>1. Lane(c, P, 0) \in Coords(c)  BY LaneIsCoords
<1> QED  BY <1>1, ElementIsOffset DEF GroupAt

LEMMA LaneAddress ==
    ASSUME NEW c, CallOK(c), NEW base \in Int, NEW start \in Coords(c),
           NEW P \in Coords(c), NEW m \in Int
    PROVE  ElementAt(c, base, start, Lane(c, P, m)) = GroupAt(c, base, start, P) + 4 * m
<1> DEFINE x == Lane(c, P, 0)
           v == GROUP * P[0] + m
<1>1. 0 \in 0 .. c.d - 1 /\ ByteStride(c)[0] = 4  BY ShapeFacts, StrideFacts
<1>2. P[0] \in Int /\ GROUP \in Int  BY <1>1, Machine DEF Coords
<1>3. GROUP * P[0] \in Int
  <2> HIDE DEF GROUP
  <2> QED  BY <1>2
<1>4. x \in Coords(c) /\ v \in Int  BY <1>3, LaneIsCoords
<1>5. x[0] = GROUP * P[0] + 0  BY <1>1 DEF Lane
<1>6. Lane(c, P, m) = [x EXCEPT ![0] = v]
  BY <1>1 DEF Lane
<1>7. ElementAt(c, base, start, [x EXCEPT ![0] = v])
        = ElementAt(c, base, start, x) + ByteStride(c)[0] * (v - x[0])
  <2> HIDE DEF x, v
  <2> QED  BY <1>1, <1>4, ElementShift
<1>8. v - x[0] = m  BY <1>3, <1>5
<1> HIDE DEF x, v
<1> QED  BY <1>1, <1>6, <1>7, <1>8 DEF GroupAt, x

LEMMA GroupShift ==
    ASSUME NEW c, CallOK(c), NEW base \in Int, NEW start \in Coords(c),
           NEW P \in Coords(c), NEW e \in 0 .. c.d - 1, NEW v \in Int
    PROVE  /\ [P EXCEPT ![e] = v] \in Coords(c)
           /\ GroupAt(c, base, start, [P EXCEPT ![e] = v])
                = GroupAt(c, base, start, P) + Pitch(c, e) * (v - P[e])
<1> DEFINE x == Lane(c, P, 0)
           Q == [P EXCEPT ![e] = v]
           g == GROUP
           u == IF e = 0 THEN g * v ELSE v
           w == ByteStride(c)[e]
<1>1. 0 \in 0 .. c.d - 1 /\ ByteStride(c)[0] = 4 /\ w \in Nat /\ c.d \in Nat
  <2>1. 0 \in 0 .. c.d - 1 /\ c.d \in Nat  BY ShapeFacts
  <2>2. ByteStride(c)[0] = 4 /\ w \in Nat  BY StrideFacts, <2>1
  <2> QED  BY <2>1, <2>2
<1>2. P[0] \in Int /\ P[e] \in Int /\ g \in Int
  <2>1. g \in Int
    <3> HIDE DEF g
    <3> QED  BY Machine DEF g
  <2>2. P[0] \in Int /\ P[e] \in Int  BY <1>1 DEF Coords
  <2> QED  BY <2>1, <2>2
<1>3. Q \in Coords(c)  BY DEF Coords
<1>4. Q[e] = v /\ \A d \in 0 .. c.d - 1 : d # e => Q[d] = P[d]  BY DEF Coords
<1>5. x \in Coords(c)  BY LaneIsCoords
<1> HIDE DEF g
<1>6. u \in Int
  <2>1. g * v \in Int  BY <1>2
  <2> QED  BY <2>1
<1>7. x[e] = IF e = 0 THEN g * P[0] + 0 ELSE P[e]  BY DEF Lane, g
<1>8. Lane(c, Q, 0) = [x EXCEPT ![e] = u]
  <2>1. \A d \in 0 .. c.d - 1 : Lane(c, Q, 0)[d] = [x EXCEPT ![e] = u][d]
    <3> SUFFICES ASSUME NEW d \in 0 .. c.d - 1
                 PROVE  Lane(c, Q, 0)[d] = [x EXCEPT ![e] = u][d]
      OBVIOUS
    <3>1. Lane(c, Q, 0)[d] = IF d = 0 THEN g * Q[0] + 0 ELSE Q[d]  BY DEF Lane, g
    <3>2. x[d] = IF d = 0 THEN g * P[0] + 0 ELSE P[d]  BY DEF Lane, g
    <3>3. [x EXCEPT ![e] = u][d] = IF d = e THEN u ELSE x[d]  BY <1>5 DEF Coords
    <3>4. CASE d = e
      <4>1. g * v \in Int  BY <1>2
      <4> HIDE DEF Q, x
      <4> QED  BY <1>4, <3>1, <3>3, <3>4, <4>1
    <3>5. CASE d # e
      <4>1. Q[d] = P[d]  BY <1>4, <3>5
      <4> HIDE DEF Q, x
      <4> QED  BY <3>1, <3>2, <3>3, <3>5, <4>1
    <3> QED  BY <3>4, <3>5
  <2>2. /\ Lane(c, Q, 0) = [d \in 0 .. c.d - 1 |-> Lane(c, Q, 0)[d]]
        /\ [x EXCEPT ![e] = u] = [d \in 0 .. c.d - 1 |-> [x EXCEPT ![e] = u][d]]
    <3>1. Lane(c, Q, 0) \in Coords(c) /\ [x EXCEPT ![e] = u] \in Coords(c)
      <4>1. Lane(c, Q, 0) \in Coords(c)  BY <1>3, LaneIsCoords
      <4> HIDE DEF x, u
      <4> QED  BY <1>5, <1>6, <4>1 DEF Coords
    <3> HIDE DEF x, u, Q
    <3> QED  BY <3>1 DEF Coords
  <2> HIDE DEF x, u, Q
  <2> QED  BY <2>1, <2>2
<1>9. ElementAt(c, base, start, [x EXCEPT ![e] = u])
        = ElementAt(c, base, start, x) + ByteStride(c)[e] * (u - x[e])
  <2> HIDE DEF x, u
  <2> QED  BY <1>5, <1>6, ElementShift
<1>10. w * (u - x[e]) = Pitch(c, e) * (v - P[e])
  <2>1. CASE e = 0
    <3>1. w = 4 /\ Pitch(c, e) = 4 * g  BY <1>1, <2>1 DEF Pitch, g
    <3>2. u - x[e] = g * v - (g * P[e] + 0)  BY <1>7, <2>1
    <3> HIDE DEF u, w, x
    <3>3. 4 * (g * v - (g * P[e] + 0)) = (4 * g) * (v - P[e])  BY <1>2
    <3> QED  BY <3>1, <3>2, <3>3
  <2>2. CASE e # 0  BY <1>7, <2>2 DEF Pitch
  <2> QED  BY <2>1, <2>2
<1> HIDE DEF x, u, Q, w
<1>11. GroupAt(c, base, start, Q) = GroupAt(c, base, start, P) + w * (u - x[e])
  BY <1>8, <1>9 DEF GroupAt, x, w
<1> QED  BY <1>3, <1>10, <1>11 DEF Q

\* Group words as the DMA engine counts them: lane l of tile k.
LEMMA TileLane ==
    ASSUME NEW k \in Tiles, NEW l \in Lanes
    PROVE  k * LANES + l \in 0 .. GROUP - 1
BY Machine, TableIndex DEF Tiles, Lanes, GROUP

LEMMA WordOfLane ==
    ASSUME NEW c \in Calls, CallOK(c), NEW base, NEW start, SliceOK(c, base, start),
           NEW q \in QPU, NEW P, InShare(c, q, P), NEW k \in Tiles, NEW l \in Lanes
    PROVE  WordAt(GroupAt(c, base, start, P) % WORD, k, l)
             = ElementAt(c, base, start, Lane(c, P, k * LANES + l))
<1> DEFINE m == k * LANES + l
           G == GroupAt(c, base, start, P)
<1>1. m \in 0 .. GROUP - 1 /\ m \in Int  BY TileLane, Machine
<1>2. P \in Coords(c) /\ base \in Int /\ start \in Coords(c)  BY DEF InShare, SliceOK
<1> HIDE DEF m
<1>3. ElementAt(c, base, start, Lane(c, P, m)) = G + 4 * m  BY <1>1, <1>2, LaneAddress
<1>4. Lane(c, P, m) \in Indices(c)  BY <1>1, LaneInShare
<1>5. ElementAt(c, base, start, Lane(c, P, m)) \in Words  BY <1>4, ElementInMemory
<1>6. G \in Int  BY <1>2, GroupIsInt
<1> HIDE DEF G
<1>7. ((G % WORD) + 4 * m) % WORD = (G + 4 * m) % WORD  BY <1>1, <1>6, ModSum
<1>8. (G + 4 * m) % WORD = G + 4 * m  BY <1>3, <1>5, Machine DEF Words
<1> QED  BY <1>3, <1>7, <1>8 DEF WordAt, m, G

-----------------------------------------------------------------------------
(* The walk through a QPU's part.                                          *)

\* The group QPU q is at in the body, and the one its pointers are at when it
\* comes to the end of loop p: the inner loops are over, and loop p - 1 left the
\* pointers one past its last index.
AtBody(c, q, cnt) ==
    [d \in 0 .. c.d - 1 |-> Origin(c, q, d) + Iters(c, q, d) - cnt[d]]
AtLoop(c, q, p, cnt) ==
    [d \in 0 .. c.d - 1 |->
       Origin(c, q, d) + (IF d < p - 1 THEN 0
                          ELSE IF d = p - 1 THEN Iters(c, q, d)
                          ELSE Iters(c, q, d) - cnt[d] + (IF d = 0 THEN 1 ELSE 0))]

Counts(c) == [0 .. c.d - 1 -> Nat]

LEMMA PlaceIsCoords ==
    ASSUME NEW c, CallOK(c), NEW q \in QPU, NEW cnt \in Counts(c), NEW p \in Nat
    PROVE  AtBody(c, q, cnt) \in Coords(c) /\ AtLoop(c, q, p, cnt) \in Coords(c)
<1>1. \A d \in 0 .. c.d - 1 : /\ Origin(c, q, d) \in Int /\ Iters(c, q, d) \in Int
                              /\ cnt[d] \in Int
  BY PartFacts DEF Counts
<1> QED  BY <1>1 DEF AtBody, AtLoop, Coords

LEMMA BodyInShare ==
    ASSUME NEW c, CallOK(c), NEW q \in QPU, NEW cnt \in Counts(c),
           \A d \in 0 .. c.d - 1 : cnt[d] \in 1 .. Iters(c, q, d)
    PROVE  InShare(c, q, AtBody(c, q, cnt))
<1>1. AtBody(c, q, cnt) \in Coords(c)  BY PlaceIsCoords
<1>2. ASSUME NEW d \in 0 .. c.d - 1
      PROVE  /\ Origin(c, q, d) <= AtBody(c, q, cnt)[d]
             /\ AtBody(c, q, cnt)[d] < Origin(c, q, d) + Iters(c, q, d)
  <2>1. Origin(c, q, d) \in Nat /\ Iters(c, q, d) \in Nat  BY PartFacts
  <2>2. cnt[d] \in 1 .. Iters(c, q, d)  OBVIOUS
  <2>3. AtBody(c, q, cnt)[d] = Origin(c, q, d) + Iters(c, q, d) - cnt[d]  BY DEF AtBody
  <2> QED  BY <2>1, <2>2, <2>3
<1> QED  BY <1>1, <1>2 DEF InShare

\* Advance moves on by one group of the innermost dimension.
LEMMA AdvancePlace ==
    ASSUME NEW c, CallOK(c), NEW q \in QPU, NEW cnt \in Counts(c)
    PROVE  AtLoop(c, q, 0, cnt) = [AtBody(c, q, cnt) EXCEPT ![0] = AtBody(c, q, cnt)[0] + 1]
<1> DEFINE B == AtBody(c, q, cnt)
           L == AtLoop(c, q, 0, cnt)
           M == [B EXCEPT ![0] = B[0] + 1]
<1>1. 0 \in 0 .. c.d - 1 /\ c.d \in Nat  BY ShapeFacts
<1>2. ASSUME NEW d \in 0 .. c.d - 1 PROVE L[d] = M[d]
  <2>1. Origin(c, q, d) \in Int /\ Iters(c, q, d) \in Int /\ cnt[d] \in Int
    BY PartFacts DEF Counts
  <2>2. B[d] = Origin(c, q, d) + Iters(c, q, d) - cnt[d]  BY DEF AtBody
  <2>3. M[d] = IF d = 0 THEN B[0] + 1 ELSE B[d]  BY DEF AtBody
  <2>4. L[d] = Origin(c, q, d) + (Iters(c, q, d) - cnt[d] + (IF d = 0 THEN 1 ELSE 0))
    BY <1>1 DEF AtLoop
  <2> HIDE DEF B, L, M
  <2> QED  BY <2>1, <2>2, <2>3, <2>4
<1>3. L = [d \in 0 .. c.d - 1 |-> L[d]] /\ M = [d \in 0 .. c.d - 1 |-> M[d]]
  BY DEF AtLoop, AtBody
<1> HIDE DEF L, M, B
<1>4. L = M  BY <1>2, <1>3
<1> QED  BY <1>4 DEF L, M, B

\* Where the end of the body of loop d leaves the pointers.
Onward(P, d) == IF d = 0 THEN P ELSE [[P EXCEPT ![d - 1] = 0] EXCEPT ![d] = P[d] + 1]

\* Branching back in loop d starts the inner loops afresh.
LEMMA AgainPlace ==
    ASSUME NEW c, CallOK(c), NEW q \in QPU, NEW d \in 0 .. c.d - 1,
           NEW cnt \in Counts(c), NEW new \in Counts(c),
           new = [e \in 0 .. c.d - 1 |-> IF e < d THEN Iters(c, q, e)
                                         ELSE IF e = d THEN cnt[d] - 1 ELSE cnt[e]]
    PROVE  AtBody(c, q, new) = Onward(AtLoop(c, q, d, cnt), d)
<1> DEFINE B == AtBody(c, q, new)
           L == AtLoop(c, q, d, cnt)
           M == Onward(L, d)
<1>1. c.d \in Nat /\ d \in Nat /\ 0 \in 0 .. c.d - 1  BY ShapeFacts
<1>2. \A e \in 0 .. c.d - 1 : /\ Origin(c, q, e) \in Int /\ Iters(c, q, e) \in Int
                              /\ cnt[e] \in Int
                              /\ (e # c.d - 1 => Origin(c, q, e) = 0)
  BY PartFacts DEF Counts, Origin
<1>3. M \in Coords(c) /\ L \in Coords(c) /\ B \in Coords(c)
  <2>1. L \in Coords(c) /\ B \in Coords(c)  BY <1>1, PlaceIsCoords
  <2> HIDE DEF L, B
  <2>2. L[d] + 1 \in Int  BY <2>1 DEF Coords
  <2> QED  BY <2>1, <2>2 DEF Onward, Coords
<1>4. ASSUME NEW e \in 0 .. c.d - 1 PROVE B[e] = M[e]
  <2>1. B[e] = Origin(c, q, e) + Iters(c, q, e) -
               (IF e < d THEN Iters(c, q, e) ELSE IF e = d THEN cnt[d] - 1 ELSE cnt[e])
    BY DEF AtBody
  <2>2. L[e] = Origin(c, q, e) + (IF e < d - 1 THEN 0
                          ELSE IF e = d - 1 THEN Iters(c, q, e)
                          ELSE Iters(c, q, e) - cnt[e] + (IF e = 0 THEN 1 ELSE 0))
    BY DEF AtLoop
  <2> HIDE DEF B, L
  <2>3. CASE d = 0
    <3>1. M[e] = L[e]  BY <2>3 DEF Onward
    <3> HIDE DEF M
    <3> QED  BY <1>1, <1>2, <2>1, <2>2, <2>3, <3>1
  <2>4. CASE d # 0
    <3>1. M[e] = IF e = d THEN L[d] + 1 ELSE IF e = d - 1 THEN 0 ELSE L[e]
      BY <1>1, <1>3, <2>4 DEF Onward, Coords
    <3> HIDE DEF M
    <3>2. e < d => Origin(c, q, e) = 0  BY <1>1, <1>2
    <3>3. /\ Origin(c, q, e) \in Int /\ Iters(c, q, e) \in Int /\ cnt[e] \in Int
          /\ e \in Int /\ d \in Int
      BY <1>1, <1>2
    <3>4. CASE e < d
      BY ONLY <2>1, <2>2, <2>4, <3>1, <3>2, <3>3, <3>4
    <3>5. CASE e = d
      BY ONLY <1>1, <2>1, <2>2, <2>4, <3>1, <3>3, <3>5
    <3>6. CASE e > d
      BY ONLY <1>1, <2>1, <2>2, <2>4, <3>1, <3>3, <3>6
    <3> QED  BY <3>3, <3>4, <3>5, <3>6
  <2> QED  BY <2>3, <2>4
<1> HIDE DEF B, M, L
<1>5. B = [e \in 0 .. c.d - 1 |-> B[e]] /\ M = [e \in 0 .. c.d - 1 |-> M[e]]
  BY <1>3 DEF Coords
<1>6. B = M  BY <1>4, <1>5
<1> QED  BY <1>6 DEF B, M, L

\* Falling out of loop d leaves it one past its last index.
LEMMA ExitPlace ==
    ASSUME NEW c, CallOK(c), NEW q \in QPU, NEW d \in 0 .. c.d - 1, d # c.d - 1,
           NEW cnt \in Counts(c), cnt[d] = 1, NEW new \in Counts(c),
           \A e \in 0 .. c.d - 1 : e > d => new[e] = cnt[e]
    PROVE  AtLoop(c, q, d + 1, new) = Onward(AtLoop(c, q, d, cnt), d)
<1> DEFINE B == AtLoop(c, q, d + 1, new)
           L == AtLoop(c, q, d, cnt)
           M == Onward(L, d)
<1>1. c.d \in Nat /\ d \in Nat /\ 0 \in 0 .. c.d - 1  BY ShapeFacts
<1>2. \A e \in 0 .. c.d - 1 : /\ Origin(c, q, e) \in Int /\ Iters(c, q, e) \in Int
                              /\ cnt[e] \in Int
                              /\ (e # c.d - 1 => Origin(c, q, e) = 0)
  BY PartFacts DEF Counts, Origin
<1>3. M \in Coords(c) /\ L \in Coords(c) /\ B \in Coords(c)
  <2>1. L \in Coords(c) /\ B \in Coords(c)  BY <1>1, PlaceIsCoords
  <2> HIDE DEF L, B
  <2>2. L[d] + 1 \in Int  BY <2>1 DEF Coords
  <2> QED  BY <2>1, <2>2 DEF Onward, Coords
<1>4. ASSUME NEW e \in 0 .. c.d - 1 PROVE B[e] = M[e]
  <2>1. B[e] = Origin(c, q, e) + (IF e < d THEN 0
                          ELSE IF e = d THEN Iters(c, q, e)
                          ELSE Iters(c, q, e) - new[e] + (IF e = 0 THEN 1 ELSE 0))
    BY <1>1 DEF AtLoop
  <2>2. L[e] = Origin(c, q, e) + (IF e < d - 1 THEN 0
                          ELSE IF e = d - 1 THEN Iters(c, q, e)
                          ELSE Iters(c, q, e) - cnt[e] + (IF e = 0 THEN 1 ELSE 0))
    BY DEF AtLoop
  <2>3. e > d => new[e] = cnt[e]  OBVIOUS
  <2> HIDE DEF B, L
  <2>4. CASE d = 0
    <3>1. M[e] = L[e]  BY <2>4 DEF Onward
    <3> HIDE DEF M
    <3> QED  BY <1>1, <1>2, <2>1, <2>2, <2>3, <2>4, <3>1
  <2>5. CASE d # 0
    <3>1. M[e] = IF e = d THEN L[d] + 1 ELSE IF e = d - 1 THEN 0 ELSE L[e]
      BY <1>1, <1>3, <2>5 DEF Onward, Coords
    <3> HIDE DEF M
    <3>2. e < d => Origin(c, q, e) = 0  BY <1>1, <1>2
    <3> QED  BY <1>1, <1>2, <2>1, <2>2, <2>3, <2>5, <3>1, <3>2
  <2> QED  BY <2>4, <2>5
<1> HIDE DEF B, M, L
<1>5. B = [e \in 0 .. c.d - 1 |-> B[e]] /\ M = [e \in 0 .. c.d - 1 |-> M[e]]
  BY <1>3 DEF Coords
<1>6. B = M  BY <1>4, <1>5
<1> QED  BY <1>6 DEF B, M, L

\* How far that moves the pointers: forward, or not at all.
Travel(c, q, d) ==
    IF d = 0 THEN 0 ELSE ByteStride(c)[d] - Pitch(c, d - 1) * Iters(c, q, d - 1)

LEMMA TravelFacts ==
    ASSUME NEW c, CallOK(c), Regular(c), NEW q \in QPU, NEW d \in 0 .. c.d - 1
    PROVE  /\ Travel(c, q, d) \in Nat
           /\ d # 0 => /\ Pitch(c, d - 1) \in 0 .. W24 - 1
                       /\ Iters(c, q, d - 1) \in 0 .. W24 - 1
<1>1. CASE d = 0  BY <1>1 DEF Travel
<1>2. CASE d # 0
  <2> DEFINE e == d - 1
             w == ByteStride(c)
             g == GROUP
             n == Groups(c, e)
             k == Covered(c, e)
             m == c.dim[e]
  <2>1. /\ c.d \in Nat \ {0} /\ e \in 0 .. c.d - 1 /\ e # c.d - 1 /\ d \in Nat
        /\ d \in 0 .. c.d /\ e \in 0 .. c.d /\ d = e + 1
    BY <1>2, ShapeFacts
  <2>2. /\ w[e] \in Nat /\ w[d] \in Nat /\ w[d] = w[e] * m /\ w[0] = 4
        /\ g \in Nat \ {0} /\ m \in Nat /\ c.size[e] \in Nat
    <3> HIDE DEF e
    <3>1. w[e + 1] = w[e] * m  BY <2>1, StrideFacts DEF e
    <3> QED  BY <2>1, <3>1, StrideFacts, ShapeFacts, Machine
  <2>3. /\ n \in Nat /\ k \in Nat /\ k = n * (IF e = 0 THEN g ELSE 1)
        /\ k <= c.size[e]
    BY <2>1, GroupsFacts
  <2>4. Iters(c, q, e) = n  BY <2>1 DEF Iters
  <2>5. /\ c.ostart[e] \in Nat /\ c.ostart[e] + c.size[e] <= m
        /\ w[e] < W24 /\ w[d] < W24 /\ m < W24
    <3>1. Addressable(c)  BY DEF Regular
    <3>2. c.ostart[e] \in Nat  BY <2>1, ShapeFacts
    <3> HIDE DEF e
    <3> QED  BY <2>1, <3>1, <3>2 DEF Addressable
  <2>6. k <= m  BY <2>2, <2>3, <2>5
  <2>7. n >= 1
    <3>1. FullShares(c)  BY DEF Regular
    <3> QED  BY <2>1, <3>1 DEF FullShares, Groups
  <2>8. Pitch(c, e) = IF e = 0 THEN 4 * g ELSE w[e]  BY DEF Pitch
  <2>9. Travel(c, q, d) = w[d] - Pitch(c, e) * n  BY <1>2, <2>4 DEF Travel
  <2> HIDE DEF e, w, g, n, k, m
  <2>10. Pitch(c, e) * n = w[e] * k
    <3>1. CASE e = 0
      <4>1. (4 * g) * n = 4 * (n * g)  BY <2>2, <2>3
      <4> QED  BY <2>2, <2>3, <2>8, <3>1, <4>1
    <3>2. CASE e # 0  BY <2>3, <2>8, <3>2
    <3> QED  BY <3>1, <3>2
  <2>11. w[e] * m - w[e] * k \in Nat
    <3>1. m - k \in Nat  BY <2>2, <2>3, <2>6
    <3>2. w[e] * (m - k) \in Nat  BY <2>2, <3>1
    <3>3. w[e] * (m - k) = w[e] * m - w[e] * k  BY <2>2, <2>3
    <3> QED  BY <3>2, <3>3
  <2>12. n <= k
    <3>1. CASE e = 0
      <4>1. n * (g - 1) \in Nat
        <5>1. g - 1 \in Nat  BY <2>2
        <5> QED  BY <2>3, <5>1
      <4>2. n * g = n + n * (g - 1)  BY <2>2, <2>3
      <4> QED  BY <2>3, <3>1, <4>1, <4>2
    <3>2. CASE e # 0  BY <2>3, <3>2
    <3> QED  BY <3>1, <3>2
  <2>13. n \in 0 .. W24 - 1  BY <2>2, <2>3, <2>5, <2>6, <2>12, Machine
  <2>14. Pitch(c, e) \in 0 .. W24 - 1
    <3>1. CASE e = 0
      <4>1. g <= n * g
        <5>1. n - 1 \in Nat  BY <2>3, <2>7
        <5>2. (n - 1) * g \in Nat /\ n * g = g + (n - 1) * g  BY <2>2, <2>3, <5>1
        <5>3. n * g \in Nat  BY <2>2, <2>3
        <5> QED  BY <2>2, <5>2, <5>3
      <4>2. k = n * g  BY <2>3, <3>1
      <4>3. g <= m  BY <2>2, <2>3, <2>6, <4>1, <4>2
      <4>4. w[d] = 4 * m  BY <2>2, <3>1
      <4> QED  BY <2>2, <2>5, <2>8, <3>1, <4>3, <4>4, Machine
    <3>2. CASE e # 0  BY <2>2, <2>5, <2>8, <3>2, Machine
    <3> QED  BY <3>1, <3>2
  <2>15. Travel(c, q, d) \in Nat  BY <2>2, <2>9, <2>10, <2>11
  <2> QED  BY <2>4, <2>13, <2>14, <2>15 DEF e
<1> QED  BY <1>1, <1>2

LEMMA OnwardMoves ==
    ASSUME NEW c, CallOK(c), Regular(c), NEW base \in Int, NEW start \in Coords(c),
           NEW q \in QPU, NEW d \in 0 .. c.d - 1, NEW cnt \in Counts(c)
    PROVE  LET P == AtLoop(c, q, d, cnt)
           IN  /\ Onward(P, d) \in Coords(c)
               /\ GroupAt(c, base, start, Onward(P, d))
                    = GroupAt(c, base, start, P) + Travel(c, q, d)
<1> DEFINE P == AtLoop(c, q, d, cnt)
           G == GroupAt(c, base, start, P)
<1>1. c.d \in Nat /\ d \in Nat  BY ShapeFacts
<1>2. P \in Coords(c)  BY <1>1, PlaceIsCoords
<1>3. G \in Int
  <2> HIDE DEF P
  <2> QED  BY <1>2, GroupIsInt
<1>4. CASE d = 0  BY <1>2, <1>3, <1>4 DEF Onward, Travel
<1>5. CASE d # 0
  <2> DEFINE e == d - 1
             M == [P EXCEPT ![e] = 0]
             Q == [M EXCEPT ![d] = P[d] + 1]
             w == ByteStride(c)[d]
             k == Pitch(c, e) * Iters(c, q, e)
  <2>1. e \in 0 .. c.d - 1 /\ e # c.d - 1 /\ e # d  BY <1>1, <1>5
  <2>2. P[e] = Iters(c, q, e)
    <3>1. P[e] = Origin(c, q, e) + Iters(c, q, e)  BY <1>1, <2>1 DEF AtLoop
    <3>2. Origin(c, q, e) = 0 /\ Iters(c, q, e) \in Nat
      <4> HIDE DEF e
      <4> QED  BY <2>1, PartFacts DEF Origin
    <3> HIDE DEF P, e
    <3> QED  BY <3>1, <3>2
  <2>3. Onward(P, d) = Q  BY <1>5 DEF Onward
  <2> HIDE DEF P, e
  <2>4. P[d] \in Int /\ P[d] + 1 \in Int  BY <1>2 DEF Coords
  <2>5. M[d] = P[d]  BY <1>2, <2>1 DEF Coords
  <2>6. /\ M \in Coords(c)
        /\ GroupAt(c, base, start, M) = G + Pitch(c, e) * (0 - P[e])
    BY <1>2, <2>1, GroupShift
  <2> HIDE DEF M
  <2>7. /\ Q \in Coords(c)
        /\ GroupAt(c, base, start, Q)
             = GroupAt(c, base, start, M) + Pitch(c, d) * ((P[d] + 1) - M[d])
    BY <2>4, <2>6, GroupShift
  <2>8. Pitch(c, d) = w /\ w \in Nat
    BY <1>1, <1>5, StrideFacts DEF Pitch
  <2>9. (P[d] + 1) - M[d] = 1  BY <2>4, <2>5
  <2>10. Pitch(c, e) \in Int /\ Iters(c, q, e) \in Int
    BY <1>5, TravelFacts, Machine DEF e
  <2>11. k \in Int /\ Pitch(c, e) * (0 - P[e]) = -k  BY <2>2, <2>10
  <2>12. Travel(c, q, d) = w - k  BY <1>5 DEF Travel, e
  <2> HIDE DEF Q, k, w, G
  <2>13. GroupAt(c, base, start, Q) = G + Travel(c, q, d)
    BY <1>3, <2>6, <2>7, <2>8, <2>9, <2>11, <2>12
  <2> QED  BY <2>3, <2>7, <2>13 DEF G, P
<1> QED  BY <1>4, <1>5

-----------------------------------------------------------------------------
(* The pointers follow the loops.                                          *)

Walk == {"body", "take", "pack", "drain", "loop"}

PlaceOf(c, q, label, p, cnt) ==
    IF label = "loop" THEN AtLoop(c, q, p, cnt) ELSE AtBody(c, q, cnt)

\* Pointers at the group P of every slice.
AtGroup(c, P, pt, o) ==
    /\ \A i \in 0 .. c.n - 1 : pt[i] = GroupAt(c, c.ptr[i], c.start[i], P) % WORD
    /\ o = GroupAt(c, c.out, c.ostart, P) % WORD

\* A pointer to which the preamble has added the slice starts of the dimensions
\* below p.
FirstGroup(c, q) == [d \in 0 .. c.d - 1 |-> Origin(c, q, d)]
PartWay(c, q, base, start, p) ==
    (base + Offset(c, Placed(c, start, Lane(c, FirstGroup(c, q), 0)))[p]) % WORD

Aligned(c, q, p, st, pt, o) ==
    /\ \A d \in 0 .. p - 1 : st[d] = ByteStride(c)[d]
    /\ \A i \in 0 .. c.n - 1 : pt[i] = PartWay(c, q, c.ptr[i], c.start[i], p)
    /\ o = PartWay(c, q, c.out, c.ostart, p)

PointersOf(c, q, label, p, st, pt, o, cnt) ==
    /\ label = "setup" => Aligned(c, q, p, st, pt, o)
    /\ label \in Walk => /\ \A d \in 0 .. c.d - 1 : st[d] = ByteStride(c)[d]
                         /\ AtGroup(c, PlaceOf(c, q, label, p, cnt), pt, o)

PointersOK ==
    \A q \in QPU :
       PointersOf(call, q, pc[q], pos[q], stride[q], ptr[q], outp[q], counter[q])

\* What a QPU computes from its stream, by the names used here.
LEMMA StreamValues ==
    ASSUME TypeOK, UnifOK, NEW q \in QPU
    PROVE  /\ unif[q][UOut(call)] = call.out
           /\ \A i \in Inputs : unif[q][UPtr(call, i)] = call.ptr[i]
           /\ \A i \in Inputs, d \in Dims : unif[q][UStart(call, i, d)] = call.start[i][d]
           /\ \A d \in Dims : unif[q][UOutStart(call, d)] = call.ostart[d]
           /\ \A k \in 0 .. call.s - 1 : unif[q][UScalar(call, k)] = call.scalar[k]
<1>1. CallShape(call, Words)  BY CallFacts
<1>2. Words \subseteq Int  BY Machine DEF Words
<1>3. CallShape(call, Int)  BY <1>1, <1>2 DEF CallShape
<1>4. q \in Int  BY Machine DEF QPU
<1>5. unif[q] = HostUniforms(call, q)  BY DEF UnifOK
<1> QED  BY <1>3, <1>4, <1>5, StreamAgrees DEF Inputs, Dims

LEMMA PartValues ==
    ASSUME TypeOK, UnifOK, NEW q \in QPU, NEW d \in Dims
    PROVE  /\ NumIter(q, d) = Iters(call, q, d)
           /\ \A s \in Int : Shifted(q, d, s) = s + Lane(call, FirstGroup(call, q), 0)[d]
<1>1. CallOK(call) /\ call.d - 1 \in Dims /\ call.d \in Nat \ {0}
  BY CallFacts, ShapeFacts
<1>2. QNum(q) = q /\ \A e \in Dims : Size(q, e) = call.size[e]  BY StreamFacts
<1>3. \A e \in Dims : Units(q, e) = Groups(call, e)
  BY <1>1, <1>2 DEF Units, Groups, Dims
<1>4. NumIter(q, d) = Iters(call, q, d)  BY <1>2, <1>3 DEF NumIter, Iters
<1>5. ASSUME NEW s \in Int
      PROVE  Shifted(q, d, s) = s + Lane(call, FirstGroup(call, q), 0)[d]
  <2> DEFINE o == call.d - 1
             b == Start(q, Groups(call, o))
             g == GROUP
  <2>1. b \in Int /\ g \in Int
    <3>1. Groups(call, o) \in Nat  BY <1>1, GroupsFacts DEF Dims
    <3> QED  BY <3>1, ShareFacts, Machine
  <2>2. BlockOffset(q) = b * (IF call.d = 1 THEN g ELSE 1)
    BY <1>1, <1>2, <1>3 DEF BlockOffset
  <2>3. Shifted(q, d, s) = s + (IF d = o THEN BlockOffset(q) ELSE 0)  BY DEF Shifted
  <2>4. 0 \in 0 .. call.d - 1 /\ d \in 0 .. call.d - 1  BY <1>1 DEF Dims
  <2>5. Lane(call, FirstGroup(call, q), 0)[d]
          = IF d = 0 THEN g * (IF 0 = o THEN b ELSE 0) + 0 ELSE IF d = o THEN b ELSE 0
    BY <2>4 DEF Lane, FirstGroup, Origin
  <2>6. o \in Int /\ (o = 0 <=> call.d = 1)  BY <1>1
  <2> HIDE DEF o, b, g
  <2>7. CASE d = 0 /\ d = o
    <3>1. b * g = g * b /\ g * b \in Int  BY <2>1
    <3> QED  BY <2>2, <2>3, <2>5, <2>6, <2>7, <3>1
  <2>8. CASE d = 0 /\ d # o
    <3>1. g * 0 = 0  BY <2>1
    <3> QED  BY <2>3, <2>5, <2>8, <3>1
  <2>9. CASE d # 0 /\ d = o
    BY <2>1, <2>2, <2>3, <2>5, <2>6, <2>9
  <2>10. CASE d # 0 /\ d # o
    BY <2>3, <2>5, <2>10
  <2> QED  BY <2>7, <2>8, <2>9, <2>10
<1> QED  BY <1>4, <1>5

\* The first group is where the counters, freshly loaded, say.
LEMMA FirstPlace ==
    ASSUME NEW c, CallOK(c), NEW q \in QPU, NEW cnt,
           cnt = [d \in 0 .. c.d - 1 |-> Iters(c, q, d)],
           \A d \in 0 .. c.d - 1 : Iters(c, q, d) >= 1
    PROVE  /\ AtBody(c, q, cnt) = FirstGroup(c, q)
           /\ InShare(c, q, FirstGroup(c, q))
<1>1. \A d \in 0 .. c.d - 1 : Iters(c, q, d) \in Nat /\ Origin(c, q, d) \in Nat
  BY PartFacts
<1>2. cnt \in Counts(c) /\ \A d \in 0 .. c.d - 1 : cnt[d] = Iters(c, q, d)
  BY <1>1 DEF Counts
<1>3. AtBody(c, q, cnt) = FirstGroup(c, q)
  <2>1. \A d \in 0 .. c.d - 1 : Origin(c, q, d) + Iters(c, q, d) - cnt[d] = Origin(c, q, d)
    BY <1>1, <1>2
  <2> QED  BY <2>1 DEF AtBody, FirstGroup
<1>4. \A d \in 0 .. c.d - 1 : cnt[d] \in 1 .. Iters(c, q, d)  BY <1>1, <1>2
<1>5. InShare(c, q, AtBody(c, q, cnt))  BY <1>2, <1>4, BodyInShare
<1> QED  BY <1>3, <1>5

\* One dimension of the preamble, on any pointer.
LEMMA PartWayNext ==
    ASSUME NEW c \in Calls, CallOK(c), Regular(c), NEW q \in QPU,
           InShare(c, q, FirstGroup(c, q)),
           NEW base, NEW start, SliceOK(c, base, start), NEW d \in 0 .. c.d - 1
    PROVE  LET s == start[d] + Lane(c, FirstGroup(c, q), 0)[d]
           IN  /\ PartWay(c, q, base, start, 0) = base
               /\ PartWay(c, q, base, start, c.d)
                    = GroupAt(c, base, start, FirstGroup(c, q)) % WORD
               /\ (PartWay(c, q, base, start, d) + Mul24(s, ByteStride(c)[d])) % WORD
                    = PartWay(c, q, base, start, d + 1)
<1> DEFINE ix == Lane(c, FirstGroup(c, q), 0)
           x == Placed(c, start, ix)
           w == ByteStride(c)
           f == Offset(c, x)
           s == start[d] + ix[d]
<1>1. ix \in Indices(c)
  <2>1. 0 \in 0 .. GROUP - 1  BY Machine
  <2> QED  BY <2>1, LaneInShare
<1>2. /\ InTensor(c, x) /\ ElementAt(c, base, start, ix) = base + f[c.d]
  <2> HIDE DEF ix
  <2> QED  BY <1>1, ElementInMemory
<1>3. x[d] = s  BY DEF Placed
<1>4. base \in Nat /\ base + w[c.d] <= WORD  BY DEF SliceOK
<1> HIDE DEF ix, x
<1>5. x \in Coords(c) /\ 0 <= x[d] /\ x[d] < c.dim[d] /\ x[d] \in Int
  BY <1>2 DEF InTensor, Coords
<1>6. c.dim[d] < W24 /\ w[d] < W24  BY DEF Regular, Addressable
<1>7. c.dim[d] \in Nat /\ c.d \in Nat /\ d \in 0 .. c.d /\ c.d \in 0 .. c.d /\ 0 \in 0 .. c.d
  BY ShapeFacts
<1>8. w[d] \in Nat /\ w[c.d] \in Nat /\ w[0] = 4  BY <1>7, StrideFacts
<1>9. f[0] = 0 /\ f[d] \in Int /\ f[d + 1] = f[d] + w[d] * x[d]
  BY <1>5, <1>7, OffsetFacts
<1>10. PartWay(c, q, base, start, 0) = base
  <2>1. PartWay(c, q, base, start, 0) = (base + f[0]) % WORD  BY DEF PartWay, ix, x
  <2>2. w[c.d] >= 4
    <3>1. 0 <= f[c.d] /\ f[c.d] + 4 <= w[c.d] /\ f[c.d] \in Int
      BY <1>2, <1>5, <1>7, OffsetBound, OffsetFacts
    <3> QED  BY <1>8, <3>1
  <2> HIDE DEF f, w
  <2> QED  BY <1>4, <1>8, <1>9, <2>1, <2>2, Machine
<1>11. PartWay(c, q, base, start, c.d) = GroupAt(c, base, start, FirstGroup(c, q)) % WORD
  BY <1>2 DEF PartWay, GroupAt, ix, x
<1>12. (PartWay(c, q, base, start, d) + Mul24(s, w[d])) % WORD
         = PartWay(c, q, base, start, d + 1)
  <2>1. /\ PartWay(c, q, base, start, d) = (base + f[d]) % WORD
        /\ PartWay(c, q, base, start, d + 1) = (base + f[d + 1]) % WORD
    BY DEF PartWay, ix, x
  <2> HIDE DEF f, w
  <2>2. x[d] \in 0 .. W24 - 1 /\ w[d] \in 0 .. W24 - 1
    BY <1>5, <1>6, <1>7, <1>8, Machine
  <2>3. Mul24(x[d], w[d]) = (x[d] * w[d]) % WORD  BY <2>2, Mul24Exact
  <2>4. x[d] * w[d] \in Int /\ x[d] * w[d] = w[d] * x[d]  BY <1>5, <1>8
  <2>5. base + f[d] \in Int /\ (base + f[d]) % WORD \in Int  BY <1>4, <1>9, Machine
  <2> DEFINE u == (base + f[d])
             v == x[d] * w[d]
  <2>6. ((u % WORD) + (v % WORD)) % WORD = (u + v) % WORD
    <3>1. u \in Int /\ v \in Int /\ u % WORD \in Int /\ v % WORD \in Int
      BY <2>4, <2>5, Machine
    <3> HIDE DEF u, v
    <3>2. ((u % WORD) + (v % WORD)) % WORD = ((u % WORD) + v) % WORD  BY <3>1, ModSum
    <3>3. ((u % WORD) + v) % WORD = (u + v) % WORD  BY <3>1, ModSum
    <3> QED  BY <3>2, <3>3
  <2>7. base + f[d + 1] = u + v  BY <1>4, <1>9, <2>4
  <2> HIDE DEF u, v, s
  <2> QED  BY <1>3, <2>1, <2>3, <2>6, <2>7 DEF u, v
<1> QED  BY <1>10, <1>11, <1>12 DEF ix

\* A step of one QPU, or of the DMA engine for it, leaves the others' registers
\* and transfers alone, and no step but the QPU's own moves its registers.
LEMMA StepFrame ==
    ASSUME TypeOK, NEW p \in QPU, QpuStep(p) \/ DmaLoad(p) \/ DmaStore(p)
    PROVE  /\ call' = call /\ unif' = unif
           /\ \A q \in QPU \ {p} :
                /\ pc'[q] = pc[q] /\ pos'[q] = pos[q] /\ stride'[q] = stride[q]
                /\ ptr'[q] = ptr[q] /\ outp'[q] = outp[q] /\ counter'[q] = counter[q]
                /\ acc'[q] = acc[q] /\ load'[q] = load[q] /\ store'[q] = store[q]
           /\ DmaLoad(p) \/ DmaStore(p) =>
                pc' = pc /\ pos' = pos /\ stride' = stride /\ ptr' = ptr
                /\ outp' = outp /\ counter' = counter /\ acc' = acc
<1>1. /\ pc \in [QPU -> Labels] /\ pos \in [QPU -> Nat]
      /\ stride \in [QPU -> [Dims -> Words]] /\ ptr \in [QPU -> [Inputs -> Words]]
      /\ outp \in [QPU -> Words] /\ counter \in [QPU -> [Dims -> Nat]]
      /\ DOMAIN acc = QPU /\ DOMAIN load = QPU /\ DOMAIN store = QPU
  BY DEF TypeOK, ControlOK, RegistersOK, SharedOK
<1>2. call' = call /\ unif' = unif
  BY DEF QpuStep, Preamble, SetupDim, ScalarStep, IssueLoad, DmaLoad, TakeTiles,
         PackTiles, IssueStore, DmaStore, Advance, LoopAgain, LoopExit
<1>3. DmaLoad(p) \/ DmaStore(p) =>
         pc' = pc /\ pos' = pos /\ stride' = stride /\ ptr' = ptr
         /\ outp' = outp /\ counter' = counter /\ acc' = acc
  BY DEF DmaLoad, DmaStore, regs
<1>4. ASSUME NEW q \in QPU \ {p}
      PROVE  /\ pc'[q] = pc[q] /\ pos'[q] = pos[q] /\ stride'[q] = stride[q]
             /\ ptr'[q] = ptr[q] /\ outp'[q] = outp[q] /\ counter'[q] = counter[q]
             /\ acc'[q] = acc[q] /\ load'[q] = load[q] /\ store'[q] = store[q]
  <2>1. CASE Preamble(p) \/ ScalarStep(p) \/ IssueLoad(p) \/ TakeTiles(p) \/ PackTiles(p)
    BY <1>1, <2>1 DEF Preamble, ScalarStep, IssueLoad, TakeTiles, PackTiles, GoTo, regs
  <2>2. CASE IssueStore(p) \/ Advance(p) \/ DmaLoad(p) \/ DmaStore(p)
    BY <1>1, <2>2 DEF IssueStore, Advance, DmaLoad, DmaStore, GoTo, regs
  <2>3. CASE SetupDim(p)
    BY <1>1, <2>3 DEF SetupDim, GoTo
  <2>4. CASE LoopAgain(p)
    BY <1>1, <2>4 DEF LoopAgain, GoTo, Corrected
  <2>5. CASE LoopExit(p)
    BY <1>1, <2>5 DEF LoopExit, GoTo, Corrected
  <2> QED  BY <2>1, <2>2, <2>3, <2>4, <2>5 DEF QpuStep
<1> QED  BY <1>2, <1>3, <1>4

\* In the loops the decrement is exact.
LEMMA DecrementFacts ==
    ASSUME TypeOK, UnifOK, CountersOK, NEW q \in QPU, pc[q] = "loop"
    PROVE  /\ pos[q] \in Dims /\ counter[q] \in Counts(call)
           /\ counter[q][pos[q]] \in Nat \ {0}
           /\ Decremented(q, pos[q]) = counter[q][pos[q]] - 1
<1> DEFINE d == pos[q]
           x == counter[q][d]
<1>1. d \in Dims /\ counter[q] \in Counts(call)
  BY DEF TypeOK, ControlOK, RegistersOK, Counts, Dims
<1>2. x \in 1 .. NumIter(q, d)
  BY <1>1 DEF CountersOK, Running, Dims
<1> HIDE DEF d
<1>3. NumIter(q, d) = Iters(call, q, d)  BY <1>1, PartValues
<1>4. CallOK(call) /\ d \in 0 .. call.d - 1 /\ call.size[d] \in Words
  BY <1>1, CallFacts, StreamFacts DEF Dims
<1>5. /\ Origin(call, q, d) \in Nat /\ Iters(call, q, d) \in Nat
      /\ Origin(call, q, d) + Iters(call, q, d) <= Groups(call, d)
      /\ Groups(call, d) \in Nat
  BY <1>4, PartFacts, GroupsFacts
<1>6. Groups(call, d) <= call.size[d]
  <2> DEFINE n == Groups(call, d)
             k == Covered(call, d)
             g == IF d = 0 THEN GROUP ELSE 1
  <2>1. n \in Nat /\ k \in Nat /\ k = n * g /\ k <= call.size[d]  BY <1>4, GroupsFacts
  <2>2. g \in Nat \ {0} /\ call.size[d] \in Nat  BY <1>4, Machine DEF Words
  <2> HIDE DEF n, k, g
  <2>3. n * g = n + n * (g - 1)  BY <2>1, <2>2
  <2>4. g - 1 \in Nat  BY <2>2
  <2>5. n * (g - 1) \in Nat  BY <2>1, <2>4
  <2>6. n <= call.size[d]  BY <2>1, <2>2, <2>3, <2>5
  <2> QED  BY <2>6 DEF n
<1>7. x \in Nat \ {0} /\ x < WORD
  <2> DEFINE a == Origin(call, q, d)
             b == Iters(call, q, d)
             n == Groups(call, d)
             s == call.size[d]
  <2>1. /\ a \in Nat /\ b \in Nat /\ a + b <= n /\ n \in Nat /\ n <= s /\ s \in 0 .. WORD - 1
        /\ x \in 1 .. b
    BY <1>2, <1>3, <1>4, <1>5, <1>6 DEF Words
  <2> HIDE DEF a, b, n, s, x
  <2> QED  BY <2>1, Machine
<1>8. (x - 1) % WORD = x - 1
  <2> HIDE DEF x
  <2> QED  BY <1>7, Machine
<1> QED  BY <1>1, <1>7, <1>8 DEF Decremented, d, x

\* The correction at the end of the body of loop d, on any pointer.
LEMMA CorrectedPointer ==
    ASSUME TypeOK, UnifOK, Regular(call), NEW q \in QPU, NEW d \in Dims,
           \A e \in Dims : stride[q][e] = ByteStride(call)[e],
           NEW base, NEW start, SliceOK(call, base, start)
    PROVE  LET P == AtLoop(call, q, d, counter[q])
           IN  ((GroupAt(call, base, start, P) % WORD) + Correction(q, d)) % WORD
                  = GroupAt(call, base, start, Onward(P, d)) % WORD
<1> DEFINE P == AtLoop(call, q, d, counter[q])
           G == GroupAt(call, base, start, P)
           t == Travel(call, q, d)
<1>1. CallOK(call) /\ d \in 0 .. call.d - 1 /\ counter[q] \in Counts(call)
  BY CallFacts DEF Dims, TypeOK, RegistersOK, Counts
<1>2. base \in Int /\ start \in Coords(call) /\ d \in Nat /\ call.d \in Nat
  BY <1>1, ShapeFacts DEF SliceOK
<1>3. GroupAt(call, base, start, Onward(P, d)) = G + t
  BY <1>1, <1>2, OnwardMoves
<1>4. P \in Coords(call)  BY <1>1, <1>2, PlaceIsCoords
<1>5. G \in Int /\ t \in Int
  <2> HIDE DEF P
  <2> QED  BY <1>1, <1>2, <1>4, GroupIsInt, TravelFacts
<1> HIDE DEF P, G
<1>6. CASE d = 0
  <2>1. Correction(q, d) = 0 /\ t = 0  BY <1>6 DEF Correction, Travel
  <2>2. G % WORD \in Int  BY <1>5, Machine
  <2>3. ((G % WORD) + 0) % WORD = (G + 0) % WORD  BY <1>5, ModSum
  <2> QED  BY <1>3, <1>5, <2>1, <2>3 DEF P, G
<1>7. CASE d # 0
  <2> DEFINE e == d - 1
             a == Pitch(call, e)
             n == Iters(call, q, e)
             w == ByteStride(call)[d]
             k == a * n
  <2>1. e \in Dims /\ e \in 0 .. call.d - 1  BY <1>1, <1>2, <1>7 DEF Dims
  <2>2. a \in 0 .. W24 - 1 /\ n \in 0 .. W24 - 1  BY <1>1, <1>7, TravelFacts
  <2>3. w \in Nat  BY <1>1, <1>2, StrideFacts
  <2>4. NumIter(q, e) = n
    <3> HIDE DEF e
    <3> QED  BY <2>1, PartValues
  <2>5. (IF d = 1 THEN 4 * GROUP ELSE stride[q][e]) = a
    <3>1. d = 1 <=> e = 0  BY <1>2
    <3>2. stride[q][e] = ByteStride(call)[e]
      <4> HIDE DEF e
      <4> QED  BY <2>1
    <3> QED  BY <3>1, <3>2 DEF Pitch
  <2>6. InnerTravel(q, d) = Mul24(n, a)
    <3> HIDE DEF a, n
    <3> QED  BY <2>4, <2>5 DEF InnerTravel
  <2>7. Correction(q, d) = w - Mul24(n, a)
    <3> HIDE DEF a, n, e
    <3> QED  BY <1>7, <2>6 DEF Correction
  <2>8. t = w - k  BY <1>7 DEF Travel
  <2> HIDE DEF a, n, w, t
  <2>9. Mul24(n, a) = (n * a) % WORD  BY <2>2, Mul24Exact
  <2>10. n * a = k /\ k \in Int  BY <2>2, Machine
  <2> HIDE DEF k
  <2>11. k % WORD \in Int /\ G + w \in Int /\ w - (k % WORD) \in Int
    BY <1>5, <2>3, <2>10, Machine
  <2>12. ((G % WORD) + (w - (k % WORD))) % WORD = (G + (w - (k % WORD))) % WORD
    BY <1>5, <2>11, ModSum
  <2>13. G + (w - (k % WORD)) = (G + w) - (k % WORD)  BY <1>5, <2>3, <2>11
  <2>14. ((G + w) - (k % WORD)) % WORD = ((G + w) - k) % WORD  BY <2>10, <2>11, ModSum
  <2>15. (G + w) - k = G + t  BY <1>5, <2>3, <2>8, <2>10
  <2>16. ((G % WORD) + Correction(q, d)) % WORD = (G + t) % WORD
    BY <2>7, <2>9, <2>10, <2>12, <2>13, <2>14, <2>15
  <2> QED  BY <1>3, <2>16 DEF P, G, t
<1> QED  BY <1>6, <1>7

LEMMA PreamblePointers ==
    ASSUME TypeOK, UnifOK, Regular(call), NEW q \in QPU, Preamble(q),
           InShare(call, q, FirstGroup(call, q))
    PROVE  PointersOf(call, q, pc'[q], pos'[q], stride'[q], ptr'[q], outp'[q], counter'[q])
<1>1. /\ pc'[q] = "setup" /\ pos'[q] = 0
      /\ \A i \in Inputs : ptr'[q][i] = call.ptr[i]
      /\ outp'[q] = call.out
  BY StreamValues DEF Preamble, GoTo, TypeOK, ControlOK, RegistersOK
<1>2. call \in Calls /\ CallOK(call) /\ 0 \in 0 .. call.d - 1
  BY CallFacts, ShapeFacts DEF TypeOK
<1>3. \A base, start : SliceOK(call, base, start) => PartWay(call, q, base, start, 0) = base
  BY <1>2, PartWayNext
<1>4. /\ call.out = PartWay(call, q, call.out, call.ostart, 0)
      /\ \A i \in 0 .. call.n - 1 :
           call.ptr[i] = PartWay(call, q, call.ptr[i], call.start[i], 0)
  BY <1>2, <1>3, SlicesOK
<1>5. Aligned(call, q, 0, stride'[q], ptr'[q], outp'[q])
  BY <1>1, <1>4 DEF Aligned, Inputs
<1> QED  BY <1>1, <1>5 DEF PointersOf, Walk

LEMMA SetupPointers ==
    ASSUME TypeOK, UnifOK, Regular(call), NEW q \in QPU, SetupDim(q),
           InShare(call, q, FirstGroup(call, q)),
           AtBody(call, q, [e \in 0 .. call.d - 1 |-> Iters(call, q, e)])
             = FirstGroup(call, q),
           Aligned(call, q, pos[q], stride[q], ptr[q], outp[q])
    PROVE  PointersOf(call, q, pc'[q], pos'[q], stride'[q], ptr'[q], outp'[q], counter'[q])
<1> DEFINE d == pos[q]
           w == ByteStride(call)
           shift == Lane(call, FirstGroup(call, q), 0)[d]
           width == IF d = 0 THEN 4 ELSE Mul24(stride[q][d - 1], Dim(q, d - 1))
           Moved(x, start) == (x + Mul24(Shifted(q, d, start), width)) % WORD
<1>1. call \in Calls /\ CallOK(call) /\ d \in Dims /\ call.d \in Nat \ {0} /\ d \in Nat
  BY CallFacts, ShapeFacts DEF TypeOK, SetupDim, ControlOK
<1>2. d \in 0 .. call.d - 1 /\ d \in 0 .. call.d  BY <1>1 DEF Dims
<1>3. width = w[d]
  <2>1. CASE d = 0  BY <1>1, <2>1, StrideFacts
  <2>2. CASE d # 0
    <3> DEFINE e == d - 1
    <3>1. e \in 0 .. call.d - 1 /\ e \in Dims /\ e \in 0 .. d - 1 /\ d = e + 1
      BY <1>1, <1>2, <2>2 DEF Dims
    <3>2. stride[q][e] = w[e]
      <4> HIDE DEF e, d
      <4> QED  BY <3>1 DEF Aligned, d
    <3>3. Dim(q, e) = call.dim[e] /\ call.dim[e] \in Nat
      <4> HIDE DEF e
      <4> QED  BY <3>1, StreamFacts, Machine DEF Words
    <3>4. w[d] = w[e] * call.dim[e] /\ w[e] \in Nat /\ w[d] \in Nat
      <4> HIDE DEF e
      <4>1. /\ \A x \in 0 .. call.d - 1 : w[x + 1] = w[x] * call.dim[x]
            /\ \A x \in 0 .. call.d : w[x] \in Nat
        BY <1>1, StrideFacts
      <4>2. e \in 0 .. call.d  BY <1>1, <3>1
      <4> HIDE DEF w, d
      <4> QED  BY <1>2, <3>1, <4>1, <4>2
    <3>5. w[e] < W24 /\ call.dim[e] < W24 /\ w[d] < W24
      <4> HIDE DEF e, d
      <4> QED  BY <1>2, <3>1 DEF Regular, Addressable
    <3>6. width = Mul24(w[e], call.dim[e])  BY <2>2, <3>2, <3>3
    <3> HIDE DEF e, w, width, d
    <3>7. Mul24(w[e], call.dim[e]) = (w[e] * call.dim[e]) % WORD
      <4>1. w[e] \in 0 .. W24 - 1 /\ call.dim[e] \in 0 .. W24 - 1
        BY <3>3, <3>4, <3>5, Machine
      <4> QED  BY <4>1, Mul24Exact
    <3>8. W24 <= WORD /\ W24 \in Nat /\ WORD \in Nat  BY MachineAssumption
    <3>9. w[d] % WORD = w[d]  BY <3>4, <3>5, <3>8
    <3> QED  BY <3>4, <3>6, <3>7, <3>9
  <2> QED  BY <2>1, <2>2
<1>4. /\ stride'[q] = [stride[q] EXCEPT ![d] = width]
      /\ \A i \in Inputs : ptr'[q][i] = Moved(ptr[q][i], unif[q][UStart(call, i, d)])
      /\ outp'[q] = Moved(outp[q], unif[q][UOutStart(call, d)])
      /\ Outermost(q) => /\ counter'[q] = [e \in Dims |-> NumIter(q, e)]
                         /\ pc'[q] = "body"
      /\ ~Outermost(q) => pc'[q] = "setup" /\ pos'[q] = d + 1
  <2> HIDE DEF width
  <2>1. /\ stride \in [QPU -> [Dims -> Words]] /\ ptr \in [QPU -> [Inputs -> Words]]
        /\ outp \in [QPU -> Words] /\ counter \in [QPU -> [Dims -> Nat]]
        /\ pc \in [QPU -> Labels] /\ pos \in [QPU -> Nat]
    BY DEF TypeOK, ControlOK, RegistersOK
  <2>2. /\ stride' = [stride EXCEPT ![q][d] = width]
        /\ ptr' = [ptr EXCEPT ![q] =
                     [i \in Inputs |-> Moved(ptr[q][i], unif[q][UStart(call, i, d)])]]
        /\ outp' = [outp EXCEPT ![q] = Moved(outp[q], unif[q][UOutStart(call, d)])]
        /\ counter' = IF Outermost(q) THEN [counter EXCEPT ![q] = [e \in Dims |-> NumIter(q, e)]]
                                    ELSE counter
        /\ IF Outermost(q) THEN GoTo(q, "body", 1) ELSE GoTo(q, "setup", d + 1)
    BY DEF SetupDim, width
  <2> HIDE DEF Moved, d
  <2>3. stride'[q] = [stride[q] EXCEPT ![d] = width]  BY <2>1, <2>2
  <2>4. \A i \in Inputs : ptr'[q][i] = Moved(ptr[q][i], unif[q][UStart(call, i, d)])
    BY <2>1, <2>2
  <2>5. outp'[q] = Moved(outp[q], unif[q][UOutStart(call, d)])  BY <2>1, <2>2
  <2>6. Outermost(q) => /\ counter'[q] = [e \in Dims |-> NumIter(q, e)]
                        /\ pc'[q] = "body"
    BY <2>1, <2>2 DEF GoTo
  <2>7. ~Outermost(q) => pc'[q] = "setup" /\ pos'[q] = d + 1  BY <2>1, <2>2 DEF GoTo
  <2> QED  BY <2>3, <2>4, <2>5, <2>6, <2>7
<1>5. \A s \in Nat : Shifted(q, d, s) = s + shift  BY <1>1, PartValues
<1>6. ASSUME NEW base, NEW start, SliceOK(call, base, start)
      PROVE  Moved(PartWay(call, q, base, start, d), start[d])
               = PartWay(call, q, base, start, d + 1)
  <2>1. start[d] \in Nat  BY <1>2, <1>6 DEF SliceOK
  <2>2. Shifted(q, d, start[d]) = start[d] + shift  BY <1>5, <2>1
  <2>3. (PartWay(call, q, base, start, d) + Mul24(start[d] + shift, w[d])) % WORD
          = PartWay(call, q, base, start, d + 1)
    BY <1>1, <1>2, <1>6, PartWayNext
  <2> HIDE DEF d, shift, width, w
  <2> QED  BY <1>3, <2>2, <2>3
<1> HIDE DEF Moved, width
<1>7. Aligned(call, q, d + 1, stride'[q], ptr'[q], outp'[q])
  <2>1. \A e \in 0 .. (d + 1) - 1 : stride'[q][e] = w[e]
    <3> SUFFICES ASSUME NEW e \in 0 .. (d + 1) - 1 PROVE stride'[q][e] = w[e]  OBVIOUS
    <3>1. stride[q] \in [Dims -> Words]  BY DEF TypeOK, RegistersOK
    <3>2. CASE e = d  BY <1>1, <1>3, <1>4, <3>1, <3>2
    <3>3. CASE e # d
      <4>1. e \in 0 .. d - 1  BY <1>1, <3>3
      <4>2. stride[q][e] = w[e]  BY <4>1 DEF Aligned
      <4>3. stride'[q][e] = stride[q][e]
        <5> HIDE DEF d
        <5> QED  BY <1>1, <1>4, <3>1, <3>3
      <4> QED  BY <4>2, <4>3
    <3> QED  BY <3>2, <3>3
  <2>2. \A i \in 0 .. call.n - 1 :
          ptr'[q][i] = PartWay(call, q, call.ptr[i], call.start[i], d + 1)
    <3> SUFFICES ASSUME NEW i \in 0 .. call.n - 1
                 PROVE  ptr'[q][i] = PartWay(call, q, call.ptr[i], call.start[i], d + 1)
      OBVIOUS
    <3>1. SliceOK(call, call.ptr[i], call.start[i])  BY <1>1, SlicesOK
    <3>2. ptr[q][i] = PartWay(call, q, call.ptr[i], call.start[i], d)  BY DEF Aligned
    <3>3. unif[q][UStart(call, i, d)] = call.start[i][d] /\ i \in Inputs
      BY <1>1, StreamValues DEF Inputs
    <3> QED  BY <1>4, <1>6, <3>1, <3>2, <3>3
  <2>3. outp'[q] = PartWay(call, q, call.out, call.ostart, d + 1)
    <3>1. SliceOK(call, call.out, call.ostart)  BY <1>1, SlicesOK
    <3>2. outp[q] = PartWay(call, q, call.out, call.ostart, d)  BY DEF Aligned
    <3>3. unif[q][UOutStart(call, d)] = call.ostart[d]  BY <1>1, StreamValues
    <3> QED  BY <1>4, <1>6, <3>1, <3>2, <3>3
  <2> QED  BY <2>1, <2>2, <2>3 DEF Aligned
<1>8. CASE ~Outermost(q)
  BY <1>4, <1>7, <1>8 DEF PointersOf, Walk
<1>9. CASE Outermost(q)
  <2>1. d + 1 = call.d  BY <1>1, <1>9 DEF Outermost
  <2>2. Dims = 0 .. call.d - 1  BY DEF Dims
  <2>3. counter'[q] = [e \in 0 .. call.d - 1 |-> Iters(call, q, e)]
    <3>1. counter'[q] = [e \in Dims |-> NumIter(q, e)]  BY <1>4, <1>9
    <3>2. \A e \in Dims : NumIter(q, e) = Iters(call, q, e)  BY PartValues
    <3> QED  BY <2>2, <3>1, <3>2
  <2>4. PlaceOf(call, q, "body", pos'[q], counter'[q]) = FirstGroup(call, q)
    BY <2>3 DEF PlaceOf
  <2>5. \A base, start : SliceOK(call, base, start) =>
          PartWay(call, q, base, start, d + 1)
            = GroupAt(call, base, start, FirstGroup(call, q)) % WORD
    BY <1>1, <1>2, <2>1, PartWayNext
  <2>6. AtGroup(call, FirstGroup(call, q), ptr'[q], outp'[q])
    <3>1. /\ SliceOK(call, call.out, call.ostart)
          /\ \A i \in 0 .. call.n - 1 : SliceOK(call, call.ptr[i], call.start[i])
      BY <1>1, SlicesOK
    <3> QED  BY <1>7, <2>5, <3>1 DEF AtGroup, Aligned
  <2>7. \A e \in 0 .. call.d - 1 : stride'[q][e] = ByteStride(call)[e]
    BY <1>1, <1>7, <2>1 DEF Aligned
  <2> QED  BY <1>4, <1>9, <2>4, <2>6, <2>7 DEF PointersOf, Walk
<1> QED  BY <1>8, <1>9

LEMMA AdvancePointers ==
    ASSUME TypeOK, NEW q \in QPU, Advance(q), Regular(call),
           AtGroup(call, AtBody(call, q, counter[q]), ptr[q], outp[q])
    PROVE  AtGroup(call, AtLoop(call, q, 0, counter[q]), ptr'[q], outp'[q])
<1> DEFINE B == AtBody(call, q, counter[q])
           L == AtLoop(call, q, 0, counter[q])
           g == 4 * GROUP
<1>1. CallOK(call) /\ counter[q] \in Counts(call) /\ 0 \in 0 .. call.d - 1
  BY CallFacts, ShapeFacts DEF Dims, TypeOK, RegistersOK, Counts
<1>2. B \in Coords(call)  BY <1>1, PlaceIsCoords
<1>3. L = [B EXCEPT ![0] = B[0] + 1]  BY <1>1, AdvancePlace
<1>4. /\ \A i \in Inputs : ptr'[q][i] = (ptr[q][i] + g) % WORD
      /\ outp'[q] = (outp[q] + g) % WORD
  BY DEF Advance, TypeOK, RegistersOK
<1>5. g \in Int  BY Machine
<1> HIDE DEF B, L, g
<1>6. ASSUME NEW base, NEW start, SliceOK(call, base, start)
      PROVE  ((GroupAt(call, base, start, B) % WORD) + g) % WORD
               = GroupAt(call, base, start, L) % WORD
  <2>1. base \in Int /\ start \in Coords(call)  BY <1>6 DEF SliceOK
  <2>2. B[0] \in Int /\ B[0] + 1 \in Int /\ (B[0] + 1) - B[0] = 1
    BY <1>1, <1>2 DEF Coords
  <2>3. GroupAt(call, base, start, L)
          = GroupAt(call, base, start, B) + Pitch(call, 0) * ((B[0] + 1) - B[0])
    <3> DEFINE v == B[0] + 1
    <3>1. v \in Int  BY <2>2
    <3>2. L = [B EXCEPT ![0] = v]  BY <1>3
    <3> HIDE DEF v
    <3>3. GroupAt(call, base, start, [B EXCEPT ![0] = v])
            = GroupAt(call, base, start, B) + Pitch(call, 0) * (v - B[0])
      BY <1>1, <1>2, <2>1, <3>1, GroupShift
    <3> QED  BY <3>2, <3>3 DEF v
  <2>4. Pitch(call, 0) = g  BY DEF Pitch, g
  <2>5. GroupAt(call, base, start, B) \in Int  BY <1>1, <1>2, <2>1, GroupIsInt
  <2>6. GroupAt(call, base, start, L) = GroupAt(call, base, start, B) + g
    BY <1>5, <2>2, <2>3, <2>4
  <2> QED  BY <1>5, <2>5, <2>6, ModSum
<1>7. /\ SliceOK(call, call.out, call.ostart)
      /\ \A i \in 0 .. call.n - 1 : SliceOK(call, call.ptr[i], call.start[i])
  BY <1>1, SlicesOK
<1>8. AtGroup(call, B, ptr[q], outp[q])  BY DEF B
<1> QED  BY <1>4, <1>6, <1>7, <1>8 DEF AtGroup, Inputs, L

\* The end of the body of a loop leaves the pointers at the group to go on with.
LEMMA LoopPlace ==
    ASSUME TypeOK, UnifOK, CountersOK, NEW q \in QPU, LoopAgain(q) \/ LoopExit(q),
           counter'[q] \in Counts(call)
    PROVE  \/ pc'[q] = "done"
           \/ /\ pc'[q] \in Walk
              /\ PlaceOf(call, q, pc'[q], pos'[q], counter'[q])
                   = Onward(AtLoop(call, q, pos[q], counter[q]), pos[q])
<1> DEFINE d == pos[q]
           P == AtLoop(call, q, d, counter[q])
           N == PlaceOf(call, q, pc'[q], pos'[q], counter'[q])
<1>0. pc[q] = "loop"  BY DEF LoopAgain, LoopExit
<1>1. /\ d \in Dims /\ counter[q] \in Counts(call) /\ counter[q][d] \in Nat \ {0}
      /\ Decremented(q, d) = counter[q][d] - 1
  BY <1>0, DecrementFacts
<1>2. CallOK(call) /\ d \in 0 .. call.d - 1 /\ Dims = 0 .. call.d - 1 /\ d \in Nat
      /\ call.d \in Nat
  BY <1>1, CallFacts, ShapeFacts DEF Dims
<1>3. pc \in [QPU -> Labels] /\ pos \in [QPU -> Nat] /\ counter \in [QPU -> [Dims -> Nat]]
  BY DEF TypeOK, ControlOK, RegistersOK
<1>4. CASE LoopAgain(q)
  <2>1. pc'[q] = "body" /\ counter'[q] = Reentered(q, d)
    BY <1>3, <1>4, <1>1, <1>2 DEF LoopAgain, GoTo
  <2>2. counter'[q] = [e \in 0 .. call.d - 1 |->
            IF e < d THEN Iters(call, q, e)
            ELSE IF e = d THEN counter[q][d] - 1 ELSE counter[q][e]]
    <3>1. \A e \in Dims : NumIter(q, e) = Iters(call, q, e)  BY PartValues
    <3> HIDE DEF d
    <3> QED  BY <1>1, <1>2, <2>1, <3>1 DEF Reentered
  <2>3. AtBody(call, q, counter'[q]) = Onward(P, d)
    BY <1>1, <1>2, <2>2, AgainPlace
  <2> QED  BY <2>1, <2>3 DEF PlaceOf, Walk
<1>5. CASE LoopExit(q)
  <2>1. /\ counter' = [counter EXCEPT ![q][d] = 0]
        /\ Decremented(q, d) = 0
        /\ IF Outermost(q) THEN GoTo(q, "done", 0) ELSE GoTo(q, "loop", d + 1)
    BY <1>5 DEF LoopExit
  <2>2. CASE Outermost(q)  BY <1>3, <2>1, <2>2 DEF GoTo
  <2>3. CASE ~Outermost(q)
    <3>1. pc'[q] = "loop" /\ pos'[q] = d + 1  BY <1>3, <2>1, <2>3 DEF GoTo
    <3>2. d # call.d - 1  BY <2>3 DEF Outermost
    <3>3. counter[q][d] = 1  BY <1>1, <2>1
    <3>4. \A e \in 0 .. call.d - 1 : e > d => counter'[q][e] = counter[q][e]
      <4> HIDE DEF d
      <4> QED  BY <1>2, <1>3, <2>1
    <3>5. AtLoop(call, q, d + 1, counter'[q]) = Onward(P, d)
      <4> HIDE DEF d
      <4> QED  BY <1>1, <1>2, <3>2, <3>3, <3>4, ExitPlace DEF P
    <3> QED  BY <3>1, <3>5 DEF PlaceOf, Walk
  <2> QED  BY <2>2, <2>3
<1> QED  BY <1>4, <1>5

\* At the end of the body of a loop the correction keeps the pointers aligned.
LEMMA LoopPointers ==
    ASSUME TypeOK, UnifOK, CountersOK, Regular(call), NEW q \in QPU,
           LoopAgain(q) \/ LoopExit(q),
           PointersOf(call, q, pc[q], pos[q], stride[q], ptr[q], outp[q], counter[q]),
           counter'[q] \in Counts(call)
    PROVE  PointersOf(call, q, pc'[q], pos'[q], stride'[q], ptr'[q], outp'[q], counter'[q])
<1> DEFINE d == pos[q]
           P == AtLoop(call, q, d, counter[q])
           N == PlaceOf(call, q, pc'[q], pos'[q], counter'[q])
<1>0. pc[q] = "loop" /\ stride' = stride /\ Corrected(q, d)
  BY DEF LoopAgain, LoopExit
<1>1. /\ d \in Dims /\ counter[q] \in Counts(call) /\ counter[q][d] \in Nat \ {0}
      /\ Decremented(q, d) = counter[q][d] - 1
  BY <1>0, DecrementFacts
<1>2. CallOK(call) /\ d \in 0 .. call.d - 1 /\ Dims = 0 .. call.d - 1 /\ d \in Nat
      /\ call.d \in Nat
  BY <1>1, CallFacts, ShapeFacts DEF Dims
<1>3. /\ \A e \in 0 .. call.d - 1 : stride[q][e] = ByteStride(call)[e]
      /\ AtGroup(call, P, ptr[q], outp[q])
  BY <1>0 DEF PointersOf, Walk, PlaceOf
<1>4. AtGroup(call, Onward(P, d), ptr'[q], outp'[q])
  <2>1. /\ \A i \in Inputs : ptr'[q][i] = (ptr[q][i] + Correction(q, d)) % WORD
        /\ outp'[q] = (outp[q] + Correction(q, d)) % WORD
    BY <1>0 DEF Corrected, TypeOK, RegistersOK
  <2>2. ASSUME NEW base, NEW start, SliceOK(call, base, start)
        PROVE  ((GroupAt(call, base, start, P) % WORD) + Correction(q, d)) % WORD
                 = GroupAt(call, base, start, Onward(P, d)) % WORD
    BY <1>1, <1>2, <1>3, <2>2, CorrectedPointer
  <2>3. /\ SliceOK(call, call.out, call.ostart)
        /\ \A i \in 0 .. call.n - 1 : SliceOK(call, call.ptr[i], call.start[i])
    BY <1>2, SlicesOK
  <2> HIDE DEF P, d
  <2> QED  BY <1>3, <2>1, <2>2, <2>3 DEF AtGroup, Inputs
<1>5. pc'[q] = "done" \/ (pc'[q] \in Walk /\ N = Onward(P, d))  BY LoopPlace
<1> HIDE DEF N, P, d
<1>6. CASE pc'[q] = "done"  BY <1>6 DEF PointersOf, Walk
<1>7. CASE pc'[q] \in Walk /\ N = Onward(P, d)
  BY <1>0, <1>3, <1>4, <1>7 DEF PointersOf, Walk, N
<1> QED  BY <1>5, <1>6, <1>7

\* The first group is in the part, and freshly loaded counters mean it.
LEMMA StartPlace ==
    ASSUME TypeOK, UnifOK, Regular(call), NEW q \in QPU
    PROVE  /\ InShare(call, q, FirstGroup(call, q))
           /\ AtBody(call, q, [e \in 0 .. call.d - 1 |-> Iters(call, q, e)])
                = FirstGroup(call, q)
<1>1. CallOK(call) /\ FullShares(call)  BY CallFacts DEF Regular
<1>2. \A d \in 0 .. call.d - 1 : Iters(call, q, d) >= 1
  BY <1>1, NoEmptyLoop, PartValues DEF Dims
<1> QED  BY <1>1, <1>2, FirstPlace

LEMMA StepPointers ==
    ASSUME TypeOK, UnifOK, CountersOK, Regular(call), PointersOK, [Next]_vars
    PROVE  PointersOK'
<1>1. CASE UNCHANGED vars
  BY <1>1 DEF vars, PointersOK
<1> SUFFICES ASSUME NEW p \in QPU, QpuStep(p) \/ DmaLoad(p) \/ DmaStore(p)
             PROVE  PointersOK'
  BY <1>1 DEF Next
<1>2. /\ call' = call
      /\ \A q \in QPU \ {p} :
           /\ pc'[q] = pc[q] /\ pos'[q] = pos[q] /\ stride'[q] = stride[q]
           /\ ptr'[q] = ptr[q] /\ outp'[q] = outp[q] /\ counter'[q] = counter[q]
      /\ DmaLoad(p) \/ DmaStore(p) =>
           pc' = pc /\ pos' = pos /\ stride' = stride /\ ptr' = ptr
           /\ outp' = outp /\ counter' = counter
  BY StepFrame
<1> SUFFICES ASSUME NEW q \in QPU
             PROVE  PointersOf(call, q, pc'[q], pos'[q], stride'[q], ptr'[q], outp'[q],
                               counter'[q])
  BY <1>2 DEF PointersOK
<1>3. PointersOf(call, q, pc[q], pos[q], stride[q], ptr[q], outp[q], counter[q])
  BY DEF PointersOK
<1>4. CASE q # p \/ DmaLoad(p) \/ DmaStore(p)
  <2>1. pc'[q] = pc[q] /\ pos'[q] = pos[q] /\ stride'[q] = stride[q]
        /\ ptr'[q] = ptr[q] /\ outp'[q] = outp[q] /\ counter'[q] = counter[q]
    BY <1>2, <1>4
  <2> QED  BY <1>3, <2>1
<1>5. CASE q = p /\ Preamble(p)
  BY <1>5, StartPlace, PreamblePointers
<1>6. CASE q = p /\ SetupDim(p)
  <2>1. Aligned(call, q, pos[q], stride[q], ptr[q], outp[q])
    BY <1>3, <1>6 DEF PointersOf, SetupDim
  <2> QED  BY <1>6, <2>1, StartPlace, SetupPointers
<1>7. CASE q = p /\ (ScalarStep(p) \/ IssueLoad(p) \/ TakeTiles(p) \/ PackTiles(p)
                     \/ IssueStore(p))
  <2>1. /\ stride' = stride /\ ptr' = ptr /\ outp' = outp /\ counter' = counter
        /\ pc[q] \in Walk \ {"loop"} /\ pc'[q] \in Walk \ {"loop"}
    BY <1>7 DEF ScalarStep, IssueLoad, TakeTiles, PackTiles, IssueStore, InBody, regs,
       GoTo, Walk, TypeOK, ControlOK
  <2>2. PlaceOf(call, q, pc'[q], pos'[q], counter'[q])
          = PlaceOf(call, q, pc[q], pos[q], counter[q])
    BY <2>1 DEF PlaceOf
  <2> QED  BY <1>3, <2>1, <2>2 DEF PointersOf, Walk
<1>8. CASE q = p /\ Advance(p)
  <2>1. /\ stride' = stride /\ counter' = counter /\ pc[q] = "drain"
        /\ pc'[q] = "loop" /\ pos'[q] = 0
    BY <1>8 DEF Advance, GoTo, TypeOK, ControlOK
  <2>2. /\ \A d \in 0 .. call.d - 1 : stride[q][d] = ByteStride(call)[d]
        /\ AtGroup(call, AtBody(call, q, counter[q]), ptr[q], outp[q])
    BY <1>3, <2>1 DEF PointersOf, Walk, PlaceOf
  <2>3. AtGroup(call, AtLoop(call, q, 0, counter[q]), ptr'[q], outp'[q])
    BY <1>8, <2>2, AdvancePointers
  <2> QED  BY <2>1, <2>2, <2>3 DEF PointersOf, Walk, PlaceOf
<1>9. CASE q = p /\ (LoopAgain(p) \/ LoopExit(p))
  <2>1. TypeOK'  BY StepType DEF Next
  <2>2. counter'[q] \in Counts(call)
    BY <1>2, <2>1 DEF TypeOK, RegistersOK, Dims, Counts
  <2> QED  BY <1>3, <1>9, <2>2, LoopPointers
<1> QED  BY <1>4, <1>5, <1>6, <1>7, <1>8, <1>9 DEF QpuStep

-----------------------------------------------------------------------------
(* Transfers, and where the stores go.                                     *)

Inner == {"body", "take", "pack", "drain"}

\* The group QPU q is at in the body.
Here(q) == AtBody(call, q, counter[q])

\* A transfer in flight is the one of the QPU's present group.
TransferOK ==
    \A q \in QPU : /\ load[q] # None => load[q] = ptr[q][Step(q).ti]
                   /\ store[q] # None => store[q] = outp[q]

LEMMA StepTransfer ==
    ASSUME TypeOK, InFlight, TransferOK, [Next]_vars
    PROVE  TransferOK'
<1>1. CASE UNCHANGED vars
  BY <1>1 DEF vars, TransferOK, Step
<1> SUFFICES ASSUME NEW p \in QPU, QpuStep(p) \/ DmaLoad(p) \/ DmaStore(p),
                    NEW q \in QPU
             PROVE  /\ load'[q] # None => load'[q] = ptr'[q][call'.steps[pos'[q]].ti]
                    /\ store'[q] # None => store'[q] = outp'[q]
  BY <1>1 DEF Next, TransferOK, Step
<1>2. /\ load[q] # None => load[q] = ptr[q][call.steps[pos[q]].ti]
      /\ store[q] # None => store[q] = outp[q]
      /\ load[q] # None => pc[q] = "take"
      /\ store[q] # None => pc[q] = "drain"
  BY DEF TransferOK, InFlight, Step
<1>3. CASE q # p
  BY <1>2, <1>3, StepFrame
<1>4. CASE q = p /\ (DmaLoad(p) \/ DmaStore(p))
  BY <1>2, <1>4 DEF DmaLoad, DmaStore, regs, TypeOK, SharedOK
<1>5. CASE q = p /\ IssueLoad(p)
  BY <1>2, <1>5 DEF IssueLoad, InBody, GoTo, Step, regs, TypeOK, SharedOK, ControlOK
<1>6. CASE q = p /\ IssueStore(p)
  BY <1>2, <1>6 DEF IssueStore, GoTo, regs, TypeOK, SharedOK
<1>7. CASE q = p /\ QpuStep(p) /\ ~IssueLoad(p) /\ ~IssueStore(p)
  <2>1. load' = load /\ store' = store /\ load[q] = None /\ store[q] = None
    BY <1>2, <1>7 DEF QpuStep, Preamble, SetupDim, ScalarStep, TakeTiles, PackTiles,
       Advance, LoopAgain, LoopExit, InBody, VrWait, VwWait
  <2> QED  BY <2>1
<1> QED  BY <1>3, <1>4, <1>5, <1>6, <1>7

\* In the body a QPU is at a group of its part, and so are its pointers.
LEMMA BodyFacts ==
    ASSUME TypeOK, UnifOK, CountersOK, PointersOK, NEW q \in QPU, pc[q] \in Inner
    PROVE  InShare(call, q, Here(q)) /\ AtGroup(call, Here(q), ptr[q], outp[q])
<1>1. CallOK(call)  BY CallFacts
<1>2. counter[q] \in Counts(call)
  BY DEF TypeOK, RegistersOK, Dims, Counts
<1>3. \A d \in 0 .. call.d - 1 : counter[q][d] \in 1 .. Iters(call, q, d)
  BY PartValues DEF CountersOK, Running, Inner, Dims
<1>4. InShare(call, q, Here(q))  BY <1>1, <1>2, <1>3, BodyInShare DEF Here
<1>5. AtGroup(call, Here(q), ptr[q], outp[q])
  BY DEF PointersOK, PointersOf, PlaceOf, Walk, Inner, Here
<1> QED  BY <1>4, <1>5

\* The words of a store in flight are the output elements of the QPU's group.
LEMMA StoredWords ==
    ASSUME TypeOK, UnifOK, InFlight, CountersOK, PointersOK, TransferOK, Regular(call),
           NEW q \in QPU, store[q] # None
    PROVE  /\ pc[q] = "drain" /\ InShare(call, q, Here(q))
           /\ \A k \in Tiles, l \in Lanes :
                WordAt(store[q], k, l) = OutAt(call, Lane(call, Here(q), k * LANES + l))
<1>1. pc[q] = "drain" /\ store[q] = outp[q]  BY DEF InFlight, TransferOK
<1>2. InShare(call, q, Here(q)) /\ AtGroup(call, Here(q), ptr[q], outp[q])
  BY <1>1, BodyFacts DEF Inner
<1>3. call \in Calls /\ CallOK(call) /\ SliceOK(call, call.out, call.ostart)
  BY CallFacts, SlicesOK DEF TypeOK
<1>4. store[q] = GroupAt(call, call.out, call.ostart, Here(q)) % WORD
  BY <1>1, <1>2 DEF AtGroup
<1>5. \A k \in Tiles, l \in Lanes :
        WordAt(GroupAt(call, call.out, call.ostart, Here(q)) % WORD, k, l)
          = ElementAt(call, call.out, call.ostart, Lane(call, Here(q), k * LANES + l))
  BY <1>2, <1>3, WordOfLane
<1> QED  BY <1>1, <1>2, <1>4, <1>5 DEF OutAt

\* The registers and the transfers agree with the loops.
PlaceInv == IInv /\ CountersOK /\ PointersOK /\ TransferOK

LEMMA StepPlace ==
    ASSUME PlaceInv, Regular(call), [Next]_vars
    PROVE  PlaceInv'
<1> USE DEF PlaceInv, IInv
<1>1. TypeOK'  BY StepType
<1>2. UnifOK'  BY StepStreams
<1>3. InFlight'  BY StepInFlight
<1>4. StagedIntact'  BY StepStaged
<1>5. CountersOK'  BY StepCounters DEF Regular
<1>6. PointersOK'  BY StepPointers
<1>7. TransferOK'  BY StepTransfer
<1> QED  BY <1>1, <1>2, <1>3, <1>4, <1>5, <1>6, <1>7

LEMMA InitPlace == Init => PlaceInv
<1> SUFFICES ASSUME Init PROVE PlaceInv  OBVIOUS
<1>1. TypeOK  BY InitType
<1>2. UnifOK  BY DEF Init, UnifOK
<1>3. InFlight /\ StagedIntact /\ TransferOK
  BY DEF Init, InFlight, StagedIntact, TransferOK
<1>4. CountersOK /\ PointersOK
  BY DEF Init, CountersOK, Running, PointersOK, PointersOf, Walk
<1> QED  BY <1>1, <1>2, <1>3, <1>4 DEF PlaceInv, IInv

\* Every QPU stores into its own block of the output slice and nowhere else,
\* whatever the shape of the slice: pointers, strides and corrections, computed
\* with mul24 in wrapping registers, lead every group to the elements meant.
THEOREM BlockSafe ==
    ASSUME \A c \in Calls : Regular(c)
    PROVE  Spec => []StaysInBlock
<1>1. PlaceInv /\ [Next]_vars => PlaceInv'
  BY StepPlace DEF PlaceInv, IInv, TypeOK
<1>2. PlaceInv => StaysInBlock
  <2> SUFFICES ASSUME PlaceInv, NEW q \in QPU, store[q] # None
               PROVE  GroupWords(store[q]) \subseteq OwnWords[call][q]
    BY DEF StaysInBlock
  <2> USE DEF PlaceInv, IInv
  <2>1. call \in Calls /\ CallOK(call) /\ Regular(call)  BY CallFacts DEF TypeOK
  <2>2. InShare(call, q, Here(q))  BY <2>1, StoredWords
  <2>3. \A k \in Tiles, l \in Lanes :
          WordAt(store[q], k, l) = OutAt(call, Lane(call, Here(q), k * LANES + l))
    BY <2>1, StoredWords
  <2>4. \A k \in Tiles, l \in Lanes :
          OutAt(call, Lane(call, Here(q), k * LANES + l)) \in OwnWords[call][q]
    BY <2>1, <2>2, TileLane, LaneInShare
  <2> QED  BY <2>3, <2>4 DEF GroupWords
<1> QED  BY <1>1, <1>2, InitPlace, PTL DEF Spec

-----------------------------------------------------------------------------
(* What has been stored: each QPU stores its block from the bottom up.     *)

\* The first address of its block that a QPU can still have to store.
Frontier(c, q, label, p, cnt, st) ==
    GroupAt(c, c.out, c.ostart, PlaceOf(c, q, label, p, cnt))
      + (IF label = "drain" /\ st = None THEN 4 * GROUP ELSE 0)

\* The words of its block a QPU has stored, among those stored, are behind it.
Behind(c, q, label, p, cnt, st, stored) ==
    \A a \in stored \cap OwnWords[c][q] :
        /\ label \notin {"preamble", "setup"}
        /\ label \in Walk => a < Frontier(c, q, label, p, cnt, st)

StoredBehind ==
    \A q \in QPU : Behind(call, q, pc[q], pos[q], counter[q], store[q], DOMAIN mem)

LEMMA OwnInMemory ==
    ASSUME NEW c \in Calls, CallOK(c), Regular(c), NEW q \in QPU
    PROVE  OwnWords[c][q] \subseteq Int
<1>1. \A ix \in Indices(c) : OutAt(c, ix) \in Int
  BY SlicesOK, ElementInMemory, WordsNat DEF OutAt
<1> QED  BY <1>1 DEF OwnWords

LEMMA PlaceIsInt ==
    ASSUME TypeOK, NEW q \in QPU
    PROVE  /\ PlaceOf(call, q, pc[q], pos[q], counter[q]) \in Coords(call)
           /\ GroupAt(call, call.out, call.ostart,
                      PlaceOf(call, q, pc[q], pos[q], counter[q])) \in Int
<1>1. CallOK(call) /\ call.out \in Int /\ call.ostart \in Coords(call)
  BY CallFacts, ShapeFacts
<1>2. counter[q] \in Counts(call) /\ pos[q] \in Nat
  BY DEF TypeOK, RegistersOK, ControlOK, Dims, Counts
<1>3. PlaceOf(call, q, pc[q], pos[q], counter[q]) \in Coords(call)
  BY <1>1, <1>2, PlaceIsCoords DEF PlaceOf
<1> QED  BY <1>1, <1>3, GroupIsInt

\* A store adds the words of the QPU's group, which lie between the group's
\* address and the next one.
LEMMA StoreAdds ==
    ASSUME PlaceInv, Regular(call), NEW p \in QPU, DmaStore(p)
    PROVE  /\ pc[p] = "drain"
           /\ \E new \in SUBSET OwnWords[call][p] :
                /\ DOMAIN mem' = DOMAIN mem \cup new
                /\ \A a \in new :
                     a < GroupAt(call, call.out, call.ostart, Here(p)) + 4 * GROUP
<1> USE DEF PlaceInv, IInv
<1>0. store[p] # None  BY DEF DmaStore
<1>1. call \in Calls /\ CallOK(call) /\ call.out \in Int /\ call.ostart \in Coords(call)
  BY CallFacts, ShapeFacts DEF TypeOK
<1>2. pc[p] = "drain" /\ InShare(call, p, Here(p))  BY <1>0, StoredWords
<1>3. \A k \in Tiles, l \in Lanes :
        WordAt(store[p], k, l) = OutAt(call, Lane(call, Here(p), k * LANES + l))
  BY <1>0, StoredWords
<1>4. DOMAIN mem' = DOMAIN mem \cup GroupWords(store[p])  BY DEF DmaStore
<1>5. Here(p) \in Coords(call)  BY <1>2 DEF InShare
<1> DEFINE g == GroupAt(call, call.out, call.ostart, Here(p))
<1>6. g \in Int  BY <1>1, <1>5, GroupIsInt
<1>7. ASSUME NEW k \in Tiles, NEW l \in Lanes
      PROVE  /\ WordAt(store[p], k, l) \in OwnWords[call][p]
             /\ WordAt(store[p], k, l) < g + 4 * GROUP
  <2> DEFINE m == k * LANES + l
  <2>1. m \in 0 .. GROUP - 1  BY TileLane
  <2>2. OutAt(call, Lane(call, Here(p), m)) \in OwnWords[call][p]
    BY <1>1, <1>2, <2>1, LaneInShare
  <2>3. OutAt(call, Lane(call, Here(p), m)) = g + 4 * m
    BY <1>1, <1>5, <2>1, LaneAddress DEF OutAt
  <2>4. WordAt(store[p], k, l) = OutAt(call, Lane(call, Here(p), m))  BY <1>3
  <2> HIDE DEF m, g
  <2>5. g + 4 * m < g + 4 * GROUP  BY <1>6, <2>1, Machine
  <2> QED  BY <2>2, <2>3, <2>4, <2>5
<1>8. /\ GroupWords(store[p]) \in SUBSET OwnWords[call][p]
      /\ \A a \in GroupWords(store[p]) : a < g + 4 * GROUP
  BY <1>7 DEF GroupWords
<1> QED  BY <1>2, <1>4, <1>8

\* The QPU's next place is not below the present one.
LEMMA FrontierMoves ==
    ASSUME PlaceInv, Regular(call), NEW p \in QPU, QpuStep(p), pc[p] \in Walk,
           pc'[p] \in Walk
    PROVE  /\ Frontier(call, p, pc[p], pos[p], counter[p], store[p]) \in Int
           /\ Frontier(call, p, pc'[p], pos'[p], counter'[p], store'[p]) \in Int
           /\ Frontier(call, p, pc[p], pos[p], counter[p], store[p])
                <= Frontier(call, p, pc'[p], pos'[p], counter'[p], store'[p])
<1> USE DEF PlaceInv, IInv
<1> DEFINE G(P) == GroupAt(call, call.out, call.ostart, P)
           B == PlaceOf(call, p, pc[p], pos[p], counter[p])
           N == PlaceOf(call, p, pc'[p], pos'[p], counter'[p])
<1>1. CallOK(call) /\ call.out \in Int /\ call.ostart \in Coords(call)
  BY CallFacts, ShapeFacts
<1>2. B \in Coords(call) /\ G(B) \in Int  BY PlaceIsInt
<1>3. pc \in [QPU -> Labels] /\ pos \in [QPU -> Nat] /\ DOMAIN store = QPU
      /\ counter[p] \in Counts(call) /\ GROUP \in Nat /\ WORD \in Nat
  BY Machine DEF TypeOK, ControlOK, SharedOK, RegistersOK, Dims, Counts
<1>4. CASE ScalarStep(p) \/ IssueLoad(p) \/ TakeTiles(p) \/ PackTiles(p)
  <2>1. /\ pc[p] \in Walk \ {"loop", "drain"} /\ pc'[p] \in Walk \ {"loop", "drain"}
        /\ counter' = counter
    BY <1>3, <1>4 DEF ScalarStep, IssueLoad, TakeTiles, PackTiles, InBody, regs,
       GoTo, Walk
  <2> QED  BY <1>2, <2>1 DEF Frontier, PlaceOf
<1>5. CASE IssueStore(p)
  <2>1. pc[p] = "pack" /\ pc'[p] = "drain" /\ counter' = counter /\ store'[p] = outp[p]
    BY <1>3, <1>5 DEF IssueStore, regs, GoTo
  <2>2. store'[p] # None  BY <2>1, WordsNat DEF TypeOK, RegistersOK, None
  <2> QED  BY <1>2, <2>1, <2>2 DEF Frontier, PlaceOf
<1>6. CASE Advance(p)
  <2>1. /\ pc[p] = "drain" /\ store[p] = None /\ pc'[p] = "loop" /\ pos'[p] = 0
        /\ counter' = counter
    BY <1>3, <1>6 DEF Advance, GoTo, VwWait
  <2>2. B = AtBody(call, p, counter[p]) /\ N = AtLoop(call, p, 0, counter[p])
    BY <2>1 DEF PlaceOf
  <2>3. N = [B EXCEPT ![0] = B[0] + 1]  BY <1>1, <1>3, <2>2, AdvancePlace
  <2> DEFINE v == B[0] + 1
  <2>4. 0 \in 0 .. call.d - 1 /\ v \in Int /\ v - B[0] = 1
    <3>1. 0 \in 0 .. call.d - 1  BY <1>1, ShapeFacts
    <3>2. B[0] \in Int
      <4> HIDE DEF B
      <4> QED  BY <1>2, <3>1 DEF Coords
    <3> HIDE DEF B
    <3> QED  BY <3>1, <3>2
  <2>5. N = [B EXCEPT ![0] = v]  BY <2>3
  <2> HIDE DEF v, N, B
  <2>6. G([B EXCEPT ![0] = v]) = G(B) + Pitch(call, 0) * (v - B[0])
    BY <1>1, <1>2, <2>4, GroupShift
  <2>7. G(N) = G(B) + 4 * GROUP
    <3>1. Pitch(call, 0) = 4 * GROUP  BY DEF Pitch
    <3> QED  BY <1>3, <2>4, <2>5, <2>6, <3>1
  <2> QED  BY <1>2, <1>3, <2>1, <2>7 DEF Frontier, N, B
<1>7. CASE LoopAgain(p) \/ LoopExit(p)
  <2> DEFINE d == pos[p]
             P == AtLoop(call, p, d, counter[p])
  <2>1. pc[p] = "loop"  BY <1>7 DEF LoopAgain, LoopExit
  <2>2. B = P  BY <2>1 DEF PlaceOf
  <2>3. d \in 0 .. call.d - 1 /\ counter[p] \in Counts(call)
    BY <2>1, DecrementFacts DEF Dims
  <2>4. counter'[p] \in Counts(call) /\ pc' \in [QPU -> Labels]
    <3>1. TypeOK'  BY StepType DEF Next
    <3>2. call' = call  BY StepFrame
    <3> QED  BY <3>1, <3>2 DEF TypeOK, RegistersOK, ControlOK, Dims, Counts
  <2>5. pc'[p] # "drain"
    BY <1>3, <1>7 DEF LoopAgain, LoopExit, GoTo
  <2>6. N = Onward(P, d)
    <3>1. pc'[p] # "done"  BY DEF Walk
    <3> QED  BY <1>7, <2>4, <3>1, LoopPlace
  <2>7. G(Onward(P, d)) = G(P) + Travel(call, p, d)
    BY <1>1, <2>3, OnwardMoves
  <2>8. Travel(call, p, d) \in Nat  BY <1>1, <2>3, TravelFacts
  <2> HIDE DEF P, d, B, N
  <2>9. G(N) \in Int /\ G(B) <= G(N)
    BY <1>2, <2>2, <2>6, <2>7, <2>8
  <2> QED  BY <1>2, <2>1, <2>5, <2>9 DEF Frontier, N, B
<1>8. ~Preamble(p) /\ ~SetupDim(p)  BY DEF Preamble, SetupDim, Walk
<1> QED  BY <1>4, <1>5, <1>6, <1>7, <1>8 DEF QpuStep

LEMMA StepBehind ==
    ASSUME PlaceInv, Regular(call), StoredBehind, [Next]_vars
    PROVE  StoredBehind'
<1> USE DEF PlaceInv, IInv
<1>1. CASE UNCHANGED vars
  BY <1>1 DEF vars, StoredBehind
<1> SUFFICES ASSUME NEW p \in QPU, QpuStep(p) \/ DmaLoad(p) \/ DmaStore(p),
                    NEW q \in QPU
             PROVE  Behind(call', q, pc'[q], pos'[q], counter'[q], store'[q], DOMAIN mem')
  BY <1>1 DEF Next, StoredBehind
<1>2. Behind(call, q, pc[q], pos[q], counter[q], store[q], DOMAIN mem)
  BY DEF StoredBehind
<1>3. /\ call' = call
      /\ q # p => pc'[q] = pc[q] /\ pos'[q] = pos[q] /\ counter'[q] = counter[q]
                  /\ store'[q] = store[q]
      /\ DmaLoad(p) \/ DmaStore(p) => pc' = pc /\ pos' = pos /\ counter' = counter
  BY StepFrame
<1>4. call \in Calls /\ CallOK(call) /\ OwnWords[call][q] \subseteq Int
  BY CallFacts, OwnInMemory DEF TypeOK
<1>5. CASE DmaStore(p)
  <2>1. pc[p] = "drain" /\ store[p] # None /\ store'[p] = None
    BY <1>5, StoreAdds DEF DmaStore, TypeOK, SharedOK
  <2>2. PICK new \in SUBSET OwnWords[call][p] :
               /\ DOMAIN mem' = DOMAIN mem \cup new
               /\ \A a \in new :
                    a < GroupAt(call, call.out, call.ostart, Here(p)) + 4 * GROUP
    BY <1>5, StoreAdds
  <2>3. CASE q # p
    <3>1. DOMAIN mem' \cap OwnWords[call][q] = DOMAIN mem \cap OwnWords[call][q]
      BY <1>4, <2>2, <2>3, OwnApart
    <3> QED  BY <1>2, <1>3, <2>3, <3>1 DEF Behind
  <2>4. CASE q = p
    <3> DEFINE g == GroupAt(call, call.out, call.ostart, Here(q))
    <3>1. PlaceOf(call, q, pc[q], pos[q], counter[q]) = Here(q)
      BY <2>1, <2>4 DEF PlaceOf, Here
    <3>2. g \in Int  BY <3>1, PlaceIsInt
    <3>3. Frontier(call, q, pc[q], pos[q], counter[q], store[q]) = g
      BY <2>1, <2>4, <3>1, <3>2 DEF Frontier
    <3>4. Frontier(call, q, pc'[q], pos'[q], counter'[q], store'[q]) = g + 4 * GROUP
      BY <1>3, <1>5, <2>1, <2>4, <3>1 DEF Frontier
    <3>5. \A a \in DOMAIN mem \cap OwnWords[call][q] : a < g + 4 * GROUP
      <4> HIDE DEF g
      <4>1. \A a \in DOMAIN mem \cap OwnWords[call][q] : a < g
        BY <1>2, <2>1, <2>4, <3>3 DEF Behind, Walk
      <4> QED  BY <1>4, <3>2, <4>1, Machine
    <3>6. \A a \in DOMAIN mem' \cap OwnWords[call][q] : a < g + 4 * GROUP
      BY <2>2, <2>4, <3>5
    <3>7. pc'[q] \notin {"preamble", "setup"}  BY <1>3, <1>5, <2>1, <2>4
    <3> QED  BY <1>3, <3>4, <3>6, <3>7 DEF Behind
  <2> QED  BY <2>3, <2>4
<1>6. CASE ~DmaStore(p) /\ (q # p \/ DmaLoad(p))
  <2>1. mem' = mem
    BY <1>6 DEF QpuStep, Preamble, SetupDim, ScalarStep, IssueLoad, DmaLoad, TakeTiles,
       PackTiles, IssueStore, Advance, LoopAgain, LoopExit
  <2>2. store'[q] = store[q]  BY <1>3, <1>6 DEF DmaLoad
  <2> QED  BY <1>2, <1>3, <1>6, <2>1, <2>2
<1>7. CASE q = p /\ QpuStep(p)
  <2>1. mem' = mem
    BY <1>7 DEF QpuStep, Preamble, SetupDim, ScalarStep, IssueLoad, TakeTiles,
       PackTiles, IssueStore, Advance, LoopAgain, LoopExit
  <2>2. ASSUME NEW a \in DOMAIN mem \cap OwnWords[call][q]
        PROVE  /\ pc'[q] \notin {"preamble", "setup"}
               /\ pc'[q] \in Walk =>
                    a < Frontier(call, q, pc'[q], pos'[q], counter'[q], store'[q])
    <3>1. /\ pc[q] \notin {"preamble", "setup"}
          /\ pc[q] \in Walk => a < Frontier(call, q, pc[q], pos[q], counter[q], store[q])
      BY <1>2 DEF Behind
    <3>2. pc[q] \in Walk /\ pc'[q] \notin {"preamble", "setup"}
      BY <1>7, <3>1 DEF QpuStep, Preamble, SetupDim, ScalarStep, IssueLoad, TakeTiles,
         PackTiles, IssueStore, Advance, LoopAgain, LoopExit, InBody, GoTo, Walk,
         TypeOK, ControlOK
    <3>3. SUFFICES ASSUME pc'[q] \in Walk
                   PROVE  a < Frontier(call, q, pc'[q], pos'[q], counter'[q], store'[q])
      BY <3>2
    <3> DEFINE f == Frontier(call, q, pc[q], pos[q], counter[q], store[q])
               g == Frontier(call, q, pc'[q], pos'[q], counter'[q], store'[q])
    <3>4. f \in Int /\ g \in Int /\ f <= g  BY <1>7, <3>2, <3>3, FrontierMoves
    <3>5. a < f /\ a \in Int  BY <1>4, <3>1, <3>2
    <3> HIDE DEF f, g
    <3>6. a < g  BY <3>4, <3>5
    <3> QED  BY <3>6 DEF g
  <2> QED  BY <1>3, <2>1, <2>2 DEF Behind
<1> QED  BY <1>5, <1>6, <1>7

-----------------------------------------------------------------------------
(* The accumulators hold the expression step by step.                      *)

\* The recursive function StepValues is defined on exists.
LEMMA ValuesExist ==
    ASSUME NEW c, CallOK(c), NEW ix
    PROVE  \E f : f = [j \in 0 .. Len(c.steps) |->
                         IF j = 0 THEN Junk
                         ELSE Accumulate(c.steps[j], f[j - 1], OperandAt(c, ix, c.steps[j]))]
<1> DEFINE n == Len(c.steps)
           Value(f, j) == IF j = 0 THEN Junk
                          ELSE Accumulate(c.steps[j], f[j - 1], OperandAt(c, ix, c.steps[j]))
           Good(f, m) == f = [j \in 0 .. m |-> Value(f, j)]
           S == {m \in 0 .. n : \E f : Good(f, m)}
<1>1. n \in Nat  BY DEF CallOK
<1> HIDE DEF n
<1>2. 0 \in S
  <2> DEFINE f == [j \in 0 .. 0 |-> Junk]
  <2>1. Good(f, 0)  OBVIOUS
  <2> HIDE DEF Good, f
  <2>2. \E g : Good(g, 0)  BY <2>1
  <2> QED  BY <1>1, <2>2
<1>3. ASSUME NEW m \in 0 .. n - 1, m \in S PROVE m + 1 \in S
  <2>1. PICK f : Good(f, m)
    <3> HIDE DEF Good
    <3> QED  BY <1>3
  <2> DEFINE v == Accumulate(c.steps[m + 1], f[m], OperandAt(c, ix, c.steps[m + 1]))
             g == [j \in 0 .. m + 1 |-> IF j = m + 1 THEN v ELSE f[j]]
  <2>2. ASSUME NEW j \in 0 .. m + 1 PROVE g[j] = Value(g, j)
    <3>1. CASE j = m + 1
      <4>1. g[m] = f[m]  BY <1>1
      <4>2. j # 0 /\ j - 1 = m  BY <3>1
      <4>3. g[j] = v  BY <3>1
      <4> HIDE DEF g
      <4> QED  BY <3>1, <4>1, <4>2, <4>3
    <3>2. CASE j # m + 1
      <4>1. j \in 0 .. m  BY <3>2
      <4>2. g[j] = f[j]  BY <3>2
      <4>3. f[j] = Value(f, j)  BY <2>1, <4>1
      <4>4. j # 0 => g[j - 1] = f[j - 1]  BY <4>1
      <4> HIDE DEF g
      <4> QED  BY <4>2, <4>3, <4>4
    <3> QED  BY <3>1, <3>2
  <2>3. Good(g, m + 1)
    <3> DEFINE D == 0 .. m + 1
    <3>1. g = [j \in D |-> g[j]]  OBVIOUS
    <3> HIDE DEF g, Value, D
    <3>2. \A j \in D : g[j] = Value(g, j)  BY <2>2 DEF D
    <3>3. g = [j \in D |-> Value(g, j)]  BY <3>1, <3>2
    <3> QED  BY <3>3 DEF D
  <2> HIDE DEF Good, g
  <2>4. m + 1 \in 0 .. n  BY <1>1
  <2> QED  BY <2>3, <2>4
<1>4. \E f : Good(f, n)
  <2>1. \A m \in 0 .. n : m \in S
    <3> HIDE DEF S
    <3> QED  BY <1>1, <1>2, <1>3, UpTo
  <2>2. n \in S
    <3> HIDE DEF S
    <3> QED  BY <1>1, <2>1
  <2> HIDE DEF Good
  <2> QED  BY <2>2
<1> QED  BY <1>4 DEF n

LEMMA ValuesFacts ==
    ASSUME NEW c, CallOK(c), NEW ix, NEW j \in 1 .. Len(c.steps)
    PROVE  StepValues(c, ix)[j] = Accumulate(c.steps[j], StepValues(c, ix)[j - 1],
                                             OperandAt(c, ix, c.steps[j]))
<1> DEFINE n == Len(c.steps)
           w == StepValues(c, ix)
<1>1. w = [i \in 0 .. n |->
             IF i = 0 THEN Junk
             ELSE Accumulate(c.steps[i], w[i - 1], OperandAt(c, ix, c.steps[i]))]
  BY ValuesExist DEF StepValues, Accumulate
<1>2. n \in Nat  BY DEF CallOK
<1>3. j \in 0 .. n /\ j # 0  BY <1>2
<1> HIDE DEF w, n
<1>4. w[j] = Accumulate(c.steps[j], w[j - 1], OperandAt(c, ix, c.steps[j]))
  BY <1>1, <1>3
<1> QED  BY <1>4 DEF w

\* The operand of a step is the one the reference means, if the VPM holds the
\* operand's word.
LEMMA OperandIs ==
    ASSUME TypeOK, UnifOK, NEW q \in QPU, pos[q] \in 1 .. Len(call.steps), NEW ix, NEW x,
           Step(q).ti # None =>
             x = Cell(ElementAt(call, call.ptr[Step(q).ti], call.start[Step(q).ti], ix))
    PROVE  Operand(q, Step(q), x) = OperandAt(call, ix, call.steps[pos[q]])
<1>1. StepOK(call, Step(q))  BY CallFacts DEF Step
<1>2. Step(q).si # None => ScalarValue(q, Step(q).si) = Imm(call.scalar[Step(q).si])
  <2> SUFFICES ASSUME Step(q).si # None
               PROVE  ScalarValue(q, Step(q).si) = Imm(call.scalar[Step(q).si])
    OBVIOUS
  <2>1. Step(q).si \in 0 .. call.s - 1  BY <1>1 DEF StepOK
  <2>2. unif[q][UScalar(call, Step(q).si)] = call.scalar[Step(q).si]
    BY <2>1, StreamValues
  <2> QED  BY <2>2 DEF ScalarValue
<1>3. Step(q).ti = None => Step(q).si # None  BY <1>1 DEF StepOK
<1>4. Step(q) = call.steps[pos[q]]  BY DEF Step
<1> HIDE DEF Step
<1> QED  BY <1>2, <1>3, <1>4 DEF Operand, OperandAt

\* The accumulators hold the expression up to the step before the next one, at
\* the elements of the QPU's group.
AccOf(c, q, label, p, cnt, a) ==
    /\ label \in {"pack", "drain"} => p = Len(c.steps) + 1
    /\ label \in Inner /\ p > 1 =>
         \A k \in Tiles, l \in Lanes :
           a[k][l] = StepValues(c, Lane(c, AtBody(c, q, cnt), k * LANES + l))[p - 1]

AccOK == \A q \in QPU : AccOf(call, q, pc[q], pos[q], counter[q], acc[q])

\* One more step of the expression.
LEMMA NextStep ==
    ASSUME TypeOK, UnifOK, AccOK, NEW q \in QPU, pc[q] \in {"body", "take"},
           pos[q] \in 1 .. Len(call.steps), NEW k \in Tiles, NEW l \in Lanes, NEW x,
           Step(q).ti # None =>
             x = Cell(ElementAt(call, call.ptr[Step(q).ti], call.start[Step(q).ti],
                                Lane(call, Here(q), k * LANES + l)))
    PROVE  Accumulate(Step(q), acc[q][k][l], Operand(q, Step(q), x))
             = StepValues(call, Lane(call, Here(q), k * LANES + l))[pos[q]]
<1> DEFINE ix == Lane(call, Here(q), k * LANES + l)
           j  == pos[q]
           st == call.steps[j]
           v  == OperandAt(call, ix, st)
<1>1. CallOK(call) /\ Step(q) = st  BY CallFacts DEF Step
<1>2. Operand(q, Step(q), x) = v  BY OperandIs
<1>3. StepValues(call, ix)[j] = Accumulate(st, StepValues(call, ix)[j - 1], v)
  BY <1>1, ValuesFacts
<1>4. CASE j = 1
  <2>1. st.init  BY <1>1, <1>4 DEF CallOK
  <2> HIDE DEF ix, j, st, v
  <2> QED  BY <1>1, <1>2, <1>3, <2>1 DEF Accumulate, ix, j
<1>5. CASE j # 1
  <2>1. j > 1  BY <1>5, CallFacts
  <2>2. acc[q][k][l] = StepValues(call, ix)[j - 1]
    BY <2>1 DEF AccOK, AccOf, Inner, Here
  <2> HIDE DEF ix, j, st, v
  <2> QED  BY <1>1, <1>2, <1>3, <2>2 DEF ix, j
<1> QED  BY <1>4, <1>5

\* The words the QPU reads are those of the operand's group.
LEMMA OperandWords ==
    ASSUME PlaceInv, Regular(call), NEW q \in QPU, pc[q] = "take",
           NEW k \in Tiles, NEW l \in Lanes
    PROVE  /\ Step(q).ti \in 0 .. call.n - 1
           /\ WordAt(ptr[q][Step(q).ti], k, l)
                = ElementAt(call, call.ptr[Step(q).ti], call.start[Step(q).ti],
                            Lane(call, Here(q), k * LANES + l))
<1> USE DEF PlaceInv, IInv
<1> DEFINE i == Step(q).ti
<1>1. i \in 0 .. call.n - 1
  BY CallFacts DEF TypeOK, ControlOK, Inputs
<1>2. call \in Calls /\ CallOK(call) /\ SliceOK(call, call.ptr[i], call.start[i])
  BY <1>1, CallFacts, SlicesOK DEF TypeOK
<1>3. InShare(call, q, Here(q)) /\ AtGroup(call, Here(q), ptr[q], outp[q])
  BY BodyFacts DEF Inner
<1> HIDE DEF i
<1>4. ptr[q][i] = GroupAt(call, call.ptr[i], call.start[i], Here(q)) % WORD
  BY <1>1, <1>3 DEF AtGroup
<1>5. WordAt(GroupAt(call, call.ptr[i], call.start[i], Here(q)) % WORD, k, l)
        = ElementAt(call, call.ptr[i], call.start[i], Lane(call, Here(q), k * LANES + l))
  BY <1>2, <1>3, WordOfLane
<1> QED  BY <1>1, <1>4, <1>5 DEF i

LEMMA StepAcc ==
    ASSUME PlaceInv, Regular(call), AccOK, ReadsOriginalInput, [Next]_vars
    PROVE  AccOK'
<1> USE DEF PlaceInv, IInv
<1>1. CASE UNCHANGED vars
  BY <1>1 DEF vars, AccOK
<1> SUFFICES ASSUME NEW p \in QPU, QpuStep(p) \/ DmaLoad(p) \/ DmaStore(p),
                    NEW q \in QPU
             PROVE  AccOf(call', q, pc'[q], pos'[q], counter'[q], acc'[q])
  BY <1>1 DEF Next, AccOK
<1>2. AccOf(call, q, pc[q], pos[q], counter[q], acc[q])  BY DEF AccOK
<1>3. /\ call' = call
      /\ pc \in [QPU -> Labels] /\ pos \in [QPU -> Nat] /\ DOMAIN acc = QPU
  BY StepFrame DEF TypeOK, ControlOK, SharedOK
<1>4. CASE q # p \/ DmaLoad(p) \/ DmaStore(p)
  <2>1. pc'[q] = pc[q] /\ pos'[q] = pos[q] /\ counter'[q] = counter[q] /\ acc'[q] = acc[q]
    BY <1>4, StepFrame
  <2> QED  BY <1>2, <1>3, <2>1
<1>5. CASE q = p /\ (ScalarStep(p) \/ TakeTiles(p))
  <2>1. /\ pc'[q] = "body" /\ pos'[q] = pos[q] + 1 /\ counter' = counter
        /\ pos[q] \in 1 .. Len(call.steps) /\ pc[q] \in {"body", "take"}
    BY <1>3, <1>5 DEF ScalarStep, TakeTiles, InBody, GoTo, regs, TypeOK, ControlOK
  <2>2. ASSUME NEW k \in Tiles, NEW l \in Lanes
        PROVE  acc'[q][k][l] = StepValues(call, Lane(call, Here(q), k * LANES + l))[pos[q]]
    <3>1. CASE ScalarStep(p)
      <4>1. Step(q).ti = None  BY <1>5, <3>1 DEF ScalarStep
      <4>2. acc'[q][k][l] = Accumulate(Step(q), acc[q][k][l], Operand(q, Step(q), Junk))
        BY <1>3, <1>5, <3>1 DEF ScalarStep
      <4> QED  BY <2>1, <4>1, <4>2, NextStep
    <3>2. CASE TakeTiles(p)
      <4> DEFINE x == vpm[VpmRow(q, k)][l]
      <4>1. pc[q] = "take" /\ load[q] = None  BY <1>5, <3>2 DEF TakeTiles, VrWait
      <4>2. x = Cell(WordAt(ptr[q][Step(q).ti], k, l))
        BY <4>1 DEF ReadsOriginalInput
      <4>3. x = Cell(ElementAt(call, call.ptr[Step(q).ti], call.start[Step(q).ti],
                               Lane(call, Here(q), k * LANES + l)))
        BY <4>1, <4>2, OperandWords
      <4>4. acc'[q][k][l] = Accumulate(Step(q), acc[q][k][l], Operand(q, Step(q), x))
        BY <1>3, <1>5, <3>2 DEF TakeTiles
      <4> HIDE DEF x
      <4> QED  BY <2>1, <4>3, <4>4, NextStep
    <3> QED  BY <1>5, <3>1, <3>2
  <2>3. (pos[q] + 1) - 1 = pos[q]  BY <1>3
  <2> QED  BY <1>3, <2>1, <2>2, <2>3 DEF AccOf, Here
<1>6. CASE q = p /\ (IssueLoad(p) \/ PackTiles(p) \/ IssueStore(p))
  <2>1. /\ pos'[q] = pos[q] /\ counter' = counter /\ acc' = acc /\ pc[q] \in Inner
        /\ pc'[q] \in {"pack", "drain"} =>
             pc[q] = "pack" \/ pos[q] = Len(call.steps) + 1
    BY <1>3, <1>6 DEF IssueLoad, PackTiles, IssueStore, InBody, GoTo, regs, Inner
  <2> QED  BY <1>2, <1>3, <2>1 DEF AccOf
<1>7. CASE q = p /\ (Preamble(p) \/ SetupDim(p) \/ Advance(p) \/ LoopAgain(p) \/ LoopExit(p))
  <2>1. pc'[q] \notin Inner \/ (pc'[q] = "body" /\ pos'[q] = 1)
    <3>1. CASE Preamble(p) \/ Advance(p)
      BY <1>3, <1>7, <3>1 DEF Preamble, Advance, GoTo, Inner
    <3>2. CASE SetupDim(p)
      <4>1. GoTo(q, "body", 1) \/ \E n \in Int : GoTo(q, "setup", n)
        <5>1. pos[q] + 1 \in Int  BY <1>3
        <5> QED  BY <1>7, <3>2, <5>1 DEF SetupDim
      <4> QED  BY <1>3, <4>1 DEF GoTo, Inner
    <3>3. CASE LoopAgain(p)
      BY <1>3, <1>7, <3>3 DEF LoopAgain, GoTo, Inner
    <3>4. CASE LoopExit(p)
      <4>1. GoTo(q, "done", 0) \/ \E n \in Int : GoTo(q, "loop", n)
        <5>1. pos[q] + 1 \in Int  BY <1>3
        <5> QED  BY <1>7, <3>4, <5>1 DEF LoopExit
      <4> QED  BY <1>3, <4>1 DEF GoTo, Inner
    <3> QED  BY <1>7, <3>1, <3>2, <3>3, <3>4
  <2> QED  BY <2>1 DEF AccOf, Inner
<1> QED  BY <1>4, <1>5, <1>6, <1>7 DEF QpuStep

-----------------------------------------------------------------------------
(* What is stored and what is read.                                        *)

\* Only reference values have been stored, and only in whole groups.
MemoryOK ==
    /\ DOMAIN mem \subseteq Writable(call)
    /\ DOMAIN mem \subseteq DOMAIN Reference[call]
    /\ mem = [a \in DOMAIN mem |-> Reference[call][a]]

\* What a store writes is the reference value: the rows hold what was packed, the
\* accumulators the whole expression.
LEMMA StoredValue ==
    ASSUME PlaceInv, Regular(call), AccOK, NEW p \in QPU, store[p] # None,
           NEW k \in Tiles, NEW l \in Lanes
    PROVE  /\ WordAt(store[p], k, l) \in Writable(call)
           /\ WordAt(store[p], k, l) \in DOMAIN Reference[call]
           /\ vpm[StoreRow(p, k)][l] = Reference[call][WordAt(store[p], k, l)]
<1> USE DEF PlaceInv, IInv
<1> DEFINE ix == Lane(call, Here(p), k * LANES + l)
           n  == Len(call.steps)
<1>1. call \in Calls /\ CallOK(call) /\ n \in Nat \ {0}
  BY CallFacts DEF TypeOK
<1>2. pc[p] = "drain" /\ InShare(call, p, Here(p)) /\ WordAt(store[p], k, l) = OutAt(call, ix)
  BY StoredWords
<1>3. ix \in Indices(call) /\ ix \in Reached(call)  BY <1>1, <1>2, TileLane, LaneInShare
<1>4. vpm[StoreRow(p, k)] = acc[p][k]  BY DEF StagedIntact
<1>5. acc[p][k][l] = StepValues(call, ix)[n]
  <2>1. pos[p] = n + 1  BY <1>2 DEF AccOK, AccOf
  <2>2. pos[p] > 1 /\ pos[p] - 1 = n  BY <1>1, <2>1
  <2>3. acc[p][k][l] = StepValues(call, ix)[pos[p] - 1]
    BY <1>2, <2>2 DEF AccOK, AccOf, Inner, Here
  <2> HIDE DEF ix, n
  <2> QED  BY <2>2, <2>3
<1>6. StepValues(call, ix)[n] = ValueAt(call, ix)  BY DEF ValueAt
<1> HIDE DEF ix, n
<1>7. /\ OutAt(call, ix) \in DOMAIN Reference[call]
      /\ Reference[call][OutAt(call, ix)] = ValueAt(call, ix)
  BY <1>1, <1>3, ReferenceFacts
<1>8. OutAt(call, ix) \in Writable(call)  BY <1>3 DEF Writable
<1> QED  BY <1>2, <1>4, <1>5, <1>6, <1>7, <1>8

LEMMA MemoryGrows ==
    ASSUME NEW p \in QPU, QpuStep(p) \/ DmaLoad(p) \/ DmaStore(p)
    PROVE  DOMAIN mem \subseteq DOMAIN mem'
BY DEF QpuStep, Preamble, SetupDim, ScalarStep, IssueLoad, DmaLoad, TakeTiles, PackTiles,
   IssueStore, DmaStore, Advance, LoopAgain, LoopExit

LEMMA StepMemory ==
    ASSUME PlaceInv, Regular(call), AccOK, MemoryOK, [Next]_vars
    PROVE  MemoryOK'
<1>1. CASE UNCHANGED vars
  BY <1>1 DEF vars, MemoryOK
<1> SUFFICES ASSUME NEW p \in QPU, QpuStep(p) \/ DmaLoad(p) \/ DmaStore(p)
             PROVE  MemoryOK'
  BY <1>1 DEF Next
<1>2. call' = call  BY StepFrame DEF PlaceInv, IInv
<1>3. CASE ~DmaStore(p)
  <2>1. mem' = mem
    BY <1>3 DEF QpuStep, Preamble, SetupDim, ScalarStep, IssueLoad, DmaLoad, TakeTiles,
       PackTiles, IssueStore, Advance, LoopAgain, LoopExit
  <2> QED  BY <1>2, <2>1 DEF MemoryOK
<1>4. CASE DmaStore(p)
  <2> DEFINE w == GroupWords(store[p])
             D == DOMAIN mem \cup w
             R == Reference[call]
             new(a) == LET t == CHOOSE t \in Tiles \X Lanes : a = WordAt(store[p], t[1], t[2])
                       IN  vpm[StoreRow(p, t[1])][t[2]]
             v(a) == IF a \in w THEN new(a) ELSE mem[a]
  <2>1. store[p] # None /\ mem' = [a \in D |-> v(a)]  BY <1>4 DEF DmaStore
  <2>2. ASSUME NEW a \in w PROVE a \in Writable(call) /\ a \in DOMAIN R /\ new(a) = R[a]
    <3> DEFINE t == CHOOSE t \in Tiles \X Lanes : a = WordAt(store[p], t[1], t[2])
    <3>1. \E s \in Tiles \X Lanes : a = WordAt(store[p], s[1], s[2])
      <4>1. PICK k \in Tiles, l \in Lanes : a = WordAt(store[p], k, l)
        BY <2>2 DEF GroupWords
      <4>2. /\ <<k, l>> \in Tiles \X Lanes /\ <<k, l>>[1] = k /\ <<k, l>>[2] = l
        OBVIOUS
      <4> QED  BY <4>1, <4>2
    <3>2. t \in Tiles \X Lanes /\ a = WordAt(store[p], t[1], t[2])  BY <3>1
    <3>3. new(a) = vpm[StoreRow(p, t[1])][t[2]]  OBVIOUS
    <3> HIDE DEF t, new, R
    <3>4. t[1] \in Tiles /\ t[2] \in Lanes  BY <3>2
    <3>5. /\ WordAt(store[p], t[1], t[2]) \in Writable(call)
          /\ WordAt(store[p], t[1], t[2]) \in DOMAIN Reference[call]
          /\ vpm[StoreRow(p, t[1])][t[2]] = Reference[call][WordAt(store[p], t[1], t[2])]
      BY <2>1, <3>4, StoredValue
    <3> QED  BY <3>2, <3>3, <3>5 DEF R
  <2>3. ASSUME NEW a \in DOMAIN mem
        PROVE  a \in Writable(call) /\ a \in DOMAIN R /\ mem[a] = R[a]
    <3>1. mem = [b \in DOMAIN mem |-> R[b]]  BY DEF MemoryOK
    <3> HIDE DEF R
    <3>2. mem[a] = R[a]  BY <3>1
    <3> QED  BY <3>2 DEF MemoryOK, R
  <2> HIDE DEF w, new, R
  <2>4. \A a \in D : a \in Writable(call) /\ a \in DOMAIN R /\ v(a) = R[a]
    BY <2>2, <2>3
  <2> HIDE DEF D, v
  <2>5. mem' = [a \in D |-> R[a]]  BY <2>1, <2>4
  <2>6. DOMAIN mem' = D  BY <2>5
  <2> QED  BY <1>2, <2>4, <2>5, <2>6 DEF MemoryOK, R
<1> QED  BY <1>3, <1>4

\* A word of the group a QPU is about to read has not been stored: it is ahead of
\* the QPU if the call works in place, outside the output if it does not.
LEMMA OperandUnwritten ==
    ASSUME PlaceInv, Regular(call), StoredBehind, MemoryOK, NEW q \in QPU, pc[q] = "take",
           NEW k \in Tiles, NEW l \in Lanes
    PROVE  WordAt(ptr[q][Step(q).ti], k, l) \notin DOMAIN mem
<1> USE DEF PlaceInv, IInv
<1> DEFINE i  == Step(q).ti
           m  == k * LANES + l
           ix == Lane(call, Here(q), m)
           x  == ElementAt(call, call.ptr[i], call.start[i], ix)
<1>1. i \in 0 .. call.n - 1 /\ WordAt(ptr[q][i], k, l) = x  BY OperandWords
<1>2. call \in Calls /\ CallOK(call) /\ call.out \in Int /\ call.ostart \in Coords(call)
  BY CallFacts, ShapeFacts DEF TypeOK
<1>3. InShare(call, q, Here(q)) /\ m \in 0 .. GROUP - 1  BY BodyFacts, TileLane DEF Inner
<1>4. ix \in Indices(call) /\ OutAt(call, ix) \in OwnWords[call][q]
  BY <1>2, <1>3, LaneInShare
<1>5. CASE call.ptr[i] = call.out /\ call.start[i] = call.ostart
  <2> DEFINE g == GroupAt(call, call.out, call.ostart, Here(q))
  <2>1. Here(q) \in Coords(call)  BY <1>3 DEF InShare
  <2>2. g \in Int  BY <1>2, <2>1, GroupIsInt
  <2>3. OutAt(call, ix) = g + 4 * m  BY <1>2, <1>3, <2>1, LaneAddress DEF OutAt
  <2>4. x = OutAt(call, ix)  BY <1>5 DEF OutAt
  <2>5. Frontier(call, q, pc[q], pos[q], counter[q], store[q]) = g
    <3> HIDE DEF g
    <3> QED  BY <2>2 DEF Frontier, PlaceOf, Here, g
  <2>6. OutAt(call, ix) \in DOMAIN mem => OutAt(call, ix) < g
    BY <1>4, <2>5 DEF StoredBehind, Behind, Walk
  <2> HIDE DEF g, m, ix, x, i
  <2> QED  BY <1>1, <1>3, <2>2, <2>3, <2>4, <2>6, Machine DEF i
<1>6. CASE SliceWords(call, call.ptr[i], call.start[i])
             \cap SliceWords(call, call.out, call.ostart) = {}
  <2>1. x \in SliceWords(call, call.ptr[i], call.start[i])  BY <1>4 DEF SliceWords
  <2>2. \A a \in DOMAIN mem : a \in SliceWords(call, call.out, call.ostart)
    <3>1. \A a \in DOMAIN Reference[call] : \E jx \in Indices(call) : a = OutAt(call, jx)
      BY <1>2, ReferenceFacts
    <3> QED  BY <3>1 DEF MemoryOK, SliceWords, OutAt
  <2> HIDE DEF x, i
  <2> QED  BY <1>1, <1>6, <2>1, <2>2 DEF i
<1> QED  BY <1>1, <1>5, <1>6 DEF Regular, InPlaceOrApart

\* A load brings every lane of the group into the row it is read from.
LEMMA LoadedWord ==
    ASSUME TypeOK, UnifOK, NEW q \in QPU, DmaLoad(q), NEW k \in Tiles, NEW l \in Lanes
    PROVE  vpm'[VpmRow(q, k)][l] = Fetch(WordAt(load[q], k, l))
<1> DEFINE r == VpmRow(q, k)
<1>1. r = q * TILES + k /\ r \in 0 .. ROWS - 1  BY SameRows
<1>2. \A j \in Tiles : LoadRow(q, j) = q * TILES + j  BY SameRows
<1>3. r = LoadRow(q, k)  BY <1>1, <1>2
<1>4. \A j \in Tiles : r = LoadRow(q, j) => j = k  BY <1>1, <1>2, RowsDistinct
<1> HIDE DEF r
<1>5. (CHOOSE j \in Tiles : r = LoadRow(q, j)) = k  BY <1>3, <1>4
<1>6. vpm'[r] = IF \E j \in Tiles : r = LoadRow(q, j)
                THEN LET j == CHOOSE j \in Tiles : r = LoadRow(q, j)
                     IN  [o \in Lanes |-> Fetch(WordAt(load[q], j, o))]
                ELSE vpm[r]
  BY <1>1 DEF DmaLoad
<1>7. vpm'[r] = [o \in Lanes |-> Fetch(WordAt(load[q], k, o))]
  BY <1>3, <1>5, <1>6
<1> QED  BY <1>7 DEF r

LEMMA StepReads ==
    ASSUME PlaceInv, Regular(call), StoredBehind, MemoryOK, ReadsOriginalInput, [Next]_vars
    PROVE  ReadsOriginalInput'
<1> USE DEF PlaceInv, IInv
<1>1. CASE UNCHANGED vars
  BY <1>1 DEF vars, ReadsOriginalInput, Step, VpmRow, Rb1, QNum, UQpu
<1> SUFFICES ASSUME NEW p \in QPU, QpuStep(p) \/ DmaLoad(p) \/ DmaStore(p),
                    NEW q \in QPU, pc'[q] = "take", load'[q] = None,
                    NEW k \in Tiles, NEW l \in Lanes
             PROVE  vpm'[VpmRow(q, k)'][l] = Cell(WordAt(ptr'[q][Step(q)'.ti], k, l))
  BY <1>1 DEF Next, ReadsOriginalInput
<1>2. /\ call' = call /\ unif' = unif
      /\ pc \in [QPU -> Labels] /\ pos \in [QPU -> Nat] /\ DOMAIN load = QPU
      /\ load[q] # None => pc[q] = "take"
  BY StepFrame DEF TypeOK, ControlOK, SharedOK, InFlight
<1>3. VpmRow(q, k)' = VpmRow(q, k)  BY <1>2 DEF VpmRow, Rb1, QNum, UQpu
<1>4. CASE q = p /\ DmaLoad(p)
  <2>1. pc[q] = "take" /\ load[q] # None /\ ptr' = ptr /\ Step(q)' = Step(q)
    BY <1>2, <1>4 DEF DmaLoad, regs, Step
  <2>2. load[q] = ptr[q][Step(q).ti]  BY <2>1 DEF TransferOK
  <2> DEFINE a == WordAt(ptr[q][Step(q).ti], k, l)
  <2>3. a \notin DOMAIN mem  BY <2>1, OperandUnwritten
  <2>4. vpm'[VpmRow(q, k)][l] = Fetch(WordAt(load[q], k, l))  BY <1>4, LoadedWord
  <2>5. WordAt(load[q], k, l) = a  BY <2>2
  <2> HIDE DEF a
  <2>6. Fetch(a) = Cell(a)  BY <2>3 DEF Fetch
  <2> QED  BY <1>3, <2>1, <2>4, <2>5, <2>6 DEF a
<1>5. CASE q = p /\ DmaStore(p)
  <2>1. /\ pc' = pc /\ load' = load /\ vpm' = vpm /\ ptr' = ptr /\ Step(q)' = Step(q)
    BY <1>2, <1>5 DEF DmaStore, regs, Step
  <2> QED  BY <1>3, <2>1 DEF ReadsOriginalInput
<1>6. q # p \/ ~QpuStep(p)
  <2> SUFFICES ASSUME q = p, QpuStep(p) PROVE FALSE  OBVIOUS
  <2>1. IssueLoad(p)
    BY <1>2 DEF QpuStep, Preamble, SetupDim, ScalarStep, TakeTiles, PackTiles, IssueStore,
       Advance, LoopAgain, LoopExit, GoTo
  <2>2. load'[q] = ptr[q][Step(q).ti] /\ Step(q).ti \in Inputs
    BY <1>2, <2>1, CallFacts DEF IssueLoad, InBody
  <2>3. ptr[q][Step(q).ti] \in Words  BY <2>2 DEF TypeOK, RegistersOK
  <2> QED  BY <2>2, <2>3, WordsNat DEF None
<1>7. CASE q # p
  <2>1. /\ pc[q] = "take" /\ load[q] = None /\ ptr'[q] = ptr[q] /\ Step(q)' = Step(q)
    BY <1>7, StepFrame DEF Step
  <2>2. vpm'[VpmRow(q, k)] = vpm[VpmRow(q, k)]
    <3>1. VpmRow(q, k) = StoreRow(q, k)  BY SameRows
    <3>2. CASE PackTiles(p) \/ DmaLoad(p)
      BY <1>7, <3>1, <3>2, BandWrites
    <3>3. CASE ~PackTiles(p) /\ ~DmaLoad(p)
      BY <3>3 DEF QpuStep, Preamble, SetupDim, ScalarStep, IssueLoad, TakeTiles,
         IssueStore, DmaStore, Advance, LoopAgain, LoopExit
    <3> QED  BY <3>2, <3>3
  <2> QED  BY <1>3, <2>1, <2>2 DEF ReadsOriginalInput
<1> QED  BY <1>4, <1>5, <1>6, <1>7

-----------------------------------------------------------------------------
(* The theorems.                                                           *)

\* The inductive invariant of the map.
MapInv == PlaceInv /\ StoredBehind /\ AccOK /\ MemoryOK /\ ReadsOriginalInput

LEMMA InitMap == Init => MapInv
<1> SUFFICES ASSUME Init PROVE MapInv  OBVIOUS
<1>1. PlaceInv  BY InitPlace
<1>2. DOMAIN mem = {} /\ mem = [a \in {} |-> Junk]  BY DEF Init
<1>3. StoredBehind  BY <1>2 DEF StoredBehind, Behind
<1>4. AccOK /\ ReadsOriginalInput
  BY DEF Init, AccOK, AccOf, Inner, ReadsOriginalInput
<1>5. MemoryOK
  <2>1. mem = [a \in DOMAIN mem |-> Reference[call][a]]  BY <1>2
  <2> QED  BY <1>2, <2>1 DEF MemoryOK
<1> QED  BY <1>1, <1>3, <1>4, <1>5 DEF MapInv

LEMMA StepMap ==
    ASSUME \A c \in Calls : Regular(c), MapInv, [Next]_vars
    PROVE  MapInv'
<1> USE DEF MapInv
<1>1. Regular(call)  BY DEF PlaceInv, IInv, TypeOK
<1>2. PlaceInv'  BY <1>1, StepPlace
<1>3. StoredBehind'  BY <1>1, StepBehind
<1>4. AccOK'  BY <1>1, StepAcc
<1>5. MemoryOK'  BY <1>1, StepMemory
<1>6. ReadsOriginalInput'  BY <1>1, StepReads
<1> QED  BY <1>2, <1>3, <1>4, <1>5, <1>6

\* No QPU ever combines anything but the words its operands held before the call:
\* no transfer of another QPU lands in its rows between its load and its reads,
\* and no store of any QPU has reached the operands, even when the output is one
\* of the inputs.
THEOREM ReadsSafe ==
    ASSUME \A c \in Calls : Regular(c)
    PROVE  Spec => []ReadsOriginalInput
<1>1. MapInv /\ [Next]_vars => MapInv'  BY StepMap
<1>2. MapInv => ReadsOriginalInput  BY DEF MapInv
<1> QED  BY <1>1, <1>2, InitMap, PTL DEF Spec

\* A step stores reference values into words of the output, or nothing.
LEMMA StepFills ==
    ASSUME MapInv, MemoryOK', [Next]_vars
    PROVE  [Abstract!Fill]_(Abstract!vars)
<1> DEFINE R == Reference[call]
<1>1. CASE UNCHANGED vars
  BY <1>1 DEF vars, Abstract!vars
<1> SUFFICES ASSUME NEW p \in QPU, QpuStep(p) \/ DmaLoad(p) \/ DmaStore(p)
             PROVE  [Abstract!Fill]_(Abstract!vars)
  BY <1>1 DEF Next
<1>2. call' = call  BY StepFrame DEF MapInv, PlaceInv, IInv
<1>3. DOMAIN mem \subseteq DOMAIN mem'  BY MemoryGrows
<1>4. DOMAIN mem' \subseteq DOMAIN R /\ mem' = [a \in DOMAIN mem' |-> R[a]]
  BY <1>2 DEF MemoryOK
<1>5. mem = [a \in DOMAIN mem |-> R[a]]  BY DEF MapInv, MemoryOK
<1>6. Reference[call'] = R  BY <1>2
<1> HIDE DEF R
<1>7. CASE DOMAIN mem' = DOMAIN mem
  <2>1. mem' = mem  BY <1>4, <1>5, <1>7
  <2> QED  BY <1>6, <2>1 DEF Abstract!vars, R
<1>8. CASE DOMAIN mem' # DOMAIN mem
  <2>1. \A a \in DOMAIN mem : mem[a] = R[a]  BY <1>5
  <2> DEFINE D == DOMAIN mem'
  <2>2. mem' = [a \in D |-> R[a]]  BY <1>4
  <2> HIDE DEF D
  <2>3. mem' = [a \in D |-> IF a \in DOMAIN mem THEN mem[a] ELSE R[a]]
    BY <2>1, <2>2
  <2> QED  BY <1>3, <1>4, <1>6, <1>8, <2>3 DEF Abstract!Fill, R, D
<1> QED  BY <1>7, <1>8

\* The kernel implements the elementwise map: for every number of QPUs, tiles and
\* lanes, every number of dimensions and tensors and every expression, what the
\* QPUs store between them, in whatever order they run, is the value of the
\* expression at elements of the output slice, each stored once and for all.
THEOREM MapImplemented ==
    ASSUME \A c \in Calls : Regular(c)
    PROVE  Spec => ImplementsMap
<1>1. Init => Abstract!Init  BY DEF Init, Abstract!Init
<1>2. MapInv /\ [Next]_vars => MapInv'  BY StepMap
<1>3. MapInv /\ MapInv' /\ [Next]_vars => [Abstract!Fill]_(Abstract!vars)
  BY StepFills DEF MapInv
<1> QED  BY <1>1, <1>2, <1>3, InitMap, PTL DEF Spec, ImplementsMap, Abstract!Spec

-----------------------------------------------------------------------------
(* Nothing is left out.                                                    *)

\* Group Q comes before group P in the order of the loops.
Before(c, Q, P) ==
    \E e \in 0 .. c.d - 1 :
        /\ Q[e] < P[e]
        /\ \A f \in 0 .. c.d - 1 : f > e => Q[f] = P[f]

\* QPU q, where it is, has stored group Q of its part.
Passed(c, q, label, p, cnt, st, Q) ==
    \/ label = "done"
    \/ label \in Walk /\ Before(c, Q, PlaceOf(c, q, label, p, cnt))
    \/ label = "drain" /\ st = None /\ Q = AtBody(c, q, cnt)

\* The elements of group Q are among the words stored.
GroupStored(c, Q, stored) ==
    \A m \in 0 .. GROUP - 1 : OutAt(c, Lane(c, Q, m)) \in stored

PassedStored ==
    \A q \in QPU : \A Q \in Coords(call) :
        /\ InShare(call, q, Q)
        /\ Passed(call, q, pc[q], pos[q], counter[q], store[q], Q)
        => GroupStored(call, Q, DOMAIN mem)

\* No group of a part comes before the part's first.
LEMMA NoneBeforeFirst ==
    ASSUME NEW c, CallOK(c), NEW q \in QPU, NEW Q, InShare(c, q, Q)
    PROVE  ~Before(c, Q, FirstGroup(c, q))
<1> SUFFICES ASSUME NEW e \in 0 .. c.d - 1, Q[e] < FirstGroup(c, q)[e] PROVE FALSE
  BY DEF Before
<1> DEFINE o == Origin(c, q, e)
           x == Q[e]
<1>1. o \in Nat  BY PartFacts
<1>2. x \in Int  BY DEF InShare, Coords
<1>3. o <= x  BY DEF InShare
<1>4. x < o  BY DEF FirstGroup
<1> HIDE DEF o, x
<1> QED  BY <1>1, <1>2, <1>3, <1>4

\* Moving on by a group passes that group only.
LEMMA BeforeNext ==
    ASSUME NEW c, CallOK(c), NEW Q \in Coords(c), NEW P \in Coords(c),
           Before(c, Q, [P EXCEPT ![0] = P[0] + 1])
    PROVE  Before(c, Q, P) \/ Q = P
<1> DEFINE D == 0 .. c.d - 1
           N == [P EXCEPT ![0] = P[0] + 1]
<1>1. 0 \in D /\ D \subseteq Nat /\ Q \in [D -> Int] /\ P \in [D -> Int]
  BY ShapeFacts DEF Coords
<1>2. PICK e \in D : Q[e] < N[e] /\ \A f \in D : f > e => Q[f] = N[f]
  BY DEF Before
<1> HIDE DEF D
<1>3. N[0] = P[0] + 1 /\ \A f \in D : f # 0 => N[f] = P[f]  BY <1>1
<1> HIDE DEF N
<1>4. \A f \in D : f > e => Q[f] = P[f]  BY <1>1, <1>2, <1>3
<1>5. CASE e # 0
  <2>1. Q[e] < P[e]  BY <1>2, <1>3, <1>5
  <2> QED  BY <1>2, <1>4, <2>1 DEF Before, D
<1>6. CASE e = 0 /\ Q[0] # P[0]
  <2>1. Q[0] < P[0]  BY <1>1, <1>2, <1>3, <1>6
  <2> QED  BY <1>2, <1>4, <1>6, <2>1 DEF Before, D
<1>7. CASE e = 0 /\ Q[0] = P[0]
  <2>1. \A f \in D : Q[f] = P[f]  BY <1>1, <1>4, <1>7
  <2>2. Q = [f \in D |-> Q[f]] /\ P = [f \in D |-> P[f]]  BY <1>1
  <2>3. Q = P  BY <2>1, <2>2, Zenon
  <2> QED  BY <2>3
<1> QED  BY <1>5, <1>6, <1>7

\* The step from the end of an inner row to the next index passes no group of the
\* part: the row's groups are all before its end.
LEMMA BeforeOnward ==
    ASSUME NEW c, CallOK(c), NEW q \in QPU, NEW d \in 0 .. c.d - 1, NEW cnt \in Counts(c),
           NEW Q, InShare(c, q, Q),
           Before(c, Q, Onward(AtLoop(c, q, d, cnt), d))
    PROVE  Before(c, Q, AtLoop(c, q, d, cnt))
<1> DEFINE D == 0 .. c.d - 1
           P == AtLoop(c, q, d, cnt)
           N == Onward(P, d)
<1>1. /\ D \subseteq Nat /\ c.d \in Nat /\ Q \in [D -> Int] /\ P \in [D -> Int]
  <2>1. d \in Nat  BY ShapeFacts
  <2>2. P \in Coords(c)  BY <2>1, PlaceIsCoords
  <2> QED  BY <2>2, ShapeFacts DEF InShare, Coords
<1>2. \A f \in D : /\ Origin(c, q, f) \in Nat /\ Iters(c, q, f) \in Nat
                   /\ Origin(c, q, f) <= Q[f]
                   /\ Q[f] < Origin(c, q, f) + Iters(c, q, f)
  BY PartFacts DEF InShare
<1>3. CASE d = 0
  BY <1>3 DEF Onward
<1>4. CASE d # 0
  <2>1. d - 1 \in D /\ d \in D /\ d - 1 # d  BY <1>1, <1>4
  <2>2. /\ P[d - 1] = Origin(c, q, d - 1) + Iters(c, q, d - 1)
        /\ \A f \in D : f < d - 1 => P[f] = Origin(c, q, f) + 0
    BY <1>1, <2>1 DEF AtLoop
  <2>3. PICK e \in D : Q[e] < N[e] /\ \A f \in D : f > e => Q[f] = N[f]
    BY DEF Before
  <2>4. N = [[P EXCEPT ![d - 1] = 0] EXCEPT ![d] = P[d] + 1]
    BY <1>4 DEF Onward
  <2> HIDE DEF D, P, N
  <2>5. /\ N[d - 1] = 0 /\ N[d] = P[d] + 1
        /\ \A f \in D : f # d /\ f # d - 1 => N[f] = P[f]
    BY <1>1, <2>1, <2>4
  <2>6. \A f \in D : f > e /\ f > d => Q[f] = P[f]
    BY <1>1, <2>1, <2>3, <2>5
  <2>7. CASE e > d
    <3>1. Q[e] < P[e]  BY <1>1, <2>1, <2>3, <2>5, <2>7
    <3>2. \A f \in D : f > e => Q[f] = P[f]  BY <1>1, <2>1, <2>6, <2>7
    <3> QED  BY <2>3, <3>1, <3>2 DEF Before, D, P
  <2>8. CASE e = d /\ Q[d] # P[d]
    <3>1. Q[d] < P[d]  BY <1>1, <2>1, <2>3, <2>5, <2>8
    <3>2. \A f \in D : f > d => Q[f] = P[f]  BY <2>6, <2>8
    <3> QED  BY <2>1, <3>1, <3>2 DEF Before, D, P
  <2>9. CASE e = d /\ Q[d] = P[d]
    <3>1. Q[d - 1] < P[d - 1]  BY <1>2, <2>1, <2>2
    <3>2. \A f \in D : f > d - 1 => Q[f] = P[f]
      <4> SUFFICES ASSUME NEW f \in D, f > d - 1 PROVE Q[f] = P[f]  OBVIOUS
      <4>1. f = d \/ f > d  BY <1>1, <2>1
      <4> QED  BY <2>6, <2>9, <4>1
    <3> QED  BY <2>1, <3>1, <3>2 DEF Before, D, P
  <2>10. CASE e = d - 1
    <3>1. Q[e] < 0  BY <2>3, <2>5, <2>10
    <3> QED  BY <1>1, <1>2, <2>1, <2>10, <3>1
  <2>11. CASE e < d - 1
    <3>1. N[e] = Origin(c, q, e) + 0  BY <1>1, <2>1, <2>2, <2>3, <2>5, <2>11
    <3> QED  BY <1>1, <1>2, <2>3, <3>1
  <2> QED  BY <1>1, <2>1, <2>3, <2>7, <2>8, <2>9, <2>10, <2>11
<1> QED  BY <1>3, <1>4

\* At the last end of the outermost loop every group of the part is passed.
LEMMA AllBeforeEnd ==
    ASSUME NEW c, CallOK(c), NEW q \in QPU, NEW cnt \in Counts(c), cnt[c.d - 1] = 1,
           NEW Q, InShare(c, q, Q)
    PROVE  Before(c, Q, Onward(AtLoop(c, q, c.d - 1, cnt), c.d - 1))
<1> DEFINE d == c.d - 1
           P == AtLoop(c, q, d, cnt)
           N == Onward(P, d)
           o == Origin(c, q, d)
           n == Iters(c, q, d)
<1>1. c.d \in Nat \ {0} /\ d \in Nat /\ d \in 0 .. c.d - 1  BY ShapeFacts
<1>2. o \in Nat /\ n \in Nat /\ Q[d] < o + n  BY <1>1, PartFacts DEF InShare
<1>3. P \in Coords(c)  BY <1>1, PlaceIsCoords
<1>4. P[d] = o + (n - cnt[d] + (IF d = 0 THEN 1 ELSE 0))
  BY <1>1 DEF AtLoop
<1>5. N[d] = o + n
  <2>1. CASE d = 0
    <3>1. N = P  BY <2>1 DEF Onward
    <3> HIDE DEF P, N, o, n
    <3> QED  BY <1>2, <1>4, <2>1, <3>1
  <2>2. CASE d # 0
    <3>1. N = [[P EXCEPT ![d - 1] = 0] EXCEPT ![d] = P[d] + 1]  BY <2>2 DEF Onward
    <3> HIDE DEF P, N, o, n
    <3>2. N[d] = P[d] + 1  BY <1>1, <1>3, <3>1 DEF Coords
    <3> QED  BY <1>2, <1>4, <2>2, <3>2
  <2> QED  BY <2>1, <2>2
<1>6. Q[d] < N[d]  BY <1>2, <1>5
<1>7. \A f \in 0 .. c.d - 1 : f > d => Q[f] = N[f]  BY <1>1
<1> HIDE DEF N
<1> QED  BY <1>1, <1>6, <1>7 DEF Before, N

\* A position in a group is a lane of a tile.
LEMMA LaneOfTile ==
    ASSUME NEW m \in 0 .. GROUP - 1
    PROVE  \E k \in Tiles, l \in Lanes : m = k * LANES + l
<1> DEFINE L == LANES
           T == TILES
           k == m \div L
           l == m % L
<1>1. L \in Nat \ {0} /\ T \in Nat \ {0} /\ m \in Nat /\ m < T * L /\ T * L \in Nat
  BY Machine DEF GROUP
<1> HIDE DEF L, T
<1>2. m = L * k + l /\ l \in 0 .. L - 1 /\ k \in Nat  BY <1>1
<1> HIDE DEF k, l
<1>3. k < T
  <2> SUFFICES ASSUME k >= T PROVE FALSE  BY <1>1, <1>2
  <2>1. PICK x \in Nat : k = T + x  BY <1>1, <1>2
  <2>2. L * k = T * L + L * x /\ L * x \in Nat /\ L * k \in Nat  BY <1>1, <2>1
  <2> QED  BY <1>1, <1>2, <2>2
<1>4. k \in 0 .. T - 1 /\ l \in 0 .. L - 1 /\ m = k * L + l
  BY <1>1, <1>2, <1>3
<1> QED  BY <1>4 DEF Tiles, Lanes, T, L

\* Every index of a slice is in a group of some QPU's part.
LEMMA ShareOf ==
    ASSUME NEW n \in Nat, NEW i \in 0 .. n - 1
    PROVE  \E q \in QPU : Start(q, n) <= i /\ i < Start(q, n) + Share(q, n)
<1> DEFINE T == {x \in 0 .. NQ : i < Start(x, n)}
<1>1. /\ Start(0, n) = 0 /\ Start(NQ, n) = n
      /\ \A q \in QPU : Start(q + 1, n) = Start(q, n) + Share(q, n)
  BY SplitCovers DEF BlocksAbut
<1>2. NQ \in Nat \ {0}  BY NQAssumption
<1>3. NQ \in T /\ T \subseteq Nat /\ 0 \notin T  BY <1>1, <1>2
<1>4. PICK x \in T : \A y \in T : x <= y
  <2> HIDE DEF T
  <2> QED  BY <1>3, LeastNumber
<1> DEFINE q == x - 1
<1>5. q \in QPU /\ q + 1 = x /\ q \in 0 .. NQ
  BY <1>2, <1>3, <1>4 DEF QPU
<1>6. q \notin T  BY <1>4, <1>5
<1>7. i < Start(x, n) /\ ~(i < Start(q, n))  BY <1>4, <1>5, <1>6
<1>8. Start(q, n) \in Nat  BY <1>5, ShareFacts
<1> HIDE DEF q, T
<1>9. Start(q, n) <= i  BY <1>7, <1>8
<1>10. i < Start(q, n) + Share(q, n)  BY <1>1, <1>5, <1>7
<1> QED  BY <1>5, <1>9, <1>10

LEMMA GroupOfIndex ==
    ASSUME NEW c, CallOK(c), NEW ix \in Reached(c)
    PROVE  \E q \in QPU : \E Q \in Coords(c) : \E m \in 0 .. GROUP - 1 :
             InShare(c, q, Q) /\ ix = Lane(c, Q, m)
<1> DEFINE D == 0 .. c.d - 1
           g == GROUP
           t == ix[0] \div g
           m == ix[0] % g
           Q == [d \in D |-> IF d = 0 THEN t ELSE ix[d]]
           o == c.d - 1
<1>1. 0 \in D /\ o \in D /\ g \in Nat \ {0}
  <2>1. 0 \in D /\ o \in D  BY ShapeFacts
  <2> QED  BY <2>1, Machine
<1>2. ix \in [D -> Nat] /\ \A d \in D : ix[d] < Covered(c, d)
  BY ReachedAre
<1> HIDE DEF g
<1>3. t \in Nat /\ m \in 0 .. g - 1 /\ ix[0] = g * t + m
  <2> DEFINE x == ix[0]
  <2>1. x \in Nat  BY <1>1, <1>2
  <2> HIDE DEF x
  <2>2. x \div g \in Nat /\ x % g \in 0 .. g - 1 /\ x = g * (x \div g) + (x % g)
    BY <1>1, <2>1
  <2> QED  BY <2>2 DEF x
<1>4. \A d \in D : Q[d] \in Nat /\ Groups(c, d) \in Nat /\ Q[d] < Groups(c, d)
  <2> SUFFICES ASSUME NEW d \in D
               PROVE  Q[d] \in Nat /\ Groups(c, d) \in Nat /\ Q[d] < Groups(c, d)
    OBVIOUS
  <2>1. /\ Groups(c, d) \in Nat
        /\ Covered(c, d) = Groups(c, d) * (IF d = 0 THEN g ELSE 1)
    BY GroupsFacts DEF g
  <2> HIDE DEF t, m
  <2>2. CASE d # 0  BY <1>2, <2>1, <2>2
  <2>3. CASE d = 0
    <3> DEFINE n == Groups(c, 0)
    <3>1. n \in Nat /\ ix[0] < n * g  BY <1>2, <2>1, <2>3
    <3> HIDE DEF n
    <3>2. t < n
      <4> SUFFICES ASSUME t >= n PROVE FALSE  BY <1>3, <3>1
      <4>1. PICK x \in Nat : t = n + x  BY <1>3, <3>1
      <4>2. g * t = n * g + g * x /\ g * x \in Nat /\ n * g \in Nat
        BY <1>1, <3>1, <4>1
      <4>3. m \in Nat  BY <1>1, <1>3
      <4> QED  BY <1>3, <3>1, <4>2, <4>3
    <3> QED  BY <1>3, <2>1, <2>3, <3>2 DEF n
  <2> QED  BY <2>2, <2>3
<1>5. PICK q \in QPU : /\ Start(q, Groups(c, o)) <= Q[o]
                       /\ Q[o] < Start(q, Groups(c, o)) + Share(q, Groups(c, o))
  <2> DEFINE n == Groups(c, o)
             i == Q[o]
  <2>1. n \in Nat /\ i \in Nat /\ i < n
    <3> HIDE DEF Q, D, o
    <3> QED  BY <1>1, <1>4
  <2> HIDE DEF n, i
  <2>2. \E q \in QPU : Start(q, n) <= i /\ i < Start(q, n) + Share(q, n)
    <3>1. i \in 0 .. n - 1  BY <2>1
    <3> QED  BY <2>1, <3>1, ShareOf
  <2> QED  BY <2>2 DEF n, i
<1>6. Q \in Coords(c)
  <2>1. Q \in [D -> Int]  BY <1>2, <1>3
  <2> QED  BY <2>1 DEF Coords
<1>7. InShare(c, q, Q)
  <2> SUFFICES ASSUME NEW d \in D
               PROVE  Origin(c, q, d) <= Q[d] /\ Q[d] < Origin(c, q, d) + Iters(c, q, d)
    BY <1>6 DEF InShare
  <2> HIDE DEF Q
  <2>1. CASE d = o  BY <1>5, <2>1 DEF Origin, Iters
  <2>2. CASE d # o
    <3>1. Origin(c, q, d) = 0 /\ Iters(c, q, d) = Groups(c, d)
      BY <2>2 DEF Origin, Iters
    <3> QED  BY <1>4, <3>1
  <2> QED  BY <2>1, <2>2
<1>8. ix = Lane(c, Q, m)
  <2>1. Lane(c, Q, m) = [d \in D |-> IF d = 0 THEN g * Q[0] + m ELSE Q[d]]
    BY DEF Lane, g
  <2>2. Q[0] = t /\ \A d \in D : d # 0 => Q[d] = ix[d]  BY <1>1
  <2>3. ix = [d \in D |-> ix[d]]  BY <1>2
  <2> HIDE DEF Q, t, m, D
  <2>4. \A d \in D : ix[d] = IF d = 0 THEN g * Q[0] + m ELSE Q[d]
    BY <1>3, <2>2
  <2>5. ix = [d \in D |-> IF d = 0 THEN g * Q[0] + m ELSE Q[d]]
    BY <2>3, <2>4
  <2> QED  BY <2>1, <2>5
<1> QED  BY <1>3, <1>6, <1>7, <1>8 DEF g

\* A store adds the QPU's present group.
LEMMA StoreGroup ==
    ASSUME PlaceInv, Regular(call), NEW p \in QPU, DmaStore(p)
    PROVE  GroupStored(call, Here(p), DOMAIN mem')
<1> USE DEF PlaceInv, IInv
<1>1. store[p] # None /\ DOMAIN mem' = DOMAIN mem \cup GroupWords(store[p])
  BY DEF DmaStore
<1>2. \A k \in Tiles, l \in Lanes :
        WordAt(store[p], k, l) = OutAt(call, Lane(call, Here(p), k * LANES + l))
  BY <1>1, StoredWords
<1> SUFFICES ASSUME NEW m \in 0 .. GROUP - 1
             PROVE  OutAt(call, Lane(call, Here(p), m)) \in DOMAIN mem'
  BY DEF GroupStored
<1>3. PICK k \in Tiles, l \in Lanes : m = k * LANES + l  BY LaneOfTile
<1>4. OutAt(call, Lane(call, Here(p), m)) = WordAt(store[p], k, l)  BY <1>2, <1>3
<1>5. WordAt(store[p], k, l) \in GroupWords(store[p])  BY DEF GroupWords
<1> QED  BY <1>1, <1>4, <1>5

\* At the end of the body of a loop no further group of the part is passed, and
\* when the QPU is done it has passed them all.
LEMMA LoopPassed ==
    ASSUME PlaceInv, NEW q \in QPU, LoopAgain(q) \/ LoopExit(q),
           counter'[q] \in Counts(call), NEW Q, InShare(call, q, Q),
           \/ pc'[q] = "done"
           \/ Before(call, Q, PlaceOf(call, q, pc'[q], pos'[q], counter'[q]))
    PROVE  pc[q] = "loop" /\ Before(call, Q, AtLoop(call, q, pos[q], counter[q]))
<1> USE DEF PlaceInv, IInv
<1> DEFINE d == pos[q]
           P == AtLoop(call, q, d, counter[q])
<1>1. pc[q] = "loop"  BY DEF LoopAgain, LoopExit
<1>2. /\ d \in 0 .. call.d - 1 /\ counter[q] \in Counts(call) /\ counter[q][d] \in Nat \ {0}
      /\ Decremented(q, d) = counter[q][d] - 1
  BY <1>1, DecrementFacts DEF Dims
<1>3. CallOK(call)  BY CallFacts
<1>4. Before(call, Q, Onward(P, d))
  <2>1. CASE pc'[q] = "done"
    <3>1. pc \in [QPU -> Labels]  BY DEF TypeOK, ControlOK
    <3>2. ~LoopAgain(q)  BY <2>1, <3>1 DEF LoopAgain, GoTo
    <3>3. LoopExit(q)  BY <3>2
    <3>4. Decremented(q, d) = 0 /\ d = call.d - 1
      BY <2>1, <3>1, <3>3 DEF LoopExit, GoTo, Outermost
    <3>5. counter[q][d] = 1
      <4> HIDE DEF d
      <4> QED  BY <1>2, <3>4
    <3>6. counter[q][call.d - 1] = 1  BY <3>4, <3>5
    <3>7. Before(call, Q, Onward(AtLoop(call, q, call.d - 1, counter[q]), call.d - 1))
      BY <1>2, <1>3, <3>6, AllBeforeEnd
    <3> HIDE DEF d
    <3> QED  BY <3>4, <3>7 DEF P
  <2>2. CASE pc'[q] # "done"
    <3>1. PlaceOf(call, q, pc'[q], pos'[q], counter'[q]) = Onward(P, d)
      BY <2>2, LoopPlace
    <3> QED  BY <2>2, <3>1
  <2> QED  BY <2>1, <2>2
<1> HIDE DEF d
<1>5. Before(call, Q, P)  BY <1>2, <1>3, <1>4, BeforeOnward
<1> QED  BY <1>1, <1>5 DEF d

LEMMA StepPassed ==
    ASSUME PlaceInv, Regular(call), PassedStored, [Next]_vars
    PROVE  PassedStored'
<1> USE DEF PlaceInv, IInv
<1>1. CASE UNCHANGED vars
  BY <1>1 DEF vars, PassedStored
<1>2. CASE \E p \in QPU : QpuStep(p) \/ DmaLoad(p) \/ DmaStore(p)
  <2> SUFFICES ASSUME NEW p \in QPU, QpuStep(p) \/ DmaLoad(p) \/ DmaStore(p)
               PROVE  PassedStored'
    BY <1>2
  <2>1. call' = call  BY StepFrame
  <2> SUFFICES ASSUME NEW q \in QPU, NEW Q \in Coords(call), InShare(call, q, Q),
                      Passed(call, q, pc'[q], pos'[q], counter'[q], store'[q], Q)
               PROVE  GroupStored(call, Q, DOMAIN mem')
    BY <2>1 DEF PassedStored
  <2>2. ASSUME Passed(call, q, pc[q], pos[q], counter[q], store[q], Q)
        PROVE  GroupStored(call, Q, DOMAIN mem')
    <3>1. GroupStored(call, Q, DOMAIN mem)  BY <2>2 DEF PassedStored
    <3> QED  BY <3>1, MemoryGrows DEF GroupStored
  <2>3. CallOK(call) /\ counter[q] \in Counts(call) /\ pc \in [QPU -> Labels]
        /\ pos \in [QPU -> Nat] /\ DOMAIN store = QPU
    BY CallFacts DEF TypeOK, ControlOK, SharedOK, RegistersOK, Dims, Counts
  <2>4. CASE q # p
    BY <2>2, <2>4, StepFrame
  <2>5. CASE q = p /\ DmaLoad(p)
    BY <2>2, <2>5 DEF DmaLoad, regs
  <2>6. CASE q = p /\ DmaStore(p)
    <3>1. pc' = pc /\ pos' = pos /\ counter' = counter  BY <2>6 DEF DmaStore, regs
    <3>2. CASE Q = Here(q)  BY <2>6, <3>2, StoreGroup
    <3>3. CASE Q # Here(q)
      BY <2>2, <3>1, <3>3 DEF Passed, Here
    <3> QED  BY <3>2, <3>3
  <2>7. CASE q = p /\ (Preamble(p) \/ SetupDim(p))
    <3>1. pc'[q] = "body" /\ SetupDim(p) /\ counter' = [counter EXCEPT ![q] = [e \in Dims |-> NumIter(q, e)]]
      <4>1. CASE Preamble(p)
        <5>1. pc'[q] = "setup"  BY <2>3, <2>7, <4>1 DEF Preamble, GoTo
        <5> QED  BY <5>1 DEF Passed, Walk
      <4>2. CASE SetupDim(p) /\ ~Outermost(p)
        <5>1. pc'[q] = "setup"  BY <2>3, <2>7, <4>2 DEF SetupDim, GoTo
        <5> QED  BY <5>1 DEF Passed, Walk
      <4>3. CASE SetupDim(p) /\ Outermost(p)
        BY <2>3, <2>7, <4>3 DEF SetupDim, GoTo
      <4> QED  BY <2>7, <4>1, <4>2, <4>3
    <3>2. counter'[q] = [e \in 0 .. call.d - 1 |-> Iters(call, q, e)]
      <4>1. \A e \in Dims : NumIter(q, e) = Iters(call, q, e)  BY PartValues
      <4>2. counter'[q] = [e \in Dims |-> NumIter(q, e)]
        BY <3>1 DEF TypeOK, RegistersOK
      <4> QED  BY <4>1, <4>2 DEF Dims
    <3>3. AtBody(call, q, counter'[q]) = FirstGroup(call, q)
      BY <3>2, StartPlace
    <3>4. Before(call, Q, FirstGroup(call, q))
      BY <3>1, <3>3 DEF Passed, PlaceOf
    <3> QED  BY <2>3, <3>4, NoneBeforeFirst
  <2>8. CASE q = p /\ (ScalarStep(p) \/ IssueLoad(p) \/ TakeTiles(p) \/ PackTiles(p))
    <3>1. /\ pc[q] \in Walk \ {"loop", "drain"} /\ pc'[q] \in Walk \ {"loop", "drain"}
          /\ counter' = counter
      BY <2>3, <2>8 DEF ScalarStep, IssueLoad, TakeTiles, PackTiles, InBody, regs,
         GoTo, Walk
    <3>2. Before(call, Q, AtBody(call, q, counter[q]))
      BY <3>1 DEF Passed, PlaceOf, Walk
    <3> QED  BY <2>2, <3>1, <3>2 DEF Passed, PlaceOf
  <2>9. CASE q = p /\ IssueStore(p)
    <3>1. pc[q] = "pack" /\ pc'[q] = "drain" /\ counter' = counter /\ store'[q] = outp[q]
      BY <2>3, <2>9 DEF IssueStore, regs, GoTo
    <3>2. store'[q] # None  BY <3>1, WordsNat DEF TypeOK, RegistersOK, None
    <3>3. Before(call, Q, AtBody(call, q, counter[q]))
      BY <3>1, <3>2 DEF Passed, PlaceOf
    <3> QED  BY <2>2, <3>1, <3>3 DEF Passed, PlaceOf, Walk
  <2>10. CASE q = p /\ Advance(p)
    <3> DEFINE B == AtBody(call, q, counter[q])
    <3>1. /\ pc[q] = "drain" /\ store[q] = None /\ pc'[q] = "loop" /\ pos'[q] = 0
          /\ counter' = counter
      BY <2>3, <2>10 DEF Advance, GoTo, VwWait
    <3>2. Before(call, Q, AtLoop(call, q, 0, counter[q]))
      BY <3>1 DEF Passed, PlaceOf
    <3>3. AtLoop(call, q, 0, counter[q]) = [B EXCEPT ![0] = B[0] + 1]
      BY <2>3, AdvancePlace
    <3>4. B \in Coords(call)
      <4>1. 0 \in Nat  OBVIOUS
      <4> QED  BY <2>3, <4>1, PlaceIsCoords
    <3> HIDE DEF B
    <3>5. Before(call, Q, [B EXCEPT ![0] = B[0] + 1])  BY <3>2, <3>3
    <3>6. Before(call, Q, B) \/ Q = B  BY <2>3, <3>4, <3>5, BeforeNext
    <3> QED  BY <2>2, <3>1, <3>6 DEF Passed, PlaceOf, Walk, B
  <2>11. CASE q = p /\ (LoopAgain(p) \/ LoopExit(p))
    <3>1. counter'[q] \in Counts(call)
      <4>1. TypeOK'  BY StepType
      <4> QED  BY <2>1, <4>1 DEF TypeOK, RegistersOK, Dims, Counts
    <3>2. pc'[q] # "drain"
      BY <2>3, <2>11 DEF LoopAgain, LoopExit, GoTo
    <3>3. \/ pc'[q] = "done"
          \/ Before(call, Q, PlaceOf(call, q, pc'[q], pos'[q], counter'[q]))
      BY <3>2 DEF Passed
    <3>4. pc[q] = "loop" /\ Before(call, Q, AtLoop(call, q, pos[q], counter[q]))
      BY <2>11, <3>1, <3>3, LoopPassed
    <3> QED  BY <2>2, <3>4 DEF Passed, PlaceOf, Walk
  <2> QED  BY <2>4, <2>5, <2>6, <2>7, <2>8, <2>9, <2>10, <2>11 DEF QpuStep
<1> QED  BY <1>1, <1>2 DEF Next

\* Every word of the output slice is in a whole group or left over, not both.
LEMMA ReachedOrLeft ==
    ASSUME NEW c \in Calls, CallOK(c), Regular(c)
    PROVE  Writable(c) = DOMAIN Reference[c] \ Leftover[c]
<1> DEFINE k == Covered(c, 0)
<1>1. \A ix \in Indices(c) : ix[0] \in Nat
  BY IndicesAre, ShapeFacts
<1>2. k \in Nat
  <2>1. 0 \in 0 .. c.d - 1  BY ShapeFacts
  <2> QED  BY <2>1, GroupsFacts
<1>3. Leftover[c] = { OutAt(c, ix) : ix \in { jx \in Indices(c) : jx[0] >= k } }
  BY DEF Leftover
<1>4. Writable(c) = { OutAt(c, ix) : ix \in { jx \in Indices(c) : jx[0] < k } }
  BY DEF Writable, Reached
<1> HIDE DEF k
<1>5. ASSUME NEW a \in Writable(c) PROVE a \in DOMAIN Reference[c] /\ a \notin Leftover[c]
  <2>1. PICK ix \in Indices(c) : ix[0] < k /\ a = OutAt(c, ix)  BY <1>4
  <2>2. ASSUME NEW jx \in Indices(c), jx[0] >= k, a = OutAt(c, jx) PROVE FALSE
    <3>1. ElementAt(c, c.out, c.ostart, ix) = ElementAt(c, c.out, c.ostart, jx)
      BY <2>1, <2>2 DEF OutAt
    <3>2. SliceOK(c, c.out, c.ostart)  BY SlicesOK
    <3>3. ix = jx  BY <2>1, <3>1, <3>2, ElementsDistinct
    <3> QED  BY <1>1, <1>2, <2>1, <2>2, <3>3
  <2>3. a \in DOMAIN Reference[c]  BY <2>1, ReferenceFacts
  <2> QED  BY <1>3, <2>2, <2>3
<1>6. ASSUME NEW a \in DOMAIN Reference[c], a \notin Leftover[c] PROVE a \in Writable(c)
  <2>1. PICK ix \in Indices(c) : a = OutAt(c, ix)  BY ReferenceFacts
  <2>2. ~(ix[0] >= k)  BY <1>3, <1>6, <2>1
  <2>3. ix[0] < k  BY <1>1, <1>2, <2>2
  <2> QED  BY <1>4, <2>1, <2>3
<1> QED  BY <1>5, <1>6

\* When every QPU has reached thrend the words missing are those after the last
\* whole group of their row, and no others: the parts cover the slice, and no QPU's
\* loops leave out a group of its part.
THEOREM NothingLeftOut ==
    ASSUME \A c \in Calls : Regular(c)
    PROVE  Spec => []CompleteAtEnd
<1> DEFINE EInv == MapInv /\ PassedStored
<1>1. Init => EInv
  <2> SUFFICES ASSUME Init PROVE EInv  OBVIOUS
  <2>1. MapInv  BY InitMap
  <2>2. PassedStored  BY DEF Init, PassedStored, Passed, Walk
  <2> QED  BY <2>1, <2>2
<1>2. EInv /\ [Next]_vars => EInv'
  <2> SUFFICES ASSUME EInv, [Next]_vars PROVE EInv'  OBVIOUS
  <2>1. PlaceInv /\ Regular(call)  BY DEF MapInv, PlaceInv, IInv, TypeOK
  <2>2. MapInv'  BY StepMap
  <2>3. PassedStored'  BY <2>1, StepPassed
  <2> QED  BY <2>2, <2>3
<1>3. EInv => CompleteAtEnd
  <2> SUFFICES ASSUME EInv, AllDone
               PROVE  DOMAIN mem = DOMAIN Reference[call] \ Leftover[call]
    BY DEF CompleteAtEnd
  <2>1. call \in Calls /\ CallOK(call) /\ Regular(call)
    BY CallFacts DEF MapInv, PlaceInv, IInv, TypeOK
  <2>2. DOMAIN mem \subseteq Writable(call)  BY DEF MapInv, MemoryOK
  <2>3. ASSUME NEW a \in Writable(call) PROVE a \in DOMAIN mem
    <3>1. PICK ix \in Reached(call) : a = OutAt(call, ix)  BY DEF Writable
    <3>2. PICK q \in QPU : \E Q \in Coords(call) : \E m \in 0 .. GROUP - 1 :
                             InShare(call, q, Q) /\ ix = Lane(call, Q, m)
      BY <2>1, GroupOfIndex
    <3>3. PICK Q \in Coords(call), m \in 0 .. GROUP - 1 :
                 InShare(call, q, Q) /\ ix = Lane(call, Q, m)
      BY <3>2
    <3>4. Passed(call, q, pc[q], pos[q], counter[q], store[q], Q)
      BY DEF AllDone, Passed
    <3>5. GroupStored(call, Q, DOMAIN mem)  BY <3>3, <3>4 DEF PassedStored
    <3> QED  BY <3>1, <3>3, <3>5 DEF GroupStored
  <2>4. Writable(call) = DOMAIN Reference[call] \ Leftover[call]
    BY <2>1, ReachedOrLeft
  <2> QED  BY <2>2, <2>3, <2>4
<1> QED  BY <1>1, <1>2, <1>3, PTL DEF Spec

=============================================================================

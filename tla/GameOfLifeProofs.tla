-------------------------- MODULE GameOfLifeProofs --------------------------
(***************************************************************************)
(* Theorems about GameOfLife, for a board of any size, any initial states, *)
(* any bytes left in the tty and a tty of any size.                        *)
(*                                                                         *)
(* The argument follows the frames on their way: as long as the laptop has *)
(* met READY and nothing is dropped, what it holds of a frame, what waits  *)
(* in the tty and what the Pi has still to send are whole frames one after *)
(* the other, the first of them the generation after the one shown, the    *)
(* last the Pi's own (Stream).                                             *)
(***************************************************************************)
EXTENDS GameOfLife, SequenceTheorems, FiniteSetTheorems, TLAPS

-----------------------------------------------------------------------------
(* Sizes, packing and the neighbourhood.                                   *)

Grid == [Cells -> {0, 1}]

LEMMA Division ==
    ASSUME NEW n \in Int, NEW m \in Nat \ {0}
    PROVE  \E q \in Int, r \in 0 .. m - 1 : q = n \div m /\ r = n % m /\ n = m * q + r
<1> DEFINE q == n \div m
           r == n % m
<1>1. q \in Int /\ r \in 0 .. m - 1 /\ n = m * q + r
  OBVIOUS
<1> HIDE DEF q, r
<1>2. \E x \in Int, y \in 0 .. m - 1 : x = q /\ y = r /\ n = m * x + y
  BY <1>1
<1> QED  BY <1>2 DEF q, r

LEMMA Sizes ==
    /\ Total \in Nat \ {0} /\ PackedBytes \in Nat \ {0}
    /\ \A i \in Cells : \E k \in 1 .. PackedBytes, r \in 0 .. Bits - 1 :
         k = i \div Bits + 1 /\ r = i % Bits /\ (k - 1) * Bits + r = i
<1>1. Rows \in Nat \ {0} /\ Cols \in Nat \ {0} /\ Bits \in Nat \ {0}
  BY DemoAssumption
<1>2. Total \in Nat \ {0}
  <2>1. Rows * Cols \in Nat  BY <1>1
  <2>2. PICK k \in Nat : Rows = k + 1  BY <1>1, SMT
  <2>3. Rows * Cols = k * Cols + Cols /\ k * Cols \in Nat  BY <1>1, <2>2
  <2> QED  BY <1>1, <2>1, <2>3 DEF Total
<1>3. PackedBytes \in Int /\ Bits * PackedBytes >= Total /\ Bits * PackedBytes \in Int
  <2> DEFINE n == Total + Bits - 1
  <2>1. n \in Nat  BY <1>1, <1>2
  <2> HIDE DEF n
  <2>2. PICK q \in Int, r \in 0 .. Bits - 1 : q = n \div Bits /\ n = Bits * q + r
    BY <1>1, <2>1, Division
  <2>3. Bits * q \in Int  BY <1>1
  <2>4. Bits * q >= Total  BY <1>1, <1>2, <2>2, <2>3 DEF n
  <2>5. PackedBytes = q  BY <2>2 DEF PackedBytes, n
  <2> QED  BY <2>3, <2>4, <2>5
<1>4. PackedBytes > 0
  <2> SUFFICES ASSUME PackedBytes <= 0 PROVE FALSE  BY <1>3
  <2>1. Bits * PackedBytes <= 0  BY <1>1, <1>3
  <2> QED  BY <1>2, <1>3, <2>1
<1>5. ASSUME NEW i \in Cells
      PROVE  \E k \in 1 .. PackedBytes, r \in 0 .. Bits - 1 :
               k = i \div Bits + 1 /\ r = i % Bits /\ (k - 1) * Bits + r = i
  <2>1. i \in Nat /\ i < Total  BY <1>2 DEF Cells
  <2>2. PICK q \in Int, r \in 0 .. Bits - 1 : q = i \div Bits /\ r = i % Bits /\ i = Bits * q + r
    BY <1>1, <2>1, Division
  <2>3. Bits * q \in Int  BY <1>1
  <2>4. q >= 0
    <3> SUFFICES ASSUME q <= -1 PROVE FALSE  OBVIOUS
    <3>1. Bits * q <= -Bits  BY <1>1
    <3> QED  BY <1>1, <2>1, <2>2, <2>3, <3>1
  <2>5. q < PackedBytes
    <3> SUFFICES ASSUME q >= PackedBytes PROVE FALSE  BY <1>3
    <3>1. Bits * q >= Bits * PackedBytes  BY <1>1, <1>3
    <3> QED  BY <1>2, <1>3, <2>1, <2>2, <2>3, <3>1
  <2>6. ((q + 1) - 1) * Bits + r = i  BY <1>1, <2>2
  <2>7. q + 1 \in 1 .. PackedBytes /\ q + 1 = i \div Bits + 1  BY <1>3, <2>2, <2>4, <2>5
  <2> QED  BY <2>2, <2>6, <2>7
<1> QED  BY <1>2, <1>3, <1>4, <1>5

\* A packed board is a frame, and unpacking it gives the board back.
LEMMA PackFacts ==
    ASSUME NEW g \in Grid
    PROVE  Pack(g) \in Seq(Byte) /\ Len(Pack(g)) = PackedBytes /\ Unpack(Pack(g)) = g
<1>1. PackedBytes \in Nat /\ Bits \in Nat \ {0} /\ Total \in Nat  BY Sizes, DemoAssumption
<1>2. ASSUME NEW k \in 1 .. PackedBytes PROVE Pack(g)[k] \in Byte
  <2>1. ASSUME NEW bit \in 0 .. Bits - 1
        PROVE  (IF (k - 1) * Bits + bit < Total THEN g[(k - 1) * Bits + bit] ELSE 0) \in {0, 1}
    <3>1. (k - 1) * Bits \in Nat  BY <1>1
    <3>2. CASE (k - 1) * Bits + bit < Total
      <4>1. (k - 1) * Bits + bit \in Cells  BY <1>1, <3>1, <3>2 DEF Cells
      <4> QED  BY <3>2, <4>1 DEF Grid
    <3> QED  BY <3>2
  <2> QED  BY <2>1 DEF Pack, Byte
<1>3. Pack(g) \in [1 .. PackedBytes -> Byte]  BY <1>2 DEF Pack
<1>4. Pack(g) \in Seq(Byte) /\ Len(Pack(g)) = PackedBytes
  BY <1>1, <1>3
<1>5. ASSUME NEW i \in Cells PROVE Pack(g)[i \div Bits + 1][i % Bits] = g[i]
  <2>1. PICK k \in 1 .. PackedBytes, bit \in 0 .. Bits - 1 :
           k = i \div Bits + 1 /\ bit = i % Bits /\ (k - 1) * Bits + bit = i
    BY Sizes
  <2>2. Pack(g)[k][bit] = IF i < Total THEN g[i] ELSE 0  BY <2>1 DEF Pack
  <2>3. i < Total  BY <1>1 DEF Cells
  <2> QED  BY <2>1, <2>2, <2>3
<1>6. Unpack(Pack(g)) = [i \in Cells |-> g[i]]  BY <1>5 DEF Unpack
<1>7. g = [i \in Cells |-> g[i]]  BY DEF Grid
<1> QED  BY <1>4, <1>6, <1>7

LEMMA UnpackType ==
    ASSUME NEW p \in Seq(Byte), Len(p) = PackedBytes
    PROVE  Unpack(p) \in Grid
<1>1. ASSUME NEW i \in Cells PROVE p[i \div Bits + 1][i % Bits] \in {0, 1}
  <2>1. PICK k \in 1 .. PackedBytes, r \in 0 .. Bits - 1 : k = i \div Bits + 1 /\ r = i % Bits
    BY Sizes
  <2>2. p[k] \in Byte  BY ElementOfSeq
  <2> QED  BY <2>1, <2>2 DEF Byte
<1> QED  BY <1>1 DEF Unpack, Grid

\* A cell is in one row and one column.
LEMMA RowColumn ==
    ASSUME NEW r \in Int, NEW s \in Int, NEW c \in 0 .. Cols - 1, NEW d \in 0 .. Cols - 1,
           r * Cols + c = s * Cols + d
    PROVE  r = s /\ c = d
<1>1. Cols \in Nat \ {0}  BY DemoAssumption
<1>2. ASSUME NEW u \in Int, NEW v \in Int, NEW a \in 0 .. Cols - 1, NEW b \in 0 .. Cols - 1,
             u * Cols + a = v * Cols + b, u < v
      PROVE  FALSE
  <2>1. v * Cols - u * Cols = (v - u) * Cols  BY <1>1
  <2>2. (v - u) * Cols >= Cols  BY <1>1, <1>2
  <2>3. u * Cols \in Int /\ v * Cols \in Int /\ (v - u) * Cols \in Int  BY <1>1
  <2> QED  BY <1>1, <1>2, <2>1, <2>2, <2>3
<1>3. r = s  BY <1>2
<1>4. r * Cols \in Int  BY <1>1
<1> QED  BY <1>1, <1>3, <1>4

LEMMA CellOf ==
    ASSUME NEW r \in 0 .. Rows - 1, NEW c \in 0 .. Cols - 1
    PROVE  r * Cols + c \in Cells
<1>1. Rows \in Nat \ {0} /\ Cols \in Nat \ {0}  BY DemoAssumption
<1>2. PICK k \in Nat : Rows = r + 1 + k  BY <1>1, SMT
<1>3. Rows * Cols = r * Cols + Cols + k * Cols /\ k * Cols \in Nat /\ r * Cols \in Nat
  BY <1>1, <1>2
<1> QED  BY <1>1, <1>3 DEF Cells, Total

\* The neighbours of an inner cell, as offsets in the buffer, are cells.
LEMMA AroundCells ==
    ASSUME NEW r \in 1 .. Rows - 2, NEW c \in 1 .. Cols - 2
    PROVE  LET i == r * Cols + c
           IN  /\ i \in Cells
               /\ i - Cols - 1 = (r - 1) * Cols + (c - 1) /\ i - Cols - 1 \in Cells
               /\ i - Cols = (r - 1) * Cols + c /\ i - Cols \in Cells
               /\ i - Cols + 1 = (r - 1) * Cols + (c + 1) /\ i - Cols + 1 \in Cells
               /\ i - 1 = r * Cols + (c - 1) /\ i - 1 \in Cells
               /\ i + 1 = r * Cols + (c + 1) /\ i + 1 \in Cells
               /\ i + Cols - 1 = (r + 1) * Cols + (c - 1) /\ i + Cols - 1 \in Cells
               /\ i + Cols = (r + 1) * Cols + c /\ i + Cols \in Cells
               /\ i + Cols + 1 = (r + 1) * Cols + (c + 1) /\ i + Cols + 1 \in Cells
<1> DEFINE i == r * Cols + c
<1>1. Rows \in Nat \ {0} /\ Cols \in Nat \ {0}  BY DemoAssumption
<1>2. /\ (r - 1) * Cols = r * Cols - Cols /\ (r + 1) * Cols = r * Cols + Cols
      /\ r * Cols \in Int
  BY <1>1
<1>3. /\ r - 1 \in 0 .. Rows - 1 /\ r \in 0 .. Rows - 1 /\ r + 1 \in 0 .. Rows - 1
      /\ c - 1 \in 0 .. Cols - 1 /\ c \in 0 .. Cols - 1 /\ c + 1 \in 0 .. Cols - 1
  BY <1>1
<1>4. i \in Cells /\ r * Cols + (c - 1) \in Cells /\ r * Cols + (c + 1) \in Cells
  BY <1>3, CellOf
<1>5. (r - 1) * Cols + (c - 1) \in Cells /\ (r - 1) * Cols + c \in Cells
        /\ (r - 1) * Cols + (c + 1) \in Cells
  BY <1>3, CellOf
<1>6. (r + 1) * Cols + (c - 1) \in Cells /\ (r + 1) * Cols + c \in Cells
        /\ (r + 1) * Cols + (c + 1) \in Cells
  BY <1>3, CellOf
<1>7. /\ i - Cols - 1 = (r - 1) * Cols + (c - 1)
      /\ i - Cols = (r - 1) * Cols + c
      /\ i - Cols + 1 = (r - 1) * Cols + (c + 1)
      /\ i - 1 = r * Cols + (c - 1)
      /\ i + 1 = r * Cols + (c + 1)
      /\ i + Cols - 1 = (r + 1) * Cols + (c - 1)
      /\ i + Cols = (r + 1) * Cols + c
      /\ i + Cols + 1 = (r + 1) * Cols + (c + 1)
  BY <1>1, <1>2
<1> HIDE DEF i
<1>8. /\ i \in Cells
      /\ i - Cols - 1 \in Cells /\ i - Cols \in Cells /\ i - Cols + 1 \in Cells
      /\ i - 1 \in Cells /\ i + 1 \in Cells
      /\ i + Cols - 1 \in Cells /\ i + Cols \in Cells /\ i + Cols + 1 \in Cells
  BY ONLY <1>4, <1>5, <1>6, <1>7
<1> QED  BY ONLY <1>7, <1>8 DEF i

LEMMA AroundType ==
    ASSUME NEW a \in Grid, NEW i \in InnerCells
    PROVE  Around(a, i) \in 0 .. 8
<1>1. PICK r \in 1 .. Rows - 2, c \in 1 .. Cols - 2 : i = r * Cols + c
  BY DEF InnerCells
<1>2. /\ i - Cols - 1 \in Cells /\ i - Cols \in Cells /\ i - Cols + 1 \in Cells
      /\ i - 1 \in Cells /\ i + 1 \in Cells
      /\ i + Cols - 1 \in Cells /\ i + Cols \in Cells /\ i + Cols + 1 \in Cells
  BY <1>1, AroundCells
<1>3. \A j \in Cells : a[j] \in {0, 1}  BY DEF Grid
<1>4. \A x1, x2, x3, x4, x5, x6, x7, x8 \in {0, 1} :
         x1 + x2 + x3 + x4 + x5 + x6 + x7 + x8 \in 0 .. 8
  OBVIOUS
<1> QED  BY <1>2, <1>3, <1>4 DEF Around

-----------------------------------------------------------------------------
(* The kernel and the rule compute a generation of Life.                   *)

\* What Kernel and Rule make of a board.
NextGrid(a) ==
    [i \in Cells |->
        IF i \notin InnerCells THEN a[i]
        ELSE IF Around(a, i) = 3 \/ (Around(a, i) = 2 /\ a[i] = 1) THEN 1 ELSE 0]

LEMMA NextGridType == \A a \in Grid : NextGrid(a) \in Grid
  BY DEF NextGrid, Grid

\* S, of whose members k are in A, and which k are.
Counted(S, A, k) == IsFiniteSet(S) /\ k \in Nat /\ Cardinality(S \cap A) = k

\* T is S and a new element.
Adds(S, x, T) == T = S \cup {x} /\ x \notin S

\* One more element to count the members of A among.
LEMMA CountOne ==
    ASSUME NEW S, NEW x, NEW T, Adds(S, x, T), NEW A, NEW k, Counted(S, A, k)
    PROVE  Counted(T, A, k + (IF x \in A THEN 1 ELSE 0))
<1>1. IsFiniteSet(T) /\ IsFiniteSet(S \cap A)
  BY FS_AddElement, FS_Intersection DEF Adds, Counted
<1>2. CASE x \in A
  <2>1. T \cap A = (S \cap A) \cup {x}  BY <1>2 DEF Adds
  <2>2. x \notin S \cap A  BY DEF Adds
  <2>3. Cardinality((S \cap A) \cup {x}) = Cardinality(S \cap A) + 1
    BY <1>1, <2>2, FS_AddElement
  <2>4. k \in Nat /\ Cardinality(T \cap A) = k + 1  BY <2>1, <2>3 DEF Counted
  <2> QED  BY <1>1, <1>2, <2>4 DEF Counted
<1>3. CASE x \notin A
  <2>1. T \cap A = S \cap A  BY <1>3 DEF Adds
  <2> QED  BY <1>1, <1>3, <2>1 DEF Counted
<1> QED  BY <1>2, <1>3

\* The living among the eight neighbours are as many as their cells add up to.
LEMMA CountIsSum ==
    ASSUME NEW b \in Grid, NEW r \in 1 .. Rows - 2, NEW c \in 1 .. Cols - 2
    PROVE  Shown!Count(b, r, c) = Around(b, r * Cols + c)
<1> DEFINE i == r * Cols + c
           N == Shown!Neighbours(r, c)
           A == {n \in N : Shown!Alive(b, n[1], n[2])}
           n1 == <<r - 1, c - 1>>   n2 == <<r - 1, c>>   n3 == <<r - 1, c + 1>>
           n4 == <<r, c - 1>>       n5 == <<r, c + 1>>
           n6 == <<r + 1, c - 1>>   n7 == <<r + 1, c>>   n8 == <<r + 1, c + 1>>
<1>1. N = {n1, n2, n3, n4, n5, n6, n7, n8}
  BY DEF Shown!Neighbours
<1>2. /\ n2 \notin {n1} /\ n3 \notin {n1, n2} /\ n4 \notin {n1, n2, n3}
      /\ n5 \notin {n1, n2, n3, n4} /\ n6 \notin {n1, n2, n3, n4, n5}
      /\ n7 \notin {n1, n2, n3, n4, n5, n6} /\ n8 \notin {n1, n2, n3, n4, n5, n6, n7}
  OBVIOUS
<1>3. \A n \in N : n \in A <=> b[n[1] * Cols + n[2]] = 1
  BY DEF Shown!Alive, Shown!Cell
<1>4. /\ n1[1] = r - 1 /\ n1[2] = c - 1 /\ n2[1] = r - 1 /\ n2[2] = c
      /\ n3[1] = r - 1 /\ n3[2] = c + 1 /\ n4[1] = r /\ n4[2] = c - 1
      /\ n5[1] = r /\ n5[2] = c + 1 /\ n6[1] = r + 1 /\ n6[2] = c - 1
      /\ n7[1] = r + 1 /\ n7[2] = c /\ n8[1] = r + 1 /\ n8[2] = c + 1
  OBVIOUS
<1>5. Shown!Count(b, r, c) = Cardinality(N \cap A)
  <2>1. N \cap A = A  OBVIOUS
  <2>2. Shown!Cardinality(A) = Cardinality(A)  BY DEF Shown!Cardinality, Cardinality
  <2> QED  BY <2>1, <2>2 DEF Shown!Count
<1> HIDE DEF N, A, n1, n2, n3, n4, n5, n6, n7, n8
<1>6. \A n \in N : n \in A <=> b[n[1] * Cols + n[2]] = 1  BY <1>3
<1> DEFINE v(n) == IF n \in A THEN 1 ELSE 0
           T0 == {}
           T1 == {n1}
           T2 == {n1, n2}
           T3 == {n1, n2, n3}
           T4 == {n1, n2, n3, n4}
           T5 == {n1, n2, n3, n4, n5}
           T6 == {n1, n2, n3, n4, n5, n6}
           T7 == {n1, n2, n3, n4, n5, n6, n7}
           T8 == {n1, n2, n3, n4, n5, n6, n7, n8}
           k0 == 0
           k1 == k0 + v(n1)
           k2 == k1 + v(n2)
           k3 == k2 + v(n3)
           k4 == k3 + v(n4)
           k5 == k4 + v(n5)
           k6 == k5 + v(n6)
           k7 == k6 + v(n7)
           k8 == k7 + v(n8)
<1>7. Counted(T0, A, k0)
  <2>1. {} \cap A = {}  OBVIOUS
  <2> QED  BY <2>1, FS_EmptySet DEF Counted
<1>21. /\ Adds(T0, n1, T1)
       /\ Adds(T1, n2, T2)
       /\ Adds(T2, n3, T3)
       /\ Adds(T3, n4, T4)
       /\ Adds(T4, n5, T5)
       /\ Adds(T5, n6, T6)
       /\ Adds(T6, n7, T7)
       /\ Adds(T7, n8, T8)
  BY <1>2 DEF Adds
<1>23. Shown!Count(b, r, c) = Cardinality(T8 \cap A)
  BY <1>1, <1>5
<1> HIDE DEF T0, T1, T2, T3, T4, T5, T6, T7, T8, k0, k1, k2, k3, k4, k5, k6, k7, k8
<1>8. Counted(T1, A, k1)
  <2>1. Counted(T1, A, k0 + (IF n1 \in A THEN 1 ELSE 0))
    BY <1>7, <1>21, CountOne
  <2> QED  BY ONLY <2>1 DEF k1, v
<1>9. Counted(T2, A, k2)
  <2>1. Counted(T2, A, k1 + (IF n2 \in A THEN 1 ELSE 0))
    BY <1>8, <1>21, CountOne
  <2> QED  BY ONLY <2>1 DEF k2, v
<1>10. Counted(T3, A, k3)
  <2>1. Counted(T3, A, k2 + (IF n3 \in A THEN 1 ELSE 0))
    BY <1>9, <1>21, CountOne
  <2> QED  BY ONLY <2>1 DEF k3, v
<1>11. Counted(T4, A, k4)
  <2>1. Counted(T4, A, k3 + (IF n4 \in A THEN 1 ELSE 0))
    BY <1>10, <1>21, CountOne
  <2> QED  BY ONLY <2>1 DEF k4, v
<1>12. Counted(T5, A, k5)
  <2>1. Counted(T5, A, k4 + (IF n5 \in A THEN 1 ELSE 0))
    BY <1>11, <1>21, CountOne
  <2> QED  BY ONLY <2>1 DEF k5, v
<1>13. Counted(T6, A, k6)
  <2>1. Counted(T6, A, k5 + (IF n6 \in A THEN 1 ELSE 0))
    BY <1>12, <1>21, CountOne
  <2> QED  BY ONLY <2>1 DEF k6, v
<1>14. Counted(T7, A, k7)
  <2>1. Counted(T7, A, k6 + (IF n7 \in A THEN 1 ELSE 0))
    BY <1>13, <1>21, CountOne
  <2> QED  BY ONLY <2>1 DEF k7, v
<1>15. Counted(T8, A, k8)
  <2>1. Counted(T8, A, k7 + (IF n8 \in A THEN 1 ELSE 0))
    BY <1>14, <1>21, CountOne
  <2> QED  BY ONLY <2>1 DEF k8, v
<1>16. \A j \in Cells : b[j] \in {0, 1}  BY DEF Grid
<1>17. /\ (r - 1) * Cols + (c - 1) = i - Cols - 1 /\ i - Cols - 1 \in Cells
       /\ (r - 1) * Cols + c = i - Cols /\ i - Cols \in Cells
       /\ (r - 1) * Cols + (c + 1) = i - Cols + 1 /\ i - Cols + 1 \in Cells
       /\ r * Cols + (c - 1) = i - 1 /\ i - 1 \in Cells
       /\ r * Cols + (c + 1) = i + 1 /\ i + 1 \in Cells
       /\ (r + 1) * Cols + (c - 1) = i + Cols - 1 /\ i + Cols - 1 \in Cells
       /\ (r + 1) * Cols + c = i + Cols /\ i + Cols \in Cells
       /\ (r + 1) * Cols + (c + 1) = i + Cols + 1 /\ i + Cols + 1 \in Cells
  BY AroundCells
<1> HIDE DEF i
<1>18. n1 \in N /\ n2 \in N /\ n3 \in N /\ n4 \in N /\ n5 \in N /\ n6 \in N /\ n7 \in N /\ n8 \in N
  BY <1>1
<1>19. /\ v(n1) = b[i - Cols - 1] /\ v(n2) = b[i - Cols] /\ v(n3) = b[i - Cols + 1]
       /\ v(n4) = b[i - 1] /\ v(n5) = b[i + 1]
       /\ v(n6) = b[i + Cols - 1] /\ v(n7) = b[i + Cols] /\ v(n8) = b[i + Cols + 1]
  BY ONLY <1>4, <1>6, <1>16, <1>17, <1>18 DEF v
<1>20. Shown!Count(b, r, c) = b[i - Cols - 1] + b[i - Cols] + b[i - Cols + 1]
         + b[i - 1] + b[i + 1] + b[i + Cols - 1] + b[i + Cols] + b[i + Cols + 1]
  BY ONLY <1>15, <1>19, <1>23 DEF Counted, k0, k1, k2, k3, k4, k5, k6, k7, k8
<1> QED  BY <1>20 DEF Around, i

LEMMA NextIsGeneration ==
    ASSUME NEW g \in Grid, NEW r \in Shown!Row, NEW c \in Shown!Col
    PROVE  Shown!Alive(NextGrid(g), r, c) <=> Shown!Survives(g, r, c)
<1> DEFINE i == r * Cols + c
<1>1. Rows \in Nat \ {0} /\ Cols \in Nat \ {0}  BY DemoAssumption
<1>2. r \in 0 .. Rows - 1 /\ c \in 0 .. Cols - 1  BY DEF Shown!Row, Shown!Col
<1>3. i \in Cells  BY <1>2, CellOf
<1>4. CASE Shown!Inner(r, c)
  <2>1. r \in 1 .. Rows - 2 /\ c \in 1 .. Cols - 2
    BY <1>1, <1>2, <1>4 DEF Shown!Inner, Shown!Row, Shown!Col
  <2>2. i \in InnerCells  BY <2>1 DEF InnerCells
  <2>3. Shown!Count(g, r, c) = Around(g, i)  BY <2>1, CountIsSum
  <2>4. NextGrid(g)[i] = IF Around(g, i) = 3 \/ (Around(g, i) = 2 /\ g[i] = 1) THEN 1 ELSE 0
    BY <1>3, <2>2 DEF NextGrid
  <2> HIDE DEF i
  <2>5. NextGrid(g)[i] = 1 <=> (Shown!Count(g, r, c) = 3 \/ (Shown!Count(g, r, c) = 2 /\ g[i] = 1))
    BY ONLY <2>3, <2>4
  <2> QED  BY <1>4, <2>5 DEF Shown!Survives, Shown!Alive, Shown!Cell, i
<1>5. CASE ~Shown!Inner(r, c)
  <2>1. i \notin InnerCells
    <3> SUFFICES ASSUME i \in InnerCells PROVE FALSE  OBVIOUS
    <3>1. PICK s \in 1 .. Rows - 2, d \in 1 .. Cols - 2 : i = s * Cols + d
      BY DEF InnerCells
    <3>2. r = s /\ c = d  BY <1>1, <1>2, <3>1, RowColumn
    <3> QED  BY <1>1, <1>2, <1>5, <3>2 DEF Shown!Inner, Shown!Row, Shown!Col
  <2>2. NextGrid(g)[i] = g[i]  BY <1>3, <2>1 DEF NextGrid
  <2> QED  BY <1>5, <2>2 DEF Shown!Survives, Shown!Alive, Shown!Cell
<1> QED  BY <1>4, <1>5

-----------------------------------------------------------------------------
(* The type invariant, and what it needs of where the two programs are.    *)

\* Buffers are filled and emptied where the programs do so.
BuffersOK ==
    /\ pi.pc = "send" => pi.packed # << >>
    /\ pi.pc = "rule" => pi.gen < MaxGen
    /\ pi.pc = "fill" => Len(pi.packed) < PackedBytes
    /\ pi.pc \in {"init", "kernel", "rule"} => pi.packed = << >>
    /\ host.pc # "frames" => toPi = << >> /\ host.packed = << >>

HostRecord == [pc : {"boot", "ready", "frames"}, grid : Grid, packed : Seq(Byte), shown : Nat]
PiRecord == [pc : {"init", "fill", "kernel", "rule", "send"}, a : Grid,
             b : [Cells -> 0 .. 8], packed : Seq(Byte), gen : 0 .. MaxGen]

LEMMA TypeSplit ==
    TypeOK <=> /\ host \in HostRecord /\ Len(host.packed) <= PackedBytes
               /\ pi \in PiRecord /\ Len(pi.packed) <= PackedBytes
               /\ toPi \in Seq(Byte) /\ Len(toPi) <= PackedBytes
               /\ tty \in Seq(Byte) /\ lost \in Nat /\ greeted \in BOOLEAN
  BY DEF TypeOK, HostRecord, PiRecord, Grid

LEMMA InitType == Init => TypeOK /\ BuffersOK
<1> SUFFICES ASSUME Init PROVE TypeOK /\ BuffersOK  OBVIOUS
<1>1. << >> \in Seq(Byte) /\ Len(<< >>) = 0  BY EmptySeq
<1>2. PackedBytes \in Nat /\ MaxGen \in Nat  BY Sizes, DemoAssumption
<1>3. [i \in Cells |-> 0] \in [Cells -> {0, 1}] /\ [i \in Cells |-> 0] \in [Cells -> 0 .. 8]
  OBVIOUS
<1>4. tty \in Seq(Byte)  BY DemoAssumption DEF Init, Byte
<1>5. PICK g \in Grids : host = [pc |-> "boot", grid |-> g, packed |-> << >>, shown |-> 0]
  BY DEF Init
<1>6. g \in [Cells -> {0, 1}]  BY DemoAssumption
<1>7. greeted \in BOOLEAN  BY DEF Init
<1> QED  BY <1>1, <1>2, <1>3, <1>4, <1>5, <1>6, <1>7 DEF Init, TypeOK, BuffersOK

LEMMA StepType == TypeOK /\ BuffersOK /\ [Next]_vars => (TypeOK /\ BuffersOK)'
<1> SUFFICES ASSUME TypeOK, BuffersOK, [Next]_vars PROVE (TypeOK /\ BuffersOK)'
  OBVIOUS
<1>1. PackedBytes \in Nat \ {0} /\ MaxGen \in Nat  BY Sizes, DemoAssumption
<1>2. << >> \in Seq(Byte) /\ Len(<< >>) = 0  BY EmptySeq
<1>3. host.grid \in Grid /\ pi.a \in Grid  BY DEF TypeOK, Grid
<1>4. CASE SetRate
  BY <1>4 DEF SetRate, TypeOK, BuffersOK
<1>5. CASE AwaitReady
  <2>1. Tail(tty) \in Seq(Byte)  BY <1>5 DEF AwaitReady, TypeOK
  <2>2. CASE tty[1] = READY
    <3>1. Pack(host.grid) \in Seq(Byte) /\ Len(Pack(host.grid)) = PackedBytes  BY <1>3, PackFacts
    <3>2. toPi = << >>  BY <1>5 DEF AwaitReady, BuffersOK
    <3>3. toPi' = Pack(host.grid)  BY <1>5, <2>2, <3>1, <3>2 DEF AwaitReady
    <3>4. host' = [host EXCEPT !.pc = "frames"] /\ tty' = Tail(tty) /\ UNCHANGED <<pi, lost, greeted>>
      BY <1>5, <2>2 DEF AwaitReady
    <3>5. host' \in HostRecord /\ host'.pc = "frames" /\ host'.packed = host.packed
      BY <3>4, TypeSplit DEF HostRecord
    <3>6. TypeOK'
      <4>1. Len(host'.packed) <= PackedBytes /\ pi' \in PiRecord /\ Len(pi'.packed) <= PackedBytes
            /\ lost' \in Nat /\ greeted' \in BOOLEAN
        BY <3>4, <3>5, TypeSplit
      <4>2. toPi' \in Seq(Byte) /\ Len(toPi') <= PackedBytes /\ tty' \in Seq(Byte)
        BY <1>1, <2>1, <3>1, <3>3, <3>4
      <4> QED  BY ONLY <3>5, <4>1, <4>2 DEF TypeOK, HostRecord, PiRecord, Grid
    <3>7. BuffersOK'  BY <3>4, <3>5 DEF BuffersOK
    <3> QED  BY <3>6, <3>7
  <2>3. CASE tty[1] # READY
    BY <1>5, <2>1, <2>3 DEF AwaitReady, TypeOK, BuffersOK
  <2> QED  BY <2>2, <2>3
<1>6. CASE Read
  <2>1. PICK n \in 1 .. Len(tty) :
           /\ Len(host.packed) + n <= PackedBytes
           /\ host' = [host EXCEPT !.packed = @ \o SubSeq(tty, 1, n)]
           /\ tty' = SubSeq(tty, n + 1, Len(tty))
    BY <1>6 DEF Read
  <2>2. Len(tty) \in Nat /\ \A i \in 1 .. Len(tty) : tty[i] \in Byte
    BY LenProperties, ElementOfSeq DEF TypeOK
  <2>3. SubSeq(tty, 1, n) \in Seq(Byte) /\ Len(SubSeq(tty, 1, n)) = n
    BY <2>2, SubSeqProperties
  <2>4. SubSeq(tty, n + 1, Len(tty)) \in Seq(Byte)
    BY <2>2, SubSeqProperties
  <2>5. /\ host.packed \o SubSeq(tty, 1, n) \in Seq(Byte)
        /\ Len(host.packed \o SubSeq(tty, 1, n)) = Len(host.packed) + n
    BY <2>3, ConcatProperties DEF TypeOK
  <2> QED  BY <1>6, <2>1, <2>4, <2>5 DEF Read, TypeOK, BuffersOK
<1>7. CASE Show
  <2>1. Unpack(host.packed) \in Grid  BY <1>7, UnpackType DEF Show, TypeOK
  <2>2. host' = [host EXCEPT !.grid = Unpack(host.packed), !.packed = << >>, !.shown = @ + 1]
        /\ host.pc = "frames" /\ UNCHANGED <<pi, toPi, tty, lost, greeted>>
    BY <1>7 DEF Show
  <2>3. host \in HostRecord /\ host.shown + 1 \in Nat  BY TypeSplit DEF HostRecord
  <2>4. host' \in HostRecord /\ host'.pc = "frames" /\ host'.packed = << >>
    <3> DEFINE u == Unpack(host.packed)
    <3> HIDE DEF u
    <3>1. u \in Grid /\ host' = [host EXCEPT !.grid = u, !.packed = << >>, !.shown = @ + 1]
      BY <2>1, <2>2 DEF u
    <3> QED  BY <1>2, <2>2, <2>3, <3>1 DEF HostRecord
  <2> QED  BY <1>1, <1>2, <2>2, <2>4 DEF TypeOK, BuffersOK, HostRecord, Grid
<1>8. CASE SendReady
  <2>1. PICK k \in 0 .. Len(toPi) : toPi' = SubSeq(toPi, k + 1, Len(toPi))
    BY <1>8 DEF SendReady
  <2>2. Len(toPi) \in Nat /\ \A i \in 1 .. Len(toPi) : toPi[i] \in Byte
    BY LenProperties, ElementOfSeq DEF TypeOK
  <2>3. toPi' \in Seq(Byte) /\ Len(toPi') <= Len(toPi) /\ (toPi = << >> => toPi' = << >>)
    <3>1. /\ SubSeq(toPi, k + 1, Len(toPi)) \in Seq(Byte)
          /\ Len(SubSeq(toPi, k + 1, Len(toPi))) =
               IF k + 1 <= Len(toPi) THEN Len(toPi) - (k + 1) + 1 ELSE 0
      BY <2>2, SubSeqProperties
    <3> QED  BY <2>1, <2>2, <3>1, EmptySeq
  <2>4. Junk \in Byte /\ READY \in Byte  BY DEF Junk, READY, Byte
  <2>5. Append(tty, IF host.pc = "boot" THEN Junk ELSE READY) \in Seq(Byte)
    BY <2>4, AppendProperties DEF TypeOK
  <2>6. greeted' \in BOOLEAN  BY <1>8 DEF SendReady, TypeOK
  <2>7. pi' = [pi EXCEPT !.pc = "fill"] /\ pi.pc = "init" /\ UNCHANGED <<host, lost>>
        /\ tty' = Append(tty, IF host.pc = "boot" THEN Junk ELSE READY)
    BY <1>8 DEF SendReady
  <2>8. pi' \in PiRecord /\ pi'.pc = "fill" /\ pi'.packed = << >>
    BY <2>7, TypeSplit DEF PiRecord, BuffersOK
  <2>9. TypeOK'
    <3>1. host' \in HostRecord /\ Len(host'.packed) <= PackedBytes
          /\ Len(pi'.packed) <= PackedBytes /\ lost' \in Nat
      BY <1>1, <1>2, <2>7, <2>8, TypeSplit
    <3>2. Len(toPi') <= PackedBytes
      <4>1. Len(toPi') \in Nat /\ Len(toPi) <= PackedBytes  BY <2>3, TypeSplit, LenProperties
      <4> QED  BY <1>1, <2>2, <2>3, <4>1
    <3>3. tty' \in Seq(Byte)  BY <2>5, <2>7
    <3> QED  BY ONLY <2>3, <2>6, <2>8, <3>1, <3>2, <3>3 DEF TypeOK, HostRecord, PiRecord, Grid
  <2>10. BuffersOK'
    BY <1>1, <1>2, <2>3, <2>7, <2>8 DEF BuffersOK
  <2> QED  BY <2>9, <2>10
<1>9. CASE Fill
  <2> DEFINE p == Append(pi.packed, toPi[1])
  <2>1. toPi[1] \in Byte /\ Tail(toPi) \in Seq(Byte) /\ Len(Tail(toPi)) = Len(toPi) - 1
    BY <1>9, HeadTailProperties, ElementOfSeq, LenProperties, EmptySeq DEF Fill, TypeOK
  <2>2. p \in Seq(Byte) /\ Len(p) = Len(pi.packed) + 1 /\ Len(pi.packed) \in Nat
    BY <2>1, AppendProperties, LenProperties DEF TypeOK
  <2>3. Len(toPi) \in Nat  BY LenProperties DEF TypeOK
  <2>4. host.pc = "frames"  BY <1>9 DEF Fill, BuffersOK
  <2> HIDE DEF p
  <2>5. CASE Len(p) < PackedBytes
    <3>1. pi' = [pi EXCEPT !.packed = p]  BY <1>9, <2>5 DEF Fill, p
    <3>2. pi' \in PiRecord /\ pi'.pc = "fill" /\ pi'.packed = p
      BY <1>9, <2>2, <3>1, TypeSplit DEF Fill, PiRecord
    <3>3. toPi' = Tail(toPi) /\ UNCHANGED <<host, tty, lost, greeted>>  BY <1>9 DEF Fill
    <3>4. TypeOK'
      <4>1. /\ host' \in HostRecord /\ Len(host'.packed) <= PackedBytes
            /\ tty' \in Seq(Byte) /\ lost' \in Nat /\ greeted' \in BOOLEAN
            /\ Len(toPi) <= PackedBytes
        BY <3>3, TypeSplit
      <4>2. Len(pi'.packed) <= PackedBytes  BY ONLY <1>1, <2>2, <2>5, <3>2
      <4>3. toPi' \in Seq(Byte) /\ Len(toPi') <= PackedBytes  BY ONLY <1>1, <2>1, <2>3, <3>3, <4>1
      <4> QED  BY ONLY <3>2, <4>1, <4>2, <4>3 DEF TypeOK, HostRecord, PiRecord, Grid
    <3>5. BuffersOK'  BY ONLY <2>4, <2>5, <3>2, <3>3 DEF BuffersOK
    <3> QED  BY <3>4, <3>5
  <2>6. CASE ~(Len(p) < PackedBytes)
    <3>1. pi' = [pi EXCEPT !.pc = "kernel", !.packed = << >>, !.a = Unpack(p)]
      BY <1>9, <2>6 DEF Fill, p
    <3>2. Len(p) = PackedBytes  BY <1>1, <1>9, <2>2, <2>6 DEF Fill, BuffersOK
    <3>3. Unpack(p) \in [Cells -> {0, 1}]  BY <2>2, <3>2, UnpackType DEF Grid
    <3>4. pi' \in PiRecord /\ pi'.pc = "kernel" /\ pi'.packed = << >>
      BY <1>2, <3>1, <3>3, TypeSplit DEF PiRecord, Grid
    <3>5. toPi' = Tail(toPi) /\ UNCHANGED <<host, tty, lost, greeted>>  BY <1>9 DEF Fill
    <3> QED  BY <1>1, <1>2, <2>1, <2>3, <2>4, <3>4, <3>5 DEF TypeOK, BuffersOK, PiRecord, Grid
  <2> QED  BY <2>5, <2>6
<1>10. CASE Kernel
  <2> DEFINE b2 == [i \in Cells |-> IF i \in InnerCells THEN Around(pi.a, i) ELSE pi.b[i]]
  <2>1. b2 \in [Cells -> 0 .. 8]  BY <1>3, AroundType DEF TypeOK
  <2>2. pi' = [pi EXCEPT !.pc = "rule", !.b = b2]  BY <1>10 DEF Kernel
  <2> HIDE DEF b2
  <2>3. pi' \in PiRecord /\ pi'.pc = "rule" /\ pi'.packed = << >> /\ pi'.gen = pi.gen
    BY <1>10, <2>1, <2>2, TypeSplit DEF Kernel, BuffersOK, PiRecord
  <2>4. UNCHANGED <<host, toPi, tty, lost, greeted>> /\ pi.gen < MaxGen  BY <1>10 DEF Kernel
  <2> QED  BY <1>1, <1>2, <2>3, <2>4 DEF TypeOK, BuffersOK, PiRecord, Grid
<1>11. CASE Rule
  <2> DEFINE a2 == [i \in Cells |-> IF i \notin InnerCells THEN pi.a[i]
                                    ELSE IF Lives(i) THEN 1 ELSE 0]
  <2>1. a2 \in Grid  BY <1>3 DEF Grid
  <2>2. pi' = [pi EXCEPT !.pc = "send", !.a = a2, !.packed = Pack(a2), !.gen = @ + 1]
    BY <1>11 DEF Rule
  <2> HIDE DEF a2
  <2>3. Pack(a2) \in Seq(Byte) /\ Len(Pack(a2)) = PackedBytes  BY <2>1, PackFacts
  <2>4. pi.gen + 1 \in 0 .. MaxGen  BY <1>1, <1>11 DEF Rule, TypeOK, BuffersOK
  <2>5. pi' \in PiRecord /\ pi'.pc = "send" /\ pi'.packed = Pack(a2)
    BY <2>1, <2>2, <2>3, <2>4, TypeSplit DEF PiRecord
  <2>6. UNCHANGED <<host, toPi, tty, lost, greeted>>  BY <1>11 DEF Rule
  <2> QED  BY <1>1, <1>2, <2>3, <2>5, <2>6 DEF TypeOK, BuffersOK, PiRecord, Grid
<1>12. CASE Send
  <2>1. /\ pi.packed \in Seq(Byte) /\ pi.packed # << >> /\ pi.packed[1] \in Byte
        /\ Tail(pi.packed) \in Seq(Byte) /\ Len(Tail(pi.packed)) = Len(pi.packed) - 1
        /\ Len(pi.packed) \in Nat
    BY <1>12, HeadTailProperties, ElementOfSeq, LenProperties, EmptySeq
       DEF Send, TypeOK, BuffersOK
  <2>2. tty' \in Seq(Byte) /\ lost' \in Nat
    <3>1. Append(tty, pi.packed[1]) \in Seq(Byte)  BY <2>1, AppendProperties DEF TypeOK
    <3>2. CASE Len(tty) < TtyBuf  BY <1>12, <3>1, <3>2 DEF Send, TypeOK
    <3>3. CASE ~(Len(tty) < TtyBuf)  BY <1>12, <3>3 DEF Send, TypeOK
    <3> QED  BY <3>2, <3>3
  <2>3. Len(pi.packed) = 1 <=> Tail(pi.packed) = << >>
    <3>1. Len(Tail(pi.packed)) = 0 <=> Tail(pi.packed) = << >>  BY <2>1, EmptySeq
    <3> QED  BY <2>1, <3>1
  <2>4. pi' = [pi EXCEPT !.packed = Tail(@), !.pc = IF Len(pi.packed) = 1 THEN "kernel" ELSE "send"]
        /\ UNCHANGED <<host, toPi, greeted>>
    BY <1>12 DEF Send
  <2>5. /\ pi' \in PiRecord /\ pi'.packed = Tail(pi.packed)
        /\ pi'.pc = IF Len(pi.packed) = 1 THEN "kernel" ELSE "send"
    BY <2>1, <2>4, TypeSplit DEF PiRecord
  <2>6. TypeOK'
    <3>1. /\ host' \in HostRecord /\ Len(host'.packed) <= PackedBytes
          /\ toPi' \in Seq(Byte) /\ Len(toPi') <= PackedBytes /\ greeted' \in BOOLEAN
          /\ Len(pi.packed) <= PackedBytes
      BY <2>4, TypeSplit
    <3>2. Len(pi'.packed) <= PackedBytes  BY ONLY <1>1, <2>1, <2>5, <3>1
    <3> QED  BY ONLY <2>2, <2>5, <3>1, <3>2 DEF TypeOK, HostRecord, PiRecord, Grid
  <2>7. BuffersOK'
    <3>1. host.pc # "frames" => toPi = << >> /\ host.packed = << >>  BY DEF BuffersOK
    <3> QED  BY ONLY <2>1, <2>3, <2>4, <2>5, <3>1 DEF BuffersOK
  <2> QED  BY <2>6, <2>7
<1>13. CASE UNCHANGED vars
  BY <1>13 DEF vars, TypeOK, BuffersOK
<1> QED  BY <1>4, <1>5, <1>6, <1>7, <1>8, <1>9, <1>10, <1>11, <1>12, <1>13
          DEF Next, HostStep, PiStep

\* The cells are cells, and no buffer ever holds more than it has room for.
THEOREM TypeCorrect == Spec => []TypeOK
<1>1. TypeOK /\ BuffersOK => TypeOK  OBVIOUS
<1> QED  BY <1>1, InitType, StepType, PTL DEF Spec

-----------------------------------------------------------------------------
(* Frames one after the other.                                             *)

\* s is the frames of f[1] to f[k], and each of f[0] to f[k] is the generation
\* after the one before.
IsStream(s, f, k) ==
    /\ k \in Nat /\ f \in [0 .. k -> Grid]
    /\ \A j \in 0 .. k - 1 : f[j + 1] = NextGrid(f[j])
    /\ s \in Seq(Byte) /\ Len(s) = k * PackedBytes
    /\ \A j \in 0 .. k - 1, m \in 1 .. PackedBytes : s[j * PackedBytes + m] = Pack(f[j + 1])[m]

\* s leads from the board g to the board a.
Leads(s, g, a) == \E k \in Nat : \E f : f[0] = g /\ f[k] = a /\ IsStream(s, f, k)

LEMMA Assoc ==
    ASSUME NEW s \in Seq(Byte), NEW t \in Seq(Byte), NEW u \in Seq(Byte)
    PROVE  (s \o t) \o u = s \o (t \o u) /\ t \o u \in Seq(Byte)
<1>1. (s \o t) \o u = s \o (t \o u)  BY ConcatAssociative
<1>2. t \o u \in Seq(Byte)  BY ConcatProperties
<1> QED  BY <1>1, <1>2

\* Moving the first byte of t to the end of s changes nothing of the two.
LEMMA MoveFirst ==
    ASSUME NEW s \in Seq(Byte), NEW t \in Seq(Byte), t # << >>
    PROVE  Append(s, t[1]) \o Tail(t) = s \o t
<1>1. /\ Len(t) \in Nat \ {0} /\ t[1] \in Byte /\ Tail(t) \in Seq(Byte)
      /\ Len(Tail(t)) = Len(t) - 1
      /\ \A i \in 1 .. Len(Tail(t)) : Tail(t)[i] = t[i + 1]
  BY HeadTailProperties, LenProperties, EmptySeq, ElementOfSeq
<1> DEFINE u == Append(s, t[1])
           x == u \o Tail(t)
           y == s \o t
<1>2. /\ u \in Seq(Byte) /\ Len(u) = Len(s) + 1 /\ Len(s) \in Nat
      /\ u[Len(s) + 1] = t[1] /\ \A i \in 1 .. Len(s) : u[i] = s[i]
  BY <1>1, AppendProperties, LenProperties
<1> HIDE DEF u
<1>3. /\ x \in Seq(Byte) /\ Len(x) = Len(u) + Len(Tail(t))
      /\ \A i \in 1 .. Len(u) + Len(Tail(t)) :
           x[i] = IF i <= Len(u) THEN u[i] ELSE Tail(t)[i - Len(u)]
  BY <1>1, <1>2, ConcatProperties
<1>4. /\ y \in Seq(Byte) /\ Len(y) = Len(s) + Len(t)
      /\ \A i \in 1 .. Len(s) + Len(t) : y[i] = IF i <= Len(s) THEN s[i] ELSE t[i - Len(s)]
  BY ConcatProperties
<1> HIDE DEF x, y
<1>5. Len(x) = Len(y)  BY <1>1, <1>2, <1>3, <1>4
<1>6. ASSUME NEW i \in 1 .. Len(x) PROVE x[i] = y[i]
  <2>0. /\ i \in 1 .. Len(u) + Len(Tail(t)) /\ i \in 1 .. Len(s) + Len(t) /\ i \in Nat
        /\ x[i] = IF i <= Len(u) THEN u[i] ELSE Tail(t)[i - Len(u)]
        /\ y[i] = IF i <= Len(s) THEN s[i] ELSE t[i - Len(s)]
    <3>1. i \in 1 .. Len(u) + Len(Tail(t)) /\ i \in 1 .. Len(s) + Len(t) /\ i \in Nat
      BY <1>3, <1>4, <1>5
    <3> QED  BY <1>3, <1>4, <3>1
  <2>1. CASE i <= Len(s)
    <3>1. i <= Len(u) /\ i \in 1 .. Len(s)  BY <1>2, <2>0, <2>1
    <3> QED  BY <1>2, <2>0, <2>1, <3>1
  <2>2. CASE i = Len(s) + 1
    <3>1. i <= Len(u) /\ ~(i <= Len(s))  BY <1>2, <2>2
    <3>2. i - Len(s) = 1  BY <1>2, <2>2
    <3>3. x[i] = u[i] /\ y[i] = t[i - Len(s)]  BY <2>0, <3>1
    <3> QED  BY <1>2, <2>2, <3>2, <3>3
  <2>3. CASE i > Len(s) + 1
    <3> DEFINE j == i - Len(u)
    <3>1. j \in 1 .. Len(Tail(t)) /\ i - Len(s) = j + 1
      BY <1>1, <1>2, <1>3, <2>3
    <3>2. ~(i <= Len(u)) /\ ~(i <= Len(s))  BY <1>2, <2>0, <2>3
    <3>3. x[i] = Tail(t)[j] /\ y[i] = t[i - Len(s)]  BY <2>0, <3>2
    <3> HIDE DEF j
    <3> QED  BY <1>1, <3>1, <3>3
  <2> QED  BY <1>2, <2>0, <2>1, <2>2, <2>3
<1>7. x = y  BY <1>3, <1>4, <1>5, <1>6, SeqEqual
<1> QED  BY <1>7 DEF x, y, u

LEMMA LeadsNowhere == \A g \in Grid : Leads(<< >>, g, g)
<1> SUFFICES ASSUME NEW g \in Grid PROVE Leads(<< >>, g, g)  OBVIOUS
<1> DEFINE f == [j \in 0 .. 0 |-> g]
<1>1. f \in [0 .. 0 -> Grid] /\ f[0] = g  OBVIOUS
<1>2. << >> \in Seq(Byte) /\ Len(<< >>) = 0  BY EmptySeq
<1>3. 0 * PackedBytes = 0  BY Sizes
<1> HIDE DEF f
<1>4. IsStream(<< >>, f, 0)  BY <1>1, <1>2, <1>3 DEF IsStream
<1> QED  BY <1>1, <1>4 DEF Leads

\* The next frame behind the others leads one generation on.
LEMMA LeadsOn ==
    ASSUME NEW s, NEW g, NEW a, Leads(s, g, a)
    PROVE  Leads(s \o Pack(NextGrid(a)), g, NextGrid(a))
<1> DEFINE P == PackedBytes
           n == NextGrid(a)
<1>0. PICK k \in Nat : \E f : f[0] = g /\ f[k] = a /\ IsStream(s, f, k)  BY DEF Leads
<1>1. PICK f : f[0] = g /\ f[k] = a /\ IsStream(s, f, k)  BY <1>0
<1>2. a \in Grid /\ n \in Grid  BY <1>1, NextGridType DEF IsStream
<1>3. Pack(n) \in Seq(Byte) /\ Len(Pack(n)) = P  BY <1>2, PackFacts
<1>4. P \in Nat \ {0}  BY Sizes
<1> DEFINE h == [j \in 0 .. k + 1 |-> IF j = k + 1 THEN n ELSE f[j]]
<1>5. h \in [0 .. k + 1 -> Grid]  BY <1>1, <1>2 DEF IsStream
<1>6. h[0] = g /\ h[k + 1] = n /\ \A j \in 0 .. k : h[j] = f[j]  BY <1>1
<1> HIDE DEF h, n, P
<1>7. ASSUME NEW j \in 0 .. (k + 1) - 1 PROVE h[j + 1] = NextGrid(h[j])
  <2>1. CASE j = k  BY <1>1, <1>6, <2>1 DEF n
  <2>2. CASE j # k  BY <1>1, <1>6, <2>2 DEF IsStream
  <2> QED  BY <2>1, <2>2
<1>8. s \in Seq(Byte) /\ Len(s) = k * P  BY <1>1 DEF IsStream, P
<1>9. /\ s \o Pack(n) \in Seq(Byte) /\ Len(s \o Pack(n)) = Len(s) + P
      /\ \A i \in 1 .. Len(s) + P : (s \o Pack(n))[i] = IF i <= Len(s) THEN s[i] ELSE Pack(n)[i - Len(s)]
  BY <1>3, <1>8, ConcatProperties
<1>10. k * P \in Nat /\ (k + 1) * P = k * P + P  BY <1>4
<1>11. ASSUME NEW j \in 0 .. (k + 1) - 1, NEW m \in 1 .. P
       PROVE  (s \o Pack(n))[j * P + m] = Pack(h[j + 1])[m]
  <2> DEFINE x == j * P + m
  <2>1. CASE j = k
    <3>1. x \in 1 .. Len(s) + P /\ ~(x <= Len(s)) /\ x - Len(s) = m
      BY <1>4, <1>8, <1>10, <2>1
    <3>2. h[j + 1] = n  BY <1>6, <2>1
    <3> HIDE DEF x
    <3>3. (s \o Pack(n))[x] = Pack(n)[x - Len(s)]  BY <1>9, <3>1
    <3>4. (s \o Pack(n))[x] = Pack(h[j + 1])[m]  BY <3>1, <3>2, <3>3
    <3> QED  BY <3>4 DEF x
  <2>2. CASE j # k
    <3>1. j \in 0 .. k - 1  BY <2>2
    <3>2. PICK d \in Nat : k = j + 1 + d  BY <3>1, SMT
    <3>3. k * P = j * P + P + d * P /\ j * P \in Nat /\ d * P \in Nat  BY <1>4, <3>2
    <3>4. x \in 1 .. Len(s) + P /\ x <= Len(s)  BY <1>4, <1>8, <3>3
    <3>5. s[x] = Pack(f[j + 1])[m]  BY <1>1, <3>1 DEF IsStream, P
    <3>6. h[j + 1] = f[j + 1]  BY <1>6, <3>1
    <3> HIDE DEF x
    <3>7. (s \o Pack(n))[x] = Pack(h[j + 1])[m]  BY <1>9, <3>4, <3>5, <3>6
    <3> QED  BY <3>7 DEF x
  <2> QED  BY <2>1, <2>2
<1>12. IsStream(s \o Pack(n), h, k + 1)
  <2>1. k + 1 \in Nat /\ Len(s \o Pack(n)) = (k + 1) * P  BY <1>8, <1>9, <1>10
  <2>2. s \o Pack(n) \in Seq(Byte)  BY <1>9
  <2> QED  BY ONLY <2>1, <2>2, <1>5, <1>7, <1>11 DEF IsStream, P
<1>13. k + 1 \in Nat  OBVIOUS
<1>14. Leads(s \o Pack(n), g, n)  BY <1>6, <1>12, <1>13 DEF Leads
<1> QED  BY <1>14 DEF n

\* The first frame is the next generation, and the rest leads on from there.
LEMMA LeadsFirst ==
    ASSUME NEW h \in Seq(Byte), NEW t \in Seq(Byte), Len(h) = PackedBytes,
           NEW g, NEW a, Leads(h \o t, g, a)
    PROVE  /\ g \in Grid /\ Unpack(h) = NextGrid(g)
           /\ Leads(t, NextGrid(g), a)
<1> DEFINE P == PackedBytes
<1>0. PICK k \in Nat : \E f : f[0] = g /\ f[k] = a /\ IsStream(h \o t, f, k)  BY DEF Leads
<1>1. PICK f : f[0] = g /\ f[k] = a /\ IsStream(h \o t, f, k)  BY <1>0
<1>2. P \in Nat \ {0}  BY Sizes
<1>3. /\ Len(h \o t) = P + Len(t) /\ Len(t) \in Nat
      /\ \A i \in 1 .. P + Len(t) : (h \o t)[i] = IF i <= P THEN h[i] ELSE t[i - P]
  BY ConcatProperties, LenProperties
<1>4. k * P = P + Len(t)  BY <1>1, <1>3 DEF IsStream
<1> HIDE DEF P
<1>5. k >= 1
  <2> SUFFICES ASSUME k = 0 PROVE FALSE  OBVIOUS
  <2>1. k * P = 0  BY <1>2
  <2> QED  BY <1>2, <1>3, <1>4, <2>1
<1>6. f \in [0 .. k -> Grid] /\ g \in Grid /\ f[1] = NextGrid(g)
  <2>1. f \in [0 .. k -> Grid]  BY <1>1 DEF IsStream
  <2>2. f[0 + 1] = NextGrid(f[0])  BY <1>1, <1>5 DEF IsStream
  <2> QED  BY <1>1, <2>1, <2>2
<1>7. f[1] \in Grid  BY <1>5, <1>6
<1>8. h = Pack(f[1])
  <2>1. ASSUME NEW m \in 1 .. P PROVE h[m] = Pack(f[1])[m]
    <3>1. 0 \in 0 .. k - 1  BY <1>5
    <3>2. (h \o t)[0 * P + m] = Pack(f[0 + 1])[m]  BY <1>1, <3>1 DEF IsStream, P
    <3>3. 0 * P + m = m /\ m \in 1 .. P + Len(t) /\ m <= P  BY <1>2, <1>3
    <3> QED  BY <1>3, <3>2, <3>3
  <2>2. Pack(f[1]) \in Seq(Byte) /\ Len(Pack(f[1])) = P  BY <1>7, PackFacts DEF P
  <2> QED  BY <2>1, <2>2, SeqEqual DEF P
<1>9. Unpack(h) = NextGrid(g)  BY <1>6, <1>7, <1>8, PackFacts
<1> DEFINE e == [j \in 0 .. k - 1 |-> f[j + 1]]
<1>10. e \in [0 .. k - 1 -> Grid] /\ e[0] = NextGrid(g) /\ e[k - 1] = a
       /\ \A j \in 0 .. k - 1 : e[j] = f[j + 1]
  BY <1>1, <1>5, <1>6
<1> HIDE DEF e
<1>11. ASSUME NEW j \in 0 .. (k - 1) - 1 PROVE e[j + 1] = NextGrid(e[j])
  <2>1. f[(j + 1) + 1] = NextGrid(f[j + 1])  BY <1>1 DEF IsStream
  <2> QED  BY <1>10, <2>1
<1>12. Len(t) = (k - 1) * P
  <2>1. (k - 1) * P = k * P - P /\ k * P \in Int  BY <1>2
  <2> QED  BY <1>2, <1>3, <1>4, <2>1
<1>13. ASSUME NEW j \in 0 .. (k - 1) - 1, NEW m \in 1 .. P
       PROVE  t[j * P + m] = Pack(e[j + 1])[m]
  <2> DEFINE x == j * P + m
  <2>1. (h \o t)[(j + 1) * P + m] = Pack(f[(j + 1) + 1])[m]
    <3>1. j + 1 \in 0 .. k - 1  OBVIOUS
    <3> QED  BY <1>1, <3>1 DEF IsStream, P
  <2>2. PICK d \in Nat : k = j + 2 + d
    <3>1. k - j - 2 \in Nat /\ k = j + 2 + (k - j - 2)  OBVIOUS
    <3> QED  BY <3>1
  <2>3. /\ k * P = j * P + P + P + d * P /\ (j + 1) * P = j * P + P
        /\ j * P \in Nat /\ d * P \in Nat
    <3>1. j \in Nat  OBVIOUS
    <3> QED  BY <1>2, <2>2, <3>1
  <2>4. (j + 1) * P + m = x + P /\ x \in Nat /\ x > 0 /\ x <= Len(t)
    <3>1. j * P + P <= Len(t)
      <4> DEFINE u == j * P
                 v == d * P
                 w == k * P
      <4>1. w = u + P + P + v /\ u \in Nat /\ v \in Nat /\ w = P + Len(t)  BY <1>4, <2>3
      <4> HIDE DEF u, v, w
      <4>2. u + P <= Len(t)  BY <1>2, <1>3, <4>1
      <4> QED  BY <4>2 DEF u
    <3>2. (j + 1) * P = j * P + P /\ j * P \in Nat  BY <2>3
    <3>3. m \in Nat /\ m > 0 /\ m <= P  BY <1>2
    <3> DEFINE u == j * P
               v == (j + 1) * P
    <3> HIDE DEF u, v
    <3>4. v = u + P /\ u \in Nat /\ u + P <= Len(t)  BY <3>1, <3>2 DEF u, v
    <3>5. v + m = u + m + P /\ u + m \in Nat /\ u + m > 0 /\ u + m <= Len(t)
      BY <1>2, <1>3, <3>3, <3>4
    <3> QED  BY <3>5 DEF u, v
  <2>5. e[j + 1] = f[(j + 1) + 1]
    <3>1. j + 1 \in 0 .. k - 1  OBVIOUS
    <3> QED  BY <1>10, <3>1
  <2> HIDE DEF x
  <2>6. (h \o t)[x + P] = t[x]
    <3> DEFINE z == x + P
    <3>1. z \in 1 .. P + Len(t) /\ ~(z <= P) /\ z - P = x  BY <1>2, <1>3, <2>4
    <3> HIDE DEF z
    <3>2. (h \o t)[z] = t[x]  BY <1>3, <3>1
    <3> QED  BY <3>2 DEF z
  <2>7. t[x] = Pack(e[j + 1])[m]  BY <2>1, <2>4, <2>5, <2>6
  <2> QED  BY <2>7 DEF x
<1>14. k - 1 \in Nat  BY <1>5
<1>15. IsStream(t, e, k - 1)  BY <1>10, <1>11, <1>12, <1>13, <1>14 DEF IsStream, P
<1>16. Leads(t, NextGrid(g), a)  BY <1>10, <1>14, <1>15 DEF Leads
<1> QED  BY <1>6, <1>9, <1>16

-----------------------------------------------------------------------------
(* The handshake, and the bytes it leaves to account for.                  *)

\* READY is the last of the bytes in s and not among the others.
ReadyLast(s) == s # << >> /\ s[Len(s)] = READY /\ \A i \in 1 .. Len(s) - 1 : s[i] # READY

\* Before READY: none has come.  On its way: the Pi waits for the initial state.
\* After it, until the initial state is complete: what the Pi has and what is on
\* its way are the initial state, and nothing else has been sent or shown.
Handshake ==
    /\ pi.pc = "init" => host.pc # "frames" /\ \A i \in 1 .. Len(tty) : tty[i] # READY
    /\ host.pc = "boot" => pi.pc = "init"
    /\ host.pc = "ready" /\ pi.pc # "init" =>
         pi.pc = "fill" /\ pi.packed = << >> /\ ReadyLast(tty)
    /\ pi.pc \in {"init", "fill"} => pi.gen = 0 /\ lost = 0
    /\ host.pc # "frames" => host.shown = 0
    /\ host.pc = "frames" /\ pi.pc = "fill" =>
         /\ tty = << >> /\ host.packed = << >> /\ host.shown = 0
         /\ pi.packed \o toPi = Pack(host.grid)
HandshakeOK == greeted => Handshake

LEMMA InitHandshake == Init => HandshakeOK
<1> SUFFICES ASSUME Init, greeted PROVE Handshake  BY DEF HandshakeOK
<1>1. \A i \in 1 .. Len(tty) : tty[i] # READY  BY DEF Init, Contains
<1>2. host.pc = "boot" /\ host.shown = 0 /\ pi.pc = "init" /\ pi.gen = 0 /\ lost = 0
  BY DEF Init
<1> QED  BY <1>1, <1>2 DEF Handshake

\* Once missed, READY does not come again.
LEMMA GreetedStays == BuffersOK /\ [Next]_vars /\ greeted' => greeted
  BY DEF Next, HostStep, PiStep, SetRate, AwaitReady, Read, Show, SendReady, Fill, Kernel, Rule,
         Send, vars, BuffersOK

LEMMA StepHandshake == TypeOK /\ BuffersOK /\ HandshakeOK /\ [Next]_vars => HandshakeOK'
<1> SUFFICES ASSUME TypeOK, BuffersOK, Handshake, greeted, [Next]_vars, greeted'
             PROVE  Handshake'
  BY GreetedStays DEF HandshakeOK
<1>1. host \in HostRecord /\ pi \in PiRecord /\ tty \in Seq(Byte) /\ toPi \in Seq(Byte)
  BY TypeSplit
<1>2. CASE SetRate
  <2>1. /\ host.pc = "boot" /\ host'.pc = "ready" /\ host'.shown = host.shown
        /\ UNCHANGED <<pi, toPi, tty, lost>>
    BY <1>1, <1>2 DEF SetRate, HostRecord
  <2> QED  BY <2>1 DEF Handshake
<1>3. CASE AwaitReady
  <2>1. CASE tty[1] = READY
    <3>1. Len(tty) \in Nat /\ Len(tty) > 0
      BY <1>1, <1>3, LenProperties, EmptySeq DEF AwaitReady
    <3>2. pi.pc # "init" /\ host.pc = "ready"
      <4>1. 1 \in 1 .. Len(tty)  BY ONLY <3>1
      <4>2. pi.pc = "init" => \A i \in 1 .. Len(tty) : tty[i] # READY  BY DEF Handshake
      <4>3. host.pc = "ready"  BY <1>3 DEF AwaitReady
      <4> QED  BY ONLY <2>1, <4>1, <4>2, <4>3
    <3>3. pi.pc = "fill" /\ pi.packed = << >> /\ ReadyLast(tty)
      BY <3>2 DEF Handshake
    <3>4. Len(tty) = 1
      <4>1. ASSUME Len(tty) >= 2 PROVE FALSE
        <5>1. 1 \in 1 .. Len(tty) - 1  BY <3>1, <4>1
        <5> QED  BY <2>1, <3>3, <5>1 DEF ReadyLast
      <4>2. \A l \in Nat : l > 0 /\ ~(l >= 2) => l = 1  OBVIOUS
      <4> QED  BY <3>1, <4>1, <4>2
    <3>5. Tail(tty) = << >>
      <4>1. Tail(tty) \in Seq(Byte) /\ Len(Tail(tty)) = 0
        BY <1>1, <1>3, <3>4, HeadTailProperties DEF AwaitReady
      <4> QED  BY <4>1, EmptySeq
    <3>6. host' = [host EXCEPT !.pc = "frames"] /\ toPi' = toPi \o Pack(host.grid)
          /\ tty' = << >> /\ UNCHANGED <<pi, lost>>
      BY <1>3, <2>1, <3>5 DEF AwaitReady
    <3>7. /\ host'.pc = "frames" /\ host'.shown = 0 /\ host'.packed = << >>
          /\ host'.grid = host.grid
      BY <1>1, <3>2, <3>6 DEF HostRecord, Handshake, BuffersOK
    <3>8. pi'.packed \o toPi' = Pack(host'.grid)
      <4>1. Pack(host.grid) \in Seq(Byte)  BY <1>1, PackFacts DEF HostRecord
      <4>2. toPi = << >>  BY <3>2 DEF BuffersOK
      <4>3. << >> \o (<< >> \o Pack(host.grid)) = Pack(host.grid)  BY <4>1, ConcatEmptySeq
      <4> QED  BY <3>3, <3>6, <3>7, <4>2, <4>3
    <3> QED  BY <3>2, <3>3, <3>6, <3>7, <3>8 DEF Handshake
  <2>2. CASE tty[1] # READY
    <3>1. /\ tty # << >> /\ tty' = Tail(tty) /\ host.pc = "ready"
          /\ UNCHANGED <<host, pi, toPi, lost>>
      BY <1>3, <2>2 DEF AwaitReady
    <3>2. /\ Len(tty) \in Nat \ {0} /\ Tail(tty) \in Seq(Byte) /\ Len(Tail(tty)) = Len(tty) - 1
          /\ \A i \in 1 .. Len(Tail(tty)) : Tail(tty)[i] = tty[i + 1]
      BY <1>1, <3>1, HeadTailProperties, LenProperties, EmptySeq
    <3>3. ASSUME pi.pc = "init", NEW i \in 1 .. Len(tty') PROVE tty'[i] # READY
      <4>1. i + 1 \in 1 .. Len(tty) /\ tty'[i] = tty[i + 1]  BY <3>1, <3>2, <3>3
      <4> QED  BY <3>3, <4>1 DEF Handshake
    <3>4. ASSUME pi.pc # "init" PROVE ReadyLast(tty')
      <4>1. ReadyLast(tty)  BY <3>1, <3>4 DEF Handshake
      <4>2. Len(tty) # 1  BY <2>2, <4>1 DEF ReadyLast
      <4>3. tty' # << >>
        <5>1. Len(Tail(tty)) # 0  BY <3>2, <4>2
        <5> QED  BY <3>1, <5>1, EmptySeq
      <4>4. tty'[Len(tty')] = READY
        <5>1. Len(tty') \in 1 .. Len(Tail(tty)) /\ Len(tty') + 1 = Len(tty)
          BY <3>1, <3>2, <4>2
        <5> QED  BY <3>1, <3>2, <4>1, <5>1 DEF ReadyLast
      <4>5. ASSUME NEW i \in 1 .. Len(tty') - 1 PROVE tty'[i] # READY
        <5>1. i + 1 \in 1 .. Len(tty) - 1 /\ tty'[i] = tty[i + 1]  BY <3>1, <3>2
        <5> QED  BY <4>1, <5>1 DEF ReadyLast
      <4> QED  BY <4>3, <4>4, <4>5 DEF ReadyLast
    <3> QED  BY <3>1, <3>3, <3>4 DEF Handshake
  <2> QED  BY <2>1, <2>2
<1>4. CASE Read
  <2>1. PICK n \in 1 .. Len(tty) : host' = [host EXCEPT !.packed = @ \o SubSeq(tty, 1, n)]
    BY <1>4 DEF Read
  <2>2. host.pc = "frames" /\ UNCHANGED <<pi, toPi, lost>> /\ host'.pc = host.pc
    BY <1>1, <1>4, <2>1 DEF Read, HostRecord
  <2>3. tty # << >>  BY <2>1
  <2>4. pi.pc # "fill" /\ pi.pc # "init"  BY <2>2, <2>3 DEF Handshake
  <2> QED  BY <2>2, <2>4 DEF Handshake
<1>5. CASE Show
  <2>1. /\ host.pc = "frames" /\ host'.pc = host.pc /\ host.packed # << >>
        /\ UNCHANGED <<pi, toPi, tty, lost>>
    BY <1>1, <1>5, Sizes DEF Show, HostRecord
  <2>2. pi.pc # "fill" /\ pi.pc # "init"  BY <2>1 DEF Handshake
  <2> QED  BY <2>1, <2>2 DEF Handshake
<1>6. CASE SendReady
  <2>1. /\ pi.pc = "init" /\ pi' = [pi EXCEPT !.pc = "fill"] /\ host.pc # "boot"
        /\ tty' = Append(tty, READY) /\ UNCHANGED <<host, lost>>
    BY <1>6 DEF SendReady
  <2>2. pi'.pc = "fill" /\ pi'.packed = << >> /\ pi'.gen = pi.gen
    BY <1>1, <2>1 DEF PiRecord, BuffersOK
  <2>3. host.pc = "ready"  BY <1>1, <2>1 DEF Handshake, HostRecord
  <2>4. ReadyLast(tty')
    <3>1. READY \in Byte  BY DEF READY, Byte
    <3>2. /\ Len(tty) \in Nat /\ Append(tty, READY) \in Seq(Byte)
          /\ Len(Append(tty, READY)) = Len(tty) + 1 /\ Append(tty, READY)[Len(tty) + 1] = READY
          /\ \A i \in 1 .. Len(tty) : Append(tty, READY)[i] = tty[i]
      BY <1>1, <3>1, AppendProperties, LenProperties
    <3>3. Append(tty, READY) # << >>  BY <3>2, EmptySeq
    <3>4. \A i \in 1 .. Len(tty) : tty[i] # READY  BY <2>1 DEF Handshake
    <3> QED  BY <2>1, <3>2, <3>3, <3>4 DEF ReadyLast
  <2> QED  BY <2>1, <2>2, <2>3, <2>4 DEF Handshake
<1>7. CASE Fill
  <2>1. /\ pi.pc = "fill" /\ toPi # << >> /\ toPi' = Tail(toPi)
        /\ UNCHANGED <<host, tty, lost>> /\ host.pc = "frames"
    BY <1>7 DEF Fill, BuffersOK
  <2> DEFINE p == Append(pi.packed, toPi[1])
  <2>2. CASE Len(p) < PackedBytes
    <3>1. pi' = [pi EXCEPT !.packed = p]  BY <1>7, <2>2 DEF Fill
    <3>2. pi'.packed = p /\ pi'.pc = "fill" /\ pi'.gen = pi.gen
      BY <1>1, <2>1, <3>1 DEF PiRecord
    <3>3. p \o Tail(toPi) = pi.packed \o toPi
      BY <1>1, <2>1, MoveFirst DEF PiRecord
    <3> QED  BY <2>1, <3>2, <3>3 DEF Handshake
  <2>3. CASE ~(Len(p) < PackedBytes)
    <3>1. pi' = [pi EXCEPT !.pc = "kernel", !.packed = << >>, !.a = Unpack(p)]
      BY <1>7, <2>3 DEF Fill
    <3>2. pi'.pc = "kernel"  BY <1>1, <3>1 DEF PiRecord
    <3> QED  BY <2>1, <3>2 DEF Handshake
  <2> QED  BY <2>2, <2>3
<1>8. CASE Kernel \/ Rule \/ Send
  <2>1. pi.pc \in {"kernel", "rule", "send"} /\ UNCHANGED <<host, toPi>>
    BY <1>8 DEF Kernel, Rule, Send
  <2>2. host.pc = "frames"
    BY <1>1, <2>1 DEF Handshake, HostRecord
  <2>3. pi'.pc \in {"kernel", "rule", "send"}
    <3>1. CASE Kernel  BY <1>1, <3>1 DEF Kernel, PiRecord
    <3>2. CASE Rule  BY <1>1, <3>2 DEF Rule, PiRecord
    <3>3. CASE Send  BY <1>1, <3>3 DEF Send, PiRecord
    <3> QED  BY <1>8, <3>1, <3>2, <3>3
  <2> QED  BY <2>1, <2>2, <2>3 DEF Handshake
<1>9. CASE UNCHANGED vars
  BY <1>9 DEF vars, Handshake
<1> QED  BY <1>2, <1>3, <1>4, <1>5, <1>6, <1>7, <1>8, <1>9 DEF Next, HostStep, PiStep

\* Until the initial state is complete there is nothing to account for.
LEMMA NothingSentYet ==
    ASSUME HandshakeOK', pi'.pc \in {"init", "fill"}
    PROVE  BytesAccounted'
<1> SUFFICES ASSUME greeted', host'.pc = "frames" PROVE BytesAccounted'  BY DEF BytesAccounted
<1>1. Len(<< >>) = 0 /\ PackedBytes \in Nat  BY EmptySeq, Sizes
<1>2. pi'.pc = "fill" /\ pi'.gen = 0 /\ lost' = 0 /\ tty' = << >> /\ host'.packed = << >>
      /\ host'.shown = 0
  BY DEF HandshakeOK, Handshake
<1>3. 0 * PackedBytes = 0  BY <1>1
<1> QED  BY <1>1, <1>2, <1>3 DEF BytesAccounted

LEMMA StepBytes ==
    TypeOK /\ TypeOK' /\ BuffersOK /\ HandshakeOK /\ HandshakeOK' /\ BytesAccounted /\ [Next]_vars
      => BytesAccounted'
<1> SUFFICES ASSUME TypeOK, TypeOK', BuffersOK, HandshakeOK, HandshakeOK', BytesAccounted,
                    [Next]_vars, greeted, greeted', host'.pc = "frames",
                    pi'.pc \notin {"init", "fill"}
             PROVE  BytesAccounted'
  <2>1. BytesAccounted' <=> (greeted' /\ host'.pc = "frames" => BytesAccounted')
    BY DEF BytesAccounted
  <2>2. HandshakeOK' /\ pi'.pc \in {"init", "fill"} => BytesAccounted'
    BY NothingSentYet
  <2> QED  BY <2>1, <2>2, GreetedStays
<1> DEFINE P == PackedBytes
           sent == host.shown * P + Len(host.packed) + Len(tty) + lost
           unsent == IF pi.pc = "send" THEN Len(pi.packed) ELSE 0
<1>1. host \in HostRecord /\ pi \in PiRecord /\ tty \in Seq(Byte) /\ toPi \in Seq(Byte)
      /\ lost \in Nat
  BY TypeSplit
<1>2. P \in Nat \ {0} /\ host.shown \in Nat /\ pi.gen \in Nat /\ MaxGen \in Nat
  BY <1>1, Sizes, DemoAssumption DEF HostRecord, PiRecord
<1>3. Len(host.packed) \in Nat /\ Len(tty) \in Nat /\ Len(pi.packed) \in Nat
  BY <1>1, LenProperties DEF HostRecord, PiRecord
<1>4. host.shown * P \in Nat /\ pi.gen * P \in Nat  BY <1>2
<1>5. host.pc = "frames" => sent + unsent = pi.gen * P  BY DEF BytesAccounted
<1> HIDE DEF P
<1>6. CASE SetRate
  BY <1>1, <1>6 DEF SetRate, HostRecord
<1>7. CASE AwaitReady
  <2>1. host.pc = "ready" /\ UNCHANGED pi  BY <1>7 DEF AwaitReady
  <2>2. pi.pc # "init"  BY <2>1
  <2> QED  BY <2>1, <2>2 DEF HandshakeOK, Handshake
<1>8. CASE Read
  <2>1. PICK n \in 1 .. Len(tty) :
           /\ host' = [host EXCEPT !.packed = @ \o SubSeq(tty, 1, n)]
           /\ tty' = SubSeq(tty, n + 1, Len(tty))
    BY <1>8 DEF Read
  <2>2. \A j \in 1 .. Len(tty) : tty[j] \in Byte  BY <1>1, ElementOfSeq
  <2>3. SubSeq(tty, 1, n) \in Seq(Byte) /\ Len(SubSeq(tty, 1, n)) = n
    BY <1>3, <2>2, SubSeqProperties
  <2>4. Len(tty') = Len(tty) - n
    <3>1. Len(SubSeq(tty, n + 1, Len(tty))) =
            IF n + 1 <= Len(tty) THEN Len(tty) - (n + 1) + 1 ELSE 0
      BY <1>3, <2>2, SubSeqProperties
    <3> QED  BY <1>3, <2>1, <3>1
  <2>5. Len(host.packed \o SubSeq(tty, 1, n)) = Len(host.packed) + n
    BY <1>1, <2>3, ConcatProperties DEF HostRecord
  <2>6. host'.packed = host.packed \o SubSeq(tty, 1, n) /\ host'.shown = host.shown
    BY <1>1, <2>1 DEF HostRecord
  <2>7. host.pc = "frames" /\ UNCHANGED <<pi, lost>>  BY <1>8 DEF Read
  <2>8. host'.shown * P + Len(host'.packed) + Len(tty') + lost' = sent
    <3> DEFINE w == host.shown * P
    <3>1. w \in Nat  BY <1>4
    <3> HIDE DEF w
    <3>2. w + (Len(host.packed) + n) + (Len(tty) - n) + lost = w + Len(host.packed) + Len(tty) + lost
      BY <1>1, <1>3, <3>1
    <3> QED  BY <2>4, <2>5, <2>6, <2>7, <3>2 DEF w
  <2> QED  BY <1>5, <2>7, <2>8 DEF BytesAccounted, P
<1>9. CASE Show
  <2>1. /\ host.pc = "frames" /\ Len(host.packed) = P
        /\ host' = [host EXCEPT !.grid = Unpack(host.packed), !.packed = << >>, !.shown = @ + 1]
        /\ UNCHANGED <<pi, tty, lost>>
    BY <1>9 DEF Show, P
  <2>2. host'.packed = << >> /\ host'.shown = host.shown + 1  BY <1>1, <2>1 DEF HostRecord
  <2>3. Len(<< >>) = 0  BY EmptySeq
  <2>4. (host.shown + 1) * P = host.shown * P + P  BY <1>2
  <2>5. host'.shown * P + Len(host'.packed) + Len(tty') + lost' = sent
    <3> DEFINE w == host.shown * P
               v == (host.shown + 1) * P
    <3>1. w \in Nat /\ v = w + P  BY <1>4, <2>4
    <3> HIDE DEF w, v
    <3>2. v + 0 + Len(tty) + lost = w + P + Len(tty) + lost  BY <1>1, <1>2, <1>3, <3>1
    <3> QED  BY <2>1, <2>2, <2>3, <3>2 DEF w, v
  <2> QED  BY <1>5, <2>1, <2>5 DEF BytesAccounted, P
<1>10. CASE SendReady
  <2>1. pi'.pc = "fill"  BY <1>1, <1>10 DEF SendReady, PiRecord
  <2> QED  BY <2>1
<1>11. CASE Fill
  <2>1. pi.pc = "fill" /\ UNCHANGED <<host, tty, lost>> /\ host.pc = "frames"
    BY <1>11 DEF Fill
  <2>2. pi.gen = 0 /\ lost = 0 /\ tty = << >> /\ host.packed = << >> /\ host.shown = 0
    BY <2>1 DEF HandshakeOK, Handshake
  <2>3. pi'.gen = 0 /\ pi'.pc \in {"fill", "kernel"}
    BY <1>1, <1>11, <2>1, <2>2 DEF Fill, PiRecord
  <2>4. Len(<< >>) = 0 /\ 0 * P = 0  BY <1>2, EmptySeq
  <2> QED  BY <2>1, <2>2, <2>3, <2>4 DEF BytesAccounted, P
<1>12. CASE Kernel
  <2>1. pi.pc = "kernel" /\ UNCHANGED <<host, tty, lost>> /\ host.pc = "frames"
    BY <1>12 DEF Kernel
  <2>2. pi'.pc = "rule" /\ pi'.gen = pi.gen  BY <1>1, <1>12 DEF Kernel, PiRecord
  <2> QED  BY <1>5, <2>1, <2>2 DEF BytesAccounted, P
<1>13. CASE Rule
  <2> DEFINE a == [i \in Cells |-> IF i \notin InnerCells THEN pi.a[i]
                                   ELSE IF Lives(i) THEN 1 ELSE 0]
  <2>1. /\ pi.pc = "rule" /\ UNCHANGED <<host, tty, lost>> /\ host.pc = "frames"
        /\ pi' = [pi EXCEPT !.pc = "send", !.a = a, !.packed = Pack(a), !.gen = @ + 1]
    BY <1>13 DEF Rule
  <2>2. a \in Grid  BY <1>1 DEF Grid, PiRecord
  <2> HIDE DEF a
  <2>3. pi'.pc = "send" /\ pi'.gen = pi.gen + 1 /\ pi'.packed = Pack(a)
    BY <1>1, <2>1 DEF PiRecord
  <2>4. Len(Pack(a)) = P  BY <2>2, PackFacts DEF P
  <2>5. (pi.gen + 1) * P = pi.gen * P + P  BY <1>2
  <2>6. sent + P = (pi.gen + 1) * P
    <3> DEFINE w == pi.gen * P
               v == (pi.gen + 1) * P
    <3>1. v = w + P /\ w \in Nat  BY <1>4, <2>5
    <3>2. sent + 0 = w /\ sent \in Nat  BY <1>1, <1>3, <1>4, <1>5, <2>1
    <3> HIDE DEF w, v, sent
    <3>3. sent + P = v  BY <1>2, <3>1, <3>2
    <3> QED  BY <3>3 DEF v
  <2> QED  BY <2>1, <2>3, <2>4, <2>6 DEF BytesAccounted, P
<1>14. CASE Send
  <2>1. /\ pi.pc = "send" /\ UNCHANGED host /\ host.pc = "frames"
        /\ pi' = [pi EXCEPT !.packed = Tail(@),
                            !.pc = IF Len(pi.packed) = 1 THEN "kernel" ELSE "send"]
        /\ IF Len(tty) < TtyBuf THEN tty' = Append(tty, pi.packed[1]) /\ UNCHANGED lost
           ELSE lost' = lost + 1 /\ UNCHANGED tty
    BY <1>14 DEF Send
  <2>2. /\ pi'.packed = Tail(pi.packed) /\ pi'.gen = pi.gen
        /\ pi'.pc = IF Len(pi.packed) = 1 THEN "kernel" ELSE "send"
    BY <1>1, <2>1 DEF PiRecord
  <2>3. pi.packed # << >> /\ pi.packed[1] \in Byte /\ Len(Tail(pi.packed)) = Len(pi.packed) - 1
    BY <1>1, <2>1, HeadTailProperties, ElementOfSeq, LenProperties, EmptySeq
       DEF BuffersOK, PiRecord
  <2>4. (IF pi'.pc = "send" THEN Len(pi'.packed) ELSE 0) = Len(pi.packed) - 1
    <3>1. CASE Len(pi.packed) = 1
      <4>1. pi'.pc = "kernel" /\ Len(pi.packed) - 1 = 0  BY <2>2, <3>1
      <4> QED  BY <4>1
    <3>2. CASE Len(pi.packed) # 1
      <4>1. pi'.pc = "send" /\ Len(pi'.packed) = Len(pi.packed) - 1  BY <2>2, <2>3, <3>2
      <4> QED  BY <4>1
    <3> QED  BY <3>1, <3>2
  <2>5. Len(tty') + lost' = Len(tty) + lost + 1
    <3>1. Len(Append(tty, pi.packed[1])) = Len(tty) + 1  BY <1>1, <2>3, AppendProperties
    <3>2. CASE Len(tty) < TtyBuf
      <4>1. Len(tty') = Len(tty) + 1 /\ lost' = lost  BY <2>1, <3>1, <3>2
      <4> QED  BY <1>1, <1>3, <4>1
    <3>3. CASE ~(Len(tty) < TtyBuf)
      <4>1. Len(tty') = Len(tty) /\ lost' = lost + 1  BY <2>1, <3>3
      <4> QED  BY <1>1, <1>3, <4>1
    <3> QED  BY <3>2, <3>3
  <2>6. Len(tty') \in Nat /\ lost' \in Nat
    BY LenProperties DEF TypeOK
  <2>7. host.shown * P + Len(host.packed) + Len(tty') + lost' + (Len(pi.packed) - 1) = pi.gen * P
    <3> DEFINE w == host.shown * P
               v == pi.gen * P
    <3>1. /\ w \in Nat /\ v \in Nat
          /\ w + Len(host.packed) + Len(tty) + lost + Len(pi.packed) = v
      BY <1>4, <1>5, <2>1
    <3> HIDE DEF w, v
    <3> DEFINE x == Len(host.packed)
               y == Len(tty)
               z == Len(pi.packed)
               u == Len(tty')
    <3>2. x \in Nat /\ y \in Nat /\ z \in Nat /\ u \in Nat /\ u + lost' = y + lost + 1
      BY <1>3, <2>5, <2>6
    <3>3. w + x + y + lost + z = v  BY <3>1
    <3>4. lost \in Nat /\ lost' \in Nat  BY <1>1, <2>6
    <3> HIDE DEF x, y, z, u
    <3>5. w + x + u + lost' + (z - 1) = v
      <4>1. \A a, b, d \in Int : a + b + d = a + (b + d)  OBVIOUS
      <4>2. \A a, b, d, e, f \in Int : a + b + d = f /\ e = b + 1 => a + e + (d - 1) = f
        OBVIOUS
      <4> DEFINE c == w + x
                 p == y + lost
                 q == u + lost'
      <4>3. c \in Int /\ p \in Int /\ q \in Int /\ q = p + 1 /\ v \in Int /\ z \in Int
        <5>1. v \in Int  BY <3>1
        <5>2. z \in Int  BY <3>2
        <5>3. c \in Int  BY <3>1, <3>2
        <5>4. p \in Int  BY <3>2, <3>4
        <5>5. q \in Int  BY <3>2, <3>4
        <5>6. q = p + 1  BY <3>2
        <5> QED  BY <5>1, <5>2, <5>3, <5>4, <5>5, <5>6
      <4>4. c + y + lost = c + p /\ c + u + lost' = c + q  BY <3>2, <3>4, <4>1, <4>3
      <4>5. c + p + z = v  BY <3>3, <4>4
      <4> HIDE DEF c, p, q
      <4>6. c + q + (z - 1) = v  BY <4>2, <4>3, <4>5
      <4> QED  BY <4>4, <4>6 DEF c
    <3> QED  BY <3>5 DEF w, v, x, y, z, u
  <2> QED  BY <2>1, <2>2, <2>4, <2>7 DEF BytesAccounted, P
<1>15. CASE UNCHANGED vars
  BY <1>15 DEF vars, BytesAccounted
<1> QED  BY <1>6, <1>7, <1>8, <1>9, <1>10, <1>11, <1>12, <1>13, <1>14, <1>15
         DEF Next, HostStep, PiStep

\* The line makes up no byte and loses none it does not count.
THEOREM AccountsForBytes == Spec => []BytesAccounted
<1> DEFINE Inv == TypeOK /\ BuffersOK /\ HandshakeOK /\ BytesAccounted
<1>1. Init => Inv
  <2>1. Init => host.pc = "boot"  BY DEF Init
  <2> QED  BY <2>1, InitType, InitHandshake DEF BytesAccounted
<1>2. Inv /\ [Next]_vars => Inv'
  BY StepType, StepHandshake, StepBytes
<1>3. Inv => BytesAccounted  OBVIOUS
<1> QED  BY <1>1, <1>2, <1>3, PTL DEF Spec

-----------------------------------------------------------------------------
(* What is on its way to the laptop are the generations it has not shown.  *)

RuleInput == pi.pc = "rule" => \A i \in InnerCells : pi.b[i] = Around(pi.a, i)

InFlight == (host.packed \o tty) \o pi.packed

Stream ==
    greeted /\ lost = 0 /\ host.pc = "frames" /\ pi.pc \notin {"init", "fill"} =>
        Leads(InFlight, host.grid, pi.a)

LEMMA StepRuleInput == TypeOK /\ RuleInput /\ [Next]_vars => RuleInput'
<1> SUFFICES ASSUME TypeOK, RuleInput, [Next]_vars PROVE RuleInput'  OBVIOUS
<1>1. pi \in PiRecord  BY TypeSplit
<1>2. CASE UNCHANGED pi  BY <1>2 DEF RuleInput
<1>3. CASE SendReady  BY <1>1, <1>3 DEF SendReady, PiRecord, RuleInput
<1>4. CASE Fill
  <2>1. pi'.pc \in {"fill", "kernel"}  BY <1>1, <1>4 DEF Fill, PiRecord
  <2> QED  BY <2>1 DEF RuleInput
<1>5. CASE Kernel
  <2> DEFINE b2 == [i \in Cells |-> IF i \in InnerCells THEN Around(pi.a, i) ELSE pi.b[i]]
  <2>1. InnerCells \subseteq Cells
    <3> SUFFICES ASSUME NEW i \in InnerCells PROVE i \in Cells  OBVIOUS
    <3>1. PICK r \in 1 .. Rows - 2, c \in 1 .. Cols - 2 : i = r * Cols + c  BY DEF InnerCells
    <3> QED  BY <3>1, AroundCells
  <2>2. \A i \in InnerCells : b2[i] = Around(pi.a, i)  BY <2>1
  <2>3. pi' = [pi EXCEPT !.pc = "rule", !.b = b2]  BY <1>5 DEF Kernel
  <2> HIDE DEF b2
  <2>4. pi'.b = b2 /\ pi'.a = pi.a  BY <1>1, <2>3 DEF PiRecord
  <2> QED  BY <2>2, <2>4 DEF RuleInput
<1>6. CASE Rule
  <2>1. pi'.pc = "send"  BY <1>1, <1>6 DEF Rule, PiRecord
  <2> QED  BY <2>1 DEF RuleInput
<1>7. CASE Send
  <2>1. pi'.pc \in {"kernel", "send"}  BY <1>1, <1>7 DEF Send, PiRecord
  <2> QED  BY <2>1 DEF RuleInput
<1>8. CASE HostStep \/ UNCHANGED vars
  BY <1>2, <1>8 DEF HostStep, SetRate, AwaitReady, Read, Show, vars
<1> QED  BY <1>3, <1>4, <1>5, <1>6, <1>7, <1>8 DEF Next, PiStep

LEMMA StepStream ==
    TypeOK /\ BuffersOK /\ HandshakeOK /\ RuleInput /\ Stream /\ [Next]_vars => Stream'
<1> SUFFICES ASSUME TypeOK, BuffersOK, HandshakeOK, RuleInput, Stream, [Next]_vars,
                    greeted, greeted', lost' = 0, host'.pc = "frames",
                    pi'.pc \notin {"init", "fill"}
             PROVE  Leads(InFlight', host'.grid, pi'.a)
  BY GreetedStays DEF Stream
<1>1. host \in HostRecord /\ pi \in PiRecord /\ tty \in Seq(Byte) /\ toPi \in Seq(Byte)
      /\ lost \in Nat
  BY TypeSplit
<1>2. host.packed \in Seq(Byte) /\ pi.packed \in Seq(Byte) /\ host.grid \in Grid /\ pi.a \in Grid
  BY <1>1 DEF HostRecord, PiRecord
<1>3. host.packed \o tty \in Seq(Byte)  BY <1>1, <1>2, ConcatProperties
<1>4. << >> \in Seq(Byte) /\ Len(<< >>) = 0  BY EmptySeq
<1>5. CASE SetRate
  BY <1>1, <1>5 DEF SetRate, HostRecord
<1>6. CASE AwaitReady
  <2>1. host.pc = "ready" /\ UNCHANGED pi  BY <1>6 DEF AwaitReady
  <2> QED  BY <2>1 DEF HandshakeOK, Handshake
<1>7. CASE Read
  <2>1. PICK n \in 1 .. Len(tty) :
           /\ host' = [host EXCEPT !.packed = @ \o SubSeq(tty, 1, n)]
           /\ tty' = SubSeq(tty, n + 1, Len(tty))
    BY <1>7 DEF Read
  <2>2. host.pc = "frames" /\ UNCHANGED <<pi, lost>>  BY <1>7 DEF Read
  <2>3. host'.packed = host.packed \o SubSeq(tty, 1, n) /\ host'.grid = host.grid
    BY <1>1, <2>1 DEF HostRecord
  <2>4. Len(tty) \in Nat /\ \A j \in 1 .. Len(tty) : tty[j] \in Byte
    BY <1>1, LenProperties, ElementOfSeq
  <2>5. SubSeq(tty, 1, n) \in Seq(Byte) /\ SubSeq(tty, n + 1, Len(tty)) \in Seq(Byte)
    BY <2>4, SubSeqProperties
  <2>6. SubSeq(tty, 1, n) \o SubSeq(tty, n + 1, Len(tty)) = tty
    <3>1. 1 \in 1 .. Len(tty) + 1 /\ n \in 1 - 1 .. Len(tty) /\ Len(tty) \in n .. Len(tty)
      BY <2>4
    <3>2. SubSeq(tty, 1, n) \o SubSeq(tty, n + 1, Len(tty)) = SubSeq(tty, 1, Len(tty))
      BY <1>1, <3>1, ConcatAdjacentSubSeq
    <3> QED  BY <1>1, <3>2, SubSeqFull
  <2>7. (host.packed \o SubSeq(tty, 1, n)) \o SubSeq(tty, n + 1, Len(tty)) = host.packed \o tty
    <3> DEFINE h == host.packed
               f == SubSeq(tty, 1, n)
               r == SubSeq(tty, n + 1, Len(tty))
    <3>1. h \in Seq(Byte) /\ f \in Seq(Byte) /\ r \in Seq(Byte) /\ f \o r = tty
      BY <1>2, <2>5, <2>6
    <3> HIDE DEF h, f, r
    <3>2. (h \o f) \o r = h \o (f \o r)  BY ONLY <3>1, Assoc
    <3>3. (h \o f) \o r = h \o tty  BY ONLY <3>1, <3>2
    <3> QED  BY <3>3 DEF h, f, r
  <2>8. InFlight' = InFlight  BY <2>1, <2>2, <2>3, <2>7 DEF InFlight
  <2> QED  BY <2>2, <2>3, <2>8 DEF Stream
<1>8. CASE Show
  <2>1. /\ host.pc = "frames" /\ Len(host.packed) = PackedBytes
        /\ host' = [host EXCEPT !.grid = Unpack(host.packed), !.packed = << >>, !.shown = @ + 1]
        /\ UNCHANGED <<pi, tty, lost>>
    BY <1>8 DEF Show
  <2>2. host'.grid = Unpack(host.packed) /\ host'.packed = << >>
    BY <1>1, <2>1 DEF HostRecord
  <2>3. Leads(InFlight, host.grid, pi.a)  BY <2>1 DEF Stream
  <2>4. InFlight = host.packed \o (tty \o pi.packed) /\ tty \o pi.packed \in Seq(Byte)
    <3> DEFINE h == host.packed
               w == pi.packed
    <3>1. h \in Seq(Byte) /\ tty \in Seq(Byte) /\ w \in Seq(Byte)  BY <1>1, <1>2
    <3> HIDE DEF h, w
    <3>2. (h \o tty) \o w = h \o (tty \o w)  BY ONLY <3>1, Assoc
    <3>3. tty \o w \in Seq(Byte)  BY ONLY <3>1, ConcatProperties
    <3> QED  BY <3>2, <3>3 DEF InFlight, h, w
  <2>5. Unpack(host.packed) = NextGrid(host.grid)
        /\ Leads(tty \o pi.packed, NextGrid(host.grid), pi.a)
    <3> DEFINE h == host.packed
               t == tty \o pi.packed
    <3>1. h \in Seq(Byte) /\ t \in Seq(Byte) /\ Len(h) = PackedBytes
          /\ Leads(h \o t, host.grid, pi.a)
      BY <1>2, <2>1, <2>3, <2>4
    <3> HIDE DEF h, t
    <3>2. Unpack(h) = NextGrid(host.grid) /\ Leads(t, NextGrid(host.grid), pi.a)
      BY <3>1, LeadsFirst
    <3> QED  BY <3>2 DEF h, t
  <2>6. InFlight' = tty \o pi.packed
    BY <1>1, <2>1, <2>2, ConcatEmptySeq DEF InFlight
  <2> QED  BY <2>1, <2>2, <2>5, <2>6
<1>9. CASE SendReady
  BY <1>1, <1>9 DEF SendReady, PiRecord
<1>10. CASE Fill
  <2>1. pi.pc = "fill" /\ toPi # << >> /\ UNCHANGED <<host, tty, lost>> /\ host.pc = "frames"
    BY <1>10 DEF Fill
  <2>2. tty = << >> /\ host.packed = << >> /\ pi.packed \o toPi = Pack(host.grid)
    BY <2>1 DEF HandshakeOK, Handshake
  <2> DEFINE p == Append(pi.packed, toPi[1])
  <2>3. ~(Len(p) < PackedBytes)
    <3> SUFFICES ASSUME Len(p) < PackedBytes PROVE FALSE  OBVIOUS
    <3>1. pi' = [pi EXCEPT !.packed = p]  BY <1>10 DEF Fill
    <3> QED  BY <1>1, <2>1, <3>1 DEF PiRecord
  <2>4. pi' = [pi EXCEPT !.pc = "kernel", !.packed = << >>, !.a = Unpack(p)]
    BY <1>10, <2>3 DEF Fill
  <2>5. pi'.packed = << >> /\ pi'.a = Unpack(p)  BY <1>1, <2>4 DEF PiRecord
  <2>6. p = Pack(host.grid)
    <3>1. p \o Tail(toPi) = Pack(host.grid)  BY <1>1, <1>2, <2>1, <2>2, MoveFirst
    <3>2. p \in Seq(Byte) /\ Tail(toPi) \in Seq(Byte)
      BY <1>1, <1>2, <2>1, HeadTailProperties, ElementOfSeq, LenProperties, EmptySeq,
         AppendProperties
    <3>3. Len(p \o Tail(toPi)) = PackedBytes  BY <1>2, <3>1, PackFacts
    <3> HIDE DEF p
    <3>4. Len(p) + Len(Tail(toPi)) = PackedBytes /\ Len(p) \in Nat /\ Len(Tail(toPi)) \in Nat
      BY <3>2, <3>3, ConcatProperties, LenProperties
    <3>5. Len(Tail(toPi)) = 0
      <4>1. PackedBytes \in Nat /\ Len(p) >= PackedBytes  BY <2>3, <3>4, Sizes
      <4>2. \A x, y, z \in Nat : x + y = z /\ x >= z => y = 0  OBVIOUS
      <4> QED  BY <3>4, <4>1, <4>2
    <3>6. Tail(toPi) = << >>  BY <3>2, <3>5, EmptySeq
    <3> QED  BY <3>1, <3>2, <3>6, ConcatEmptySeq
  <2> HIDE DEF p
  <2>7. pi'.a = host.grid  BY <1>2, <2>5, <2>6, PackFacts
  <2>8. InFlight' = << >>
    <3>1. (<< >> \o << >>) \o << >> = << >>  BY <1>4, ConcatEmptySeq
    <3> QED  BY <2>1, <2>2, <2>5, <3>1 DEF InFlight
  <2> QED  BY <1>2, <2>1, <2>7, <2>8, LeadsNowhere
<1>11. CASE Kernel
  <2>1. pi.pc = "kernel" /\ UNCHANGED <<host, tty, lost>>  BY <1>11 DEF Kernel
  <2>2. pi'.packed = pi.packed /\ pi'.a = pi.a  BY <1>1, <1>11 DEF Kernel, PiRecord
  <2> QED  BY <2>1, <2>2 DEF Stream, InFlight
<1>12. CASE Rule
  <2> DEFINE a2 == [i \in Cells |-> IF i \notin InnerCells THEN pi.a[i]
                                    ELSE IF Lives(i) THEN 1 ELSE 0]
  <2>1. /\ pi.pc = "rule" /\ UNCHANGED <<host, tty, lost>>
        /\ pi' = [pi EXCEPT !.pc = "send", !.a = a2, !.packed = Pack(a2), !.gen = @ + 1]
    BY <1>12 DEF Rule
  <2>2. a2 = NextGrid(pi.a)
    <3>1. \A i \in InnerCells :
            Lives(i) <=> Around(pi.a, i) = 3 \/ (Around(pi.a, i) = 2 /\ pi.a[i] = 1)
      BY <2>1 DEF RuleInput, Lives
    <3> QED  BY <3>1 DEF NextGrid
  <2> HIDE DEF a2
  <2>3. pi'.packed = Pack(a2) /\ pi'.a = a2  BY <1>1, <2>1 DEF PiRecord
  <2>4. InFlight = host.packed \o tty
    <3>1. pi.packed = << >>  BY <2>1 DEF BuffersOK
    <3> QED  BY <1>3, <3>1, ConcatEmptySeq DEF InFlight
  <2>5. Leads(host.packed \o tty, host.grid, pi.a)  BY <2>1, <2>4 DEF Stream
  <2>6. Leads((host.packed \o tty) \o Pack(a2), host.grid, a2)  BY <2>2, <2>5, LeadsOn
  <2>7. InFlight' = (host.packed \o tty) \o Pack(a2)  BY <2>1, <2>3 DEF InFlight
  <2> QED  BY <2>1, <2>3, <2>6, <2>7
<1>13. CASE Send
  <2>1. /\ pi.pc = "send" /\ UNCHANGED host
        /\ pi' = [pi EXCEPT !.packed = Tail(@),
                            !.pc = IF Len(pi.packed) = 1 THEN "kernel" ELSE "send"]
        /\ IF Len(tty) < TtyBuf THEN tty' = Append(tty, pi.packed[1]) /\ UNCHANGED lost
           ELSE lost' = lost + 1 /\ UNCHANGED tty
    BY <1>13 DEF Send
  <2>2. pi'.packed = Tail(pi.packed) /\ pi'.a = pi.a  BY <1>1, <2>1 DEF PiRecord
  <2>3. tty' = Append(tty, pi.packed[1]) /\ lost = 0
    <3>1. lost + 1 # 0  BY <1>1
    <3> QED  BY <2>1, <3>1
  <2>4. pi.packed # << >> /\ pi.packed[1] \in Byte
    BY <1>2, <2>1, ElementOfSeq, LenProperties, EmptySeq DEF BuffersOK
  <2>5. host.packed \o Append(tty, pi.packed[1]) = Append(host.packed \o tty, pi.packed[1])
    <3> DEFINE e == <<pi.packed[1]>>
    <3>1. e \in Seq(Byte)  BY <2>4
    <3>2. Append(tty, pi.packed[1]) = tty \o e  BY <1>1, <2>4, AppendIsConcat
    <3>3. Append(host.packed \o tty, pi.packed[1]) = (host.packed \o tty) \o e
      BY <1>3, <2>4, AppendIsConcat
    <3> HIDE DEF e
    <3> DEFINE h == host.packed
    <3>4. h \in Seq(Byte) /\ tty \in Seq(Byte)  BY <1>1, <1>2
    <3> HIDE DEF h
    <3>5. (h \o tty) \o e = h \o (tty \o e)  BY <3>1, <3>4, Assoc
    <3> QED  BY <3>2, <3>3, <3>5 DEF h
  <2>6. InFlight' = InFlight
    <3>1. Append(host.packed \o tty, pi.packed[1]) \o Tail(pi.packed) = (host.packed \o tty) \o pi.packed
      BY <1>2, <1>3, <2>4, MoveFirst
    <3> QED  BY <2>1, <2>2, <2>3, <2>5, <3>1 DEF InFlight
  <2> QED  BY <2>1, <2>2, <2>3, <2>6 DEF Stream
<1>14. CASE UNCHANGED vars
  BY <1>14 DEF vars, Stream, InFlight
<1> QED  BY <1>5, <1>6, <1>7, <1>8, <1>9, <1>10, <1>11, <1>12, <1>13, <1>14
         DEF Next, HostStep, PiStep

-----------------------------------------------------------------------------
(* The demo shows the Game of Life.                                        *)

IInv == TypeOK /\ BuffersOK /\ HandshakeOK /\ RuleInput /\ Stream

LEMMA Invariant == Spec => []IInv
<1>1. Init => RuleInput /\ Stream
  <2>1. Init => pi.pc = "init"  BY DEF Init
  <2> QED  BY <2>1 DEF RuleInput, Stream
<1>2. Init => IInv  BY <1>1, InitType, InitHandshake DEF IInv
<1>3. IInv /\ [Next]_vars => IInv'
  BY StepType, StepHandshake, StepRuleInput, StepStream DEF IInv
<1> QED  BY <1>2, <1>3, PTL DEF Spec

LEMMA GridIsBoard == Grid = Shown!Board
  BY DEF Grid, Shown!Board, Cells, Total

\* What is shown is shown next, or a generation, if every byte has come.
LEMMA ShowsGeneration ==
    ASSUME IInv, Show, greeted, lost = 0
    PROVE  host'.grid = NextGrid(host.grid)
<1>1. host \in HostRecord /\ pi \in PiRecord /\ tty \in Seq(Byte)  BY TypeSplit DEF IInv
<1>2. /\ host.pc = "frames" /\ Len(host.packed) = PackedBytes
      /\ host' = [host EXCEPT !.grid = Unpack(host.packed), !.packed = << >>, !.shown = @ + 1]
  BY DEF Show
<1>3. host'.grid = Unpack(host.packed)  BY <1>1, <1>2 DEF HostRecord
<1>4. pi.pc \notin {"init", "fill"}
  <2>1. host.packed # << >>  BY <1>2, Sizes, EmptySeq
  <2> QED  BY <1>2, <2>1 DEF IInv, HandshakeOK, Handshake
<1>5. Leads(InFlight, host.grid, pi.a)  BY <1>2, <1>4 DEF IInv, Stream
<1> DEFINE h == host.packed
           t == tty \o pi.packed
<1>6. h \in Seq(Byte) /\ t \in Seq(Byte) /\ InFlight = h \o t /\ Len(h) = PackedBytes
  <2>1. h \in Seq(Byte) /\ pi.packed \in Seq(Byte)  BY <1>1 DEF HostRecord, PiRecord
  <2>2. (h \o tty) \o pi.packed = h \o t /\ t \in Seq(Byte)  BY <1>1, <2>1, Assoc
  <2> QED  BY <1>2, <2>1, <2>2 DEF InFlight
<1> HIDE DEF h, t
<1>7. Unpack(h) = NextGrid(host.grid)  BY <1>5, <1>6, LeadsFirst
<1> QED  BY <1>3, <1>7 DEF h

\* What the laptop shows is Conway's Game of Life, every generation once and in
\* order, until the tty drops a byte.
THEOREM LifeImplemented == Spec => ImplementsLife
<1>1. Init => Shown!Init
  <2> SUFFICES ASSUME Init PROVE Shown!Init  OBVIOUS
  <2>1. host.grid \in Grid  BY DemoAssumption DEF Init, Grid
  <2>2. (lost > 0 \/ ~greeted) \in BOOLEAN  OBVIOUS
  <2> QED  BY <2>1, <2>2, GridIsBoard DEF Shown!Init
<1>2. IInv /\ IInv' /\ [Next]_vars => [Shown!Next]_<<host.grid, lost > 0 \/ ~greeted>>
  <2> SUFFICES ASSUME IInv, IInv', [Next]_vars
               PROVE  \/ Shown!Next
                      \/ UNCHANGED <<host.grid, lost > 0 \/ ~greeted>>
    OBVIOUS
  <2>1. host \in HostRecord /\ lost \in Nat /\ greeted \in BOOLEAN
        /\ host.grid \in Shown!Board /\ host'.grid \in Shown!Board
        /\ lost' \in Nat /\ greeted' \in BOOLEAN
    BY TypeSplit, GridIsBoard DEF IInv, HostRecord, TypeOK, Grid
  <2>2. CASE Show /\ (lost > 0 \/ ~greeted)
    <3>1. UNCHANGED <<lost, greeted>>  BY <2>2 DEF Show
    <3> QED  BY <2>1, <2>2, <3>1 DEF Shown!Next, Shown!Noise
  <2>3. CASE Show /\ lost = 0 /\ greeted
    <3>1. UNCHANGED <<lost, greeted>>  BY <2>3 DEF Show
    <3>2. host'.grid = NextGrid(host.grid)  BY <2>3, ShowsGeneration
    <3>3. \A r \in Shown!Row, c \in Shown!Col :
            Shown!Alive(host'.grid, r, c) <=> Shown!Survives(host.grid, r, c)
      BY <2>1, <3>2, GridIsBoard, NextIsGeneration
    <3> QED  BY <2>1, <2>3, <3>1, <3>3 DEF Shown!Next, Shown!Generation
  <2>4. CASE ~Show
    <3>1. host'.grid = host.grid
      BY <2>1, <2>4 DEF Next, HostStep, PiStep, SetRate, AwaitReady, Read, SendReady, Fill, Kernel,
                    Rule, Send, vars, HostRecord
    <3>2. lost' = lost \/ lost' = lost + 1
      BY <2>4 DEF Next, HostStep, PiStep, SetRate, AwaitReady, Read, SendReady, Fill, Kernel, Rule,
                  Send, vars
    <3>3. greeted' => greeted  BY GreetedStays DEF IInv
    <3> QED  BY <2>1, <3>1, <3>2, <3>3 DEF Shown!Next, Shown!Lose
  <2> QED  BY <2>1, <2>2, <2>3, <2>4
<1> QED  BY <1>1, <1>2, Invariant, PTL DEF Spec, ImplementsLife, Shown!Spec

=============================================================================

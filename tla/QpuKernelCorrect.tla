-------------------------- MODULE QpuKernelCorrect --------------------------
(***************************************************************************)
(* What a call must compute, said without pointers, strides, loops or      *)
(* QPUs, and the properties of QpuKernel stated against it.                *)
(***************************************************************************)
EXTENDS QpuKernel

-----------------------------------------------------------------------------
(* The reference: the value of an elementwise expression at an index.      *)

Extent(c) == LET n == { c.size[d] : d \in 0 .. c.d - 1 }
             IN  CHOOSE m \in n : \A x \in n : x <= m

\* The elements of a slice.
Indices(c) == { ix \in [0 .. c.d - 1 -> 0 .. Extent(c) - 1] :
                  \A d \in 0 .. c.d - 1 : ix[d] < c.size[d] }

\* Row-major position of an element in a tensor of the call's dimensions.
Linear(c, ix) ==
    LET from[d \in 0 .. c.d] ==
            IF d = c.d THEN 0
            ELSE ix[d] + (IF d = c.d - 1 THEN 0 ELSE c.dim[d] * from[d + 1])
    IN  from[0]

\* Address of the element at ix of the slice that starts at start.
ElementAt(c, base, start, ix) ==
    base + 4 * Linear(c, [d \in 0 .. c.d - 1 |-> start[d] + ix[d]])

\* The operand of a step at ix, as memory held it before the call.
OperandAt(c, ix, st) ==
    IF st.ti = None THEN Imm(c.scalar[st.si])
    ELSE LET x == Cell(ElementAt(c, c.ptr[st.ti], c.start[st.ti], ix))
         IN  IF st.si = None THEN x ELSE Alu("mul", x, Imm(c.scalar[st.si]))

\* The values of the expression at ix, step by step.
StepValues(c, ix) ==
    LET upto[j \in 0 .. Len(c.steps)] ==
            IF j = 0 THEN Junk
            ELSE LET st == c.steps[j]
                     x  == OperandAt(c, ix, st)
                 IN  IF st.init THEN x ELSE Alu(st.op, upto[j - 1], x)
    IN  upto

ValueAt(c, ix) == StepValues(c, ix)[Len(c.steps)]

OutAt(c, ix) == ElementAt(c, c.out, c.ostart, ix)

Reference == [c \in Calls |->
    [a \in { OutAt(c, ix) : ix \in Indices(c) } |->
       ValueAt(c, CHOOSE ix \in Indices(c) : OutAt(c, ix) = a)]]

\* A row is computed in groups of GROUP elements.  The elements of dimension d
\* that are in whole groups are the first Covered(c, d); of every row the last
\* size mod GROUP are in none.
Covered(c, d) == IF d = 0 THEN (c.size[0] \div GROUP) * GROUP ELSE c.size[d]

\* The output words after the last whole group of their row: none of them if rows
\* are a multiple of GROUP.
Leftover == [c \in Calls |->
    { OutAt(c, ix) : ix \in { jx \in Indices(c) : jx[0] >= Covered(c, 0) } }]

\* The output words whose outermost index (or group, of a vector) is in QPU q's
\* block of the n indices.
OwnWords == [c \in Calls |-> [q \in QPU |->
    LET outer == c.d - 1
        unit  == IF c.d = 1 THEN GROUP ELSE 1
    IN  { OutAt(c, ix) : ix \in { jx \in Indices(c) :
            (jx[outer] \div unit) \in Block(q, Covered(c, outer) \div unit) } }]]

-----------------------------------------------------------------------------
(* Invariants.                                                             *)

\* Where the QPUs are, and what their position counts there.
Labels == {"preamble", "setup", "body", "take", "pack", "drain", "loop", "done"}

ControlOK ==
    /\ pc \in [QPU -> Labels]
    /\ pos \in [QPU -> Nat]
    /\ \A q \in QPU :
         /\ pc[q] \in {"setup", "loop"} => pos[q] \in Dims
         /\ pc[q] = "take" => pos[q] \in 1 .. Len(call.steps) /\ Step(q).ti # None
         /\ pc[q] = "body" => pos[q] \in 1 .. Len(call.steps) + 1

RegistersOK ==
    /\ stride \in [QPU -> [Dims -> Words]]
    /\ ptr \in [QPU -> [Inputs -> Words]]
    /\ outp \in [QPU -> Words]
    /\ counter \in [QPU -> [Dims -> Nat]]

\* Data words are opaque: of acc and vpm this says which registers, rows and
\* lanes there are.
SharedOK ==
    /\ DOMAIN acc = QPU /\ \A q \in QPU : DOMAIN acc[q] = Tiles
    /\ DOMAIN vpm = 0 .. ROWS - 1
    /\ DOMAIN load = QPU /\ DOMAIN store = QPU
    /\ \A q \in QPU : load[q] = None \/ load[q] \in Words
    /\ \A q \in QPU : store[q] = None \/ store[q] \in Words

\* Type invariant: every QPU is at a place of the program with a position that
\* exists there, pointers and strides are words, transfers in flight have
\* addresses.
TypeOK == call \in Calls /\ ControlOK /\ RegistersOK /\ SharedOK

\* Once the load a QPU waits for is over, its rows hold the operand's words as
\* they were before the call: no other QPU's transfer landed in these rows, and
\* none has stored over these operands.
ReadsOriginalInput ==
    \A q \in QPU : pc[q] = "take" /\ load[q] = None =>
        \A k \in Tiles, l \in Lanes :
            vpm[VpmRow(q, k)][l] = Cell(WordAt(ptr[q][Step(q).ti], k, l))

\* From the moment the accumulators are packed until the DMA engine has stored
\* them, the rows the engine will read hold what the QPU packed.
StagedIntact ==
    \A q \in QPU : pc[q] = "pack" \/ store[q] # None =>
        \A k \in Tiles : vpm[StoreRow(q, k)] = acc[q][k]

\* "each QPU q handles a contiguous block of the outermost dim": a QPU stores
\* into the part of the output slice that is its block, and nowhere else.
StaysInBlock ==
    \A q \in QPU : store[q] # None => GroupWords(store[q]) \subseteq OwnWords[call][q]

\* A loop counter never passes zero: while a loop runs, its counter is between
\* one and the number of its iterations.  (The loops are do-while: a counter
\* that starts at zero wraps to WORD - 1.)
CountersInRange ==
    \A q \in QPU : pc[q] \in {"body", "take", "pack", "drain"} =>
        \A d \in Dims : counter[q][d] \in 1 .. NumIter(q, d)

\* Every QPU has something to do in every loop: at least one index of each inner
\* dimension, at least NQ of the outermost (groups, of a vector).
FullShares(c) ==
    \A d \in 0 .. c.d - 1 :
        (IF d = 0 THEN c.size[0] \div GROUP ELSE c.size[d])
            >= (IF d = c.d - 1 THEN NQ ELSE 1)

\* Bytes between neighbours in dimension d; in the whole tensor, for d = c.d.
ByteStride(c) ==
    LET w[d \in 0 .. c.d] == IF d = 0 THEN 4 ELSE w[d - 1] * c.dim[d - 1]
    IN  w

\* The slices are inside the tensors, the tensors inside the memory, and no
\* factor of an address has more bits than mul24 multiplies.
Addressable(c) ==
    /\ \A d \in 0 .. c.d - 1 :
         /\ ByteStride(c)[d] < W24 /\ c.dim[d] < W24
         /\ c.ostart[d] + c.size[d] <= c.dim[d]
         /\ \A i \in 0 .. c.n - 1 : c.start[i][d] + c.size[d] <= c.dim[d]
    /\ c.out + ByteStride(c)[c.d] <= WORD
    /\ \A i \in 0 .. c.n - 1 : c.ptr[i] + ByteStride(c)[c.d] <= WORD

\* An input slice is the output slice, or no word of it is.
SliceWords(c, base, start) == { ElementAt(c, base, start, ix) : ix \in Indices(c) }

InPlaceOrApart(c) ==
    \A i \in 0 .. c.n - 1 :
        \/ c.ptr[i] = c.out /\ c.start[i] = c.ostart
        \/ SliceWords(c, c.ptr[i], c.start[i]) \cap SliceWords(c, c.out, c.ostart) = {}

\* The calls a kernel is made for.
Regular(c) == FullShares(c) /\ Addressable(c) /\ InPlaceOrApart(c)

-----------------------------------------------------------------------------
(* Temporal properties.                                                    *)

AllDone == \A q \in QPU : pc[q] = "done"

Abstract == INSTANCE ElementwiseMap WITH target <- Reference[call], result <- mem

\* The kernel implements the elementwise map: a word the QPUs store is a word of
\* the output slice and gets its reference value, in any order and only once.
ImplementsMap == Abstract!Spec

\* When every QPU has reached thrend the blocks have covered the slice and no
\* QPU's loops have left out a group of its block: the words missing are exactly
\* those after the last whole group of their row, and there are none if rows are a
\* multiple of GROUP.
CompleteAtEnd == AllDone => DOMAIN mem = DOMAIN Reference[call] \ Leftover[call]

\* Every QPU reaches thrend, and by then every whole group is written.
Finishes == <>[](AllDone /\ DOMAIN mem = DOMAIN Reference[call] \ Leftover[call])

=============================================================================

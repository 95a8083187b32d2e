------------------------------ MODULE QpuKernel ------------------------------
(***************************************************************************)
(* One call of a kernel generated by the APPiL compiler, run by NQ QPUs.   *)
(*                                                                         *)
(* All QPUs execute the same program.  Each reads its own uniform stream,  *)
(* computes its block of the outermost dimension and walks a nest of       *)
(* do-while loops over it; the innermost body loads a group of TILES tiles *)
(* of every operand into its rows of the shared VPM by DMA, combines them  *)
(* in its accumulator registers, writes the result back to the same rows   *)
(* and stores them by DMA.  The DMA engine works beside the QPUs: only     *)
(* vr_wait and vw_wait tell a QPU that a transfer it started is over.      *)
(*                                                                         *)
(* Data words are opaque: Alu(op, x, y) is the value of an arithmetic      *)
(* instruction.  Addresses and counters are words of the machine; mul24    *)
(* multiplies the low 24 bits.  A memory word is named by its address.     *)
(***************************************************************************)
EXTENDS WorkSplit, KernelLayout, FiniteSets

CONSTANTS
    TILES,         \* tiles (VPM rows) a QPU handles at a time: 8
    LANES,         \* elements in a tile: 16
    ROWS,          \* rows of the VPM: 64
    WORD,          \* 2^32, the modulus of a register
    W24,           \* 2^24, the modulus of mul24's operands
    Calls,         \* the kernel calls considered
    Alu(_, _, _),  \* value of an arithmetic instruction on data words
    Imm(_),        \* the data word a scalar uniform stands for
    Cell(_),       \* the data word at an address before the call
    Junk           \* an uninitialised data word

GROUP  == TILES * LANES
Tiles  == 0 .. TILES - 1
Lanes  == 0 .. LANES - 1
Words  == 0 .. WORD - 1
None   == -1

\* A step of the flattened expression: the accumulators are set to the operand
\* (init) or combined with it by op.  The operand is input tensor ti, multiplied
\* by scalar si when there is one, or scalar si alone when ti is None.
StepOK(c, st) ==
    /\ st.ti \in 0 .. c.n - 1 \cup {None}
    /\ st.si \in 0 .. c.s - 1 \cup {None}
    /\ st.ti = None => st.si # None
    /\ st.init \in BOOLEAN

\* The preamble multiplies the QPU number by the base share with mul24: exact for
\* slices below NQ * W24 (2^27) indices, more than the memory holds.
CallOK(c) ==
    /\ CallShape(c, Words)
    /\ \A d \in 0 .. c.d - 1 : c.size[d] < NQ * W24
    /\ c.steps = [j \in 1 .. Len(c.steps) |-> c.steps[j]]
    /\ Len(c.steps) \in Nat \ {0} /\ c.steps[1].init
    /\ \A j \in 1 .. Len(c.steps) : StepOK(c, c.steps[j])

ASSUME MachineAssumption ==
    /\ TILES \in Nat \ {0} /\ LANES \in Nat \ {0}
    /\ ROWS \in Nat /\ NQ * TILES <= ROWS
    /\ WORD \in Nat /\ 4 * GROUP < WORD
    /\ W24 \in Nat \ {0} /\ NQ <= W24 /\ W24 <= WORD

ASSUME CallsAssumption == \A c \in Calls : CallOK(c)

-----------------------------------------------------------------------------

VARIABLES
    call,      \* the call being run
    unif,      \* uniform stream of each QPU
    pc,        \* where each QPU is
    pos,       \* its dimension (in setup and loop ends) or expression step
    stride,    \* stride_sizes(d), bytes
    ptr,       \* curr_ptr(i), address of the next group of each input
    outp,      \* the same for the output
    counter,   \* loop_counters(d)
    acc,       \* tile_accum(k)
    vpm,       \* the VPM, shared by all QPUs
    load,      \* address of the DMA load in flight, or None
    store,     \* address of the DMA store in flight, or None
    mem        \* memory words stored so far, by address

vars == <<call, unif, pc, pos, stride, ptr, outp, counter, acc, vpm, load, store, mem>>
regs == <<stride, ptr, outp, counter>>

Dims   == 0 .. call.d - 1
Inputs == 0 .. call.n - 1

\* mul24: the product of the low 24 bits, as a register holds it.
Mul24(a, b) == ((a % W24) * (b % W24)) % WORD

\* What a load finds at an address.
Fetch(a) == IF a \in DOMAIN mem THEN mem[a] ELSE Cell(a)

\* Address of lane l of tile k of the group at address a.
WordAt(a, k, l) == (a + 4 * (k * LANES + l)) % WORD

-----------------------------------------------------------------------------
(* What the preamble leaves in registers that never change afterwards.     *)

QNum(q)    == unif[q][UQpu(call)]
Dim(q, d)  == unif[q][UDim(call, d)]
Size(q, d) == unif[q][USize(call, d)]

\* Iterations of loop d before the outermost one is divided.
Units(q, d) == IF d = 0 THEN Size(q, 0) \div GROUP ELSE Size(q, d)

\* The remainder of the division left to nobody.
NumIterNoRem(q, d) ==
    IF d = call.d - 1 THEN Base(Units(q, d)) ELSE Units(q, d)

\* num_iterations(d): the outermost loop is divided among the QPUs.
NumIter(q, d) ==
    IF d = call.d - 1 THEN Share(QNum(q), Units(q, d)) ELSE Units(q, d)

\* A vector's offset in groups where elements are meant.
BlockOffsetInGroups(q) == Start(QNum(q), Units(q, call.d - 1))

\* What QPU q adds to every slice start of the outermost dimension.
BlockOffset(q) ==
    Start(QNum(q), Units(q, call.d - 1)) * (IF call.d = 1 THEN GROUP ELSE 1)

Shifted(q, d, start) == start + (IF d = call.d - 1 THEN BlockOffset(q) ELSE 0)

\* The VPM row of tile k, in the three setup words that select it: rb1 is added
\* to the y field of vpm_setup (bit 0), rb2 to that of vdr_h32 (bit 4), rb3 to
\* that of dma_h32 (bit 7).
Rb1(q) == QNum(q) * TILES

\* rb2 with QPUs half a band apart, the shift the comments still give.
Rb2Stale(q) == QNum(q) * (TILES \div 2) * 16
Rb2(q) == QNum(q) * TILES * 16
Rb3(q) == QNum(q) * TILES * 128

VpmRow(q, k)   == (Rb1(q) + k) % ROWS
LoadRow(q, k)  == ((Rb2(q) \div 16) + k) % ROWS
StoreRow(q, k) == ((Rb3(q) \div 128) + k) % ROWS

-----------------------------------------------------------------------------

Init ==
    /\ call \in Calls
    /\ unif = [q \in QPU |-> HostUniforms(call, q)]
    /\ pc = [q \in QPU |-> "preamble"]
    /\ pos = [q \in QPU |-> 0]
    /\ stride = [q \in QPU |-> [d \in Dims |-> 0]]
    /\ ptr = [q \in QPU |-> [i \in Inputs |-> 0]]
    /\ outp = [q \in QPU |-> 0]
    /\ counter = [q \in QPU |-> [d \in Dims |-> 0]]
    /\ acc = [q \in QPU |-> [k \in Tiles |-> [l \in Lanes |-> Junk]]]
    /\ vpm = [r \in 0 .. ROWS - 1 |-> [l \in Lanes |-> Junk]]
    /\ load = [q \in QPU |-> None]
    /\ store = [q \in QPU |-> None]
    /\ mem = [a \in {} |-> Junk]

GoTo(q, label, n) ==
    /\ pc' = [pc EXCEPT ![q] = label]
    /\ pos' = [pos EXCEPT ![q] = n]

\* Is pos[q] the outermost dimension?  And the same one too far.
PastOutermost(q) == pos[q] = call.d
Outermost(q)     == pos[q] = call.d - 1

\* The preamble reads the base pointers.
Preamble(q) ==
    /\ pc[q] = "preamble"
    /\ ptr' = [ptr EXCEPT ![q] = [i \in Inputs |-> unif[q][UPtr(call, i)]]]
    /\ outp' = [outp EXCEPT ![q] = unif[q][UOut(call)]]
    /\ GoTo(q, "setup", 0)
    /\ UNCHANGED <<call, unif, stride, counter, acc, vpm, load, store, mem>>

\* Stride of dimension d, and the slice start of that dimension added to every
\* pointer.  After the last one every loop counter is loaded.
SetupDim(q) ==
    LET d == pos[q]
        width == IF d = 0 THEN 4 ELSE Mul24(stride[q][d - 1], Dim(q, d - 1))
        Moved(p, start) == (p + Mul24(Shifted(q, d, start), width)) % WORD
    IN  /\ pc[q] = "setup"
        /\ stride' = [stride EXCEPT ![q][d] = width]
        /\ ptr' = [ptr EXCEPT ![q] =
                     [i \in Inputs |-> Moved(ptr[q][i], unif[q][UStart(call, i, d)])]]
        /\ outp' = [outp EXCEPT ![q] = Moved(outp[q], unif[q][UOutStart(call, d)])]
        /\ counter' = IF Outermost(q) THEN [counter EXCEPT ![q] = [e \in Dims |-> NumIter(q, e)]]
                                    ELSE counter
        /\ IF Outermost(q) THEN GoTo(q, "body", 1) ELSE GoTo(q, "setup", d + 1)
        /\ UNCHANGED <<call, unif, acc, vpm, load, store, mem>>

-----------------------------------------------------------------------------
(* The innermost body: one group of TILES tiles.                           *)

Step(q) == call.steps[pos[q]]
InBody(q) == pc[q] = "body" /\ pos[q] \in 1 .. Len(call.steps)

ScalarValue(q, si) == Imm(unif[q][UScalar(call, si)])

\* The operand of a step, from the word the VPM holds for a tensor.
Operand(q, st, x) ==
    IF st.ti = None THEN ScalarValue(q, st.si)
    ELSE IF st.si = None THEN x
    ELSE Alu("mul", x, ScalarValue(q, st.si))

Accumulate(st, old, x) == IF st.init THEN x ELSE Alu(st.op, old, x)

\* A scalar is broadcast to all the accumulators.
ScalarStep(q) ==
    /\ InBody(q) /\ Step(q).ti = None
    /\ acc' = [acc EXCEPT ![q] = [k \in Tiles |-> [l \in Lanes |->
                 Accumulate(Step(q), acc[q][k][l], Operand(q, Step(q), Junk))]]]
    /\ GoTo(q, "body", pos[q] + 1)
    /\ UNCHANGED <<call, unif, regs, vpm, load, store, mem>>

\* vr_setup, vr_addr: the load of the group at curr_ptr(ti) begins.
IssueLoad(q) ==
    /\ InBody(q) /\ Step(q).ti # None
    /\ load' = [load EXCEPT ![q] = ptr[q][Step(q).ti]]
    /\ GoTo(q, "take", pos[q])
    /\ UNCHANGED <<call, unif, regs, acc, vpm, store, mem>>

\* The DMA engine brings the group into the QPU's rows.
DmaLoad(q) ==
    /\ load[q] # None
    /\ vpm' = [r \in 0 .. ROWS - 1 |->
                 IF \E k \in Tiles : r = LoadRow(q, k)
                 THEN LET k == CHOOSE k \in Tiles : r = LoadRow(q, k)
                      IN  [l \in Lanes |-> Fetch(WordAt(load[q], k, l))]
                 ELSE vpm[r]]
    /\ load' = [load EXCEPT ![q] = None]
    /\ UNCHANGED <<call, unif, pc, pos, regs, acc, store, mem>>

NoWait(q) == TRUE
VrWait(q) == load[q] = None
VwWait(q) == store[q] = None

\* After vr_wait the tiles are read and combined into the accumulators.
TakeTiles(q) ==
    /\ pc[q] = "take" /\ VrWait(q)
    /\ acc' = [acc EXCEPT ![q] = [k \in Tiles |-> [l \in Lanes |->
                 Accumulate(Step(q), acc[q][k][l],
                            Operand(q, Step(q), vpm[VpmRow(q, k)][l]))]]]
    /\ GoTo(q, "body", pos[q] + 1)
    /\ UNCHANGED <<call, unif, regs, vpm, load, store, mem>>

\* The accumulators go back to the QPU's rows.
PackTiles(q) ==
    /\ pc[q] = "body" /\ pos[q] = Len(call.steps) + 1
    /\ vpm' = [r \in 0 .. ROWS - 1 |->
                 IF \E k \in Tiles : r = VpmRow(q, k)
                 THEN acc[q][CHOOSE k \in Tiles : r = VpmRow(q, k)]
                 ELSE vpm[r]]
    /\ GoTo(q, "pack", pos[q])
    /\ UNCHANGED <<call, unif, regs, acc, load, store, mem>>

\* vw_setup, vw_addr: the store of the group to the output begins.
IssueStore(q) ==
    /\ pc[q] = "pack" /\ VwWait(q)
    /\ store' = [store EXCEPT ![q] = outp[q]]
    /\ GoTo(q, "drain", pos[q])
    /\ UNCHANGED <<call, unif, regs, acc, vpm, load, mem>>

\* The words a group at address a occupies.
GroupWords(a) == { WordAt(a, k, l) : k \in Tiles, l \in Lanes }

\* The DMA engine writes the QPU's rows to memory.
DmaStore(q) ==
    /\ store[q] # None
    /\ mem' = [a \in DOMAIN mem \cup GroupWords(store[q]) |->
                 IF a \in GroupWords(store[q])
                 THEN LET t == CHOOSE t \in Tiles \X Lanes :
                                  a = WordAt(store[q], t[1], t[2])
                      IN  vpm[StoreRow(q, t[1])][t[2]]
                 ELSE mem[a]]
    /\ store' = [store EXCEPT ![q] = None]
    /\ UNCHANGED <<call, unif, pc, pos, regs, acc, vpm, load>>

\* After vw_wait every pointer moves on by the 512 bytes of a group.
Advance(q) ==
    /\ pc[q] = "drain" /\ VwWait(q)
    /\ ptr' = [ptr EXCEPT ![q] = [i \in Inputs |-> (ptr[q][i] + 4 * GROUP) % WORD]]
    /\ outp' = [outp EXCEPT ![q] = (outp[q] + 4 * GROUP) % WORD]
    /\ GoTo(q, "loop", 0)
    /\ UNCHANGED <<call, unif, stride, counter, acc, vpm, load, store, mem>>

-----------------------------------------------------------------------------
(* The end of the body of loop d = pos[q].                                 *)

\* What the inner loop moved the pointers by.
InnerTravel(q, d) ==
    Mul24(NumIter(q, d - 1), IF d = 1 THEN 4 * GROUP ELSE stride[q][d - 1])

\* No correction: the pointers run on from the end of the inner row.
CorrectionMissing(q, d) == 0

\* From the end of the inner rows to the next index of dimension d.
Correction(q, d) == IF d = 0 THEN 0 ELSE stride[q][d] - InnerTravel(q, d)

Corrected(q, d) ==
    /\ ptr' = [ptr EXCEPT ![q] =
                 [i \in Inputs |-> (ptr[q][i] + Correction(q, d)) % WORD]]
    /\ outp' = [outp EXCEPT ![q] = (outp[q] + Correction(q, d)) % WORD]

Decremented(q, d) == (counter[q][d] - 1) % WORD

\* The counters after branching back in loop d: the inner loops keep their zeros.
Continued(q, d) == [counter[q] EXCEPT ![d] = Decremented(q, d)]

\* The counters after branching back in loop d: the inner loops start afresh.
Reentered(q, d) ==
    [e \in Dims |-> IF e < d THEN NumIter(q, e)
                   ELSE IF e = d THEN Decremented(q, d)
                   ELSE counter[q][e]]

\* Branch back while the counter is not zero.
LoopAgain(q) ==
    LET d == pos[q]
    IN  /\ pc[q] = "loop" /\ Decremented(q, d) # 0
        /\ Corrected(q, d)
        /\ counter' = [counter EXCEPT ![q] = Reentered(q, d)]
        /\ GoTo(q, "body", 1)
        /\ UNCHANGED <<call, unif, stride, acc, vpm, load, store, mem>>

\* Fall out of loop d, into the end of the body of loop d + 1 or to thrend.
LoopExit(q) ==
    LET d == pos[q]
    IN  /\ pc[q] = "loop" /\ Decremented(q, d) = 0
        /\ Corrected(q, d)
        /\ counter' = [counter EXCEPT ![q][d] = 0]
        /\ IF Outermost(q) THEN GoTo(q, "done", 0) ELSE GoTo(q, "loop", d + 1)
        /\ UNCHANGED <<call, unif, stride, acc, vpm, load, store, mem>>

-----------------------------------------------------------------------------

QpuStep(q) ==
    \/ Preamble(q)
    \/ SetupDim(q)
    \/ ScalarStep(q)
    \/ IssueLoad(q)
    \/ TakeTiles(q)
    \/ PackTiles(q)
    \/ IssueStore(q)
    \/ Advance(q)
    \/ LoopAgain(q)
    \/ LoopExit(q)

Next == \E q \in QPU : QpuStep(q) \/ DmaLoad(q) \/ DmaStore(q)

\* A QPU that can execute does, and the engine finishes what it was asked.
Fairness == \A q \in QPU : WF_vars(QpuStep(q)) /\ WF_vars(DmaLoad(q) \/ DmaStore(q))

Spec == Init /\ [][Next]_vars /\ Fairness

=============================================================================

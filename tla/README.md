# A TLA+ model of APPiL

APPiL compiles one elementwise tensor assignment into a program for the eight QPUs
of the Raspberry Pi's VideoCore IV, and into a C driver that runs it. This directory
models the parts of the repository whose correctness depends on how things interact:
eight QPUs and a DMA engine sharing one VPM, a kernel and a driver that agree on an
untagged stream of words, the driver against the firmware and the V3D, the
compiler's way from a program's slices to the words a kernel touches and from an
expression tree to one accumulator, the bootloader's two sides over a serial line,
the Game of Life demo that runs over the same line, and the interrupt-safe ring of
libpi. Paths below are relative to the repository root (`src/` here).

## 1. The system

| Part | Code | State | Operations | What makes it right |
|---|---|---|---|---|
| Parser | `src/Parser.cpp` | declared tensors and scalars, slice references | declarations, slices, expressions, the output | slices inside the tensor, one declaration per name, shapes agree |
| Front end, types, CIN | `src/Frontend.cpp`, `src/Type.cpp`, `src/CompileToCIN.cpp` | none | builds trees, merges formats and types | operands have compatible formats |
| Flattening | `src/CompileToLLIR.cpp` 26-105, 445-493 | the list of steps | `flatten_into` | the steps compute the tree |
| Kernel generator, and the kernel | `src/CompileToLLIR.cpp` 108-441, `share/vc4inc/vc4.qinc` | per QPU: registers, counters, pointers, accumulators; shared: VPM, DMA, memory | preamble, loads, arithmetic, stores, loop ends | every output word gets its value, no other word is touched, QPUs keep apart |
| Generated driver | `src/CodeGen.cpp` | `_gpu`, uniforms, handle | `_init`, `_kernel`, `_release` | uniforms match the kernel's reads, memory outlives the programs, nothing leaks |
| Launcher, mailbox | `libpi/src/mailbox.c` | V3D registers, mailbox | `gpu_fft_base_exec_direct`, `mem_*`, `qpu_enable` | returns when all programs have run, and does return |
| Bootloader | `include/custom-bootloader/` | protocol position on both sides, bytes on the line | GET/PUT_PROG_INFO, GET/PUT_CODE, success, error | code runs only if it is the code sent; both sides end |
| UART, echo, end of program | `libpi/src/uart.c`, `libunix/pi-echo.c` | FIFOs, match position | put, get, flush; recognise `DONE!!!` | nothing lost, the end is seen |
| Circular queue | `libpi/libc/circular.h` | ring, head, tail | push, pop, peek, checkpoint | a FIFO for one producer and one consumer |
| Game of Life | `game-of-life/` | frames, handshake | ready byte, initial state, frames | both sides agree on the frame being sent |

**Interaction.** The host runs the compiler; its two outputs meet again on the
Pi, where the driver writes a row of uniforms for each of eight programs,
requests the programs from the V3D and polls a completion count. The programs
never talk to each other: each computes its block of the outermost dimension
from its number, and is separated from the others in the VPM only by constants
derived from it. The bootloader carries the linked binary over the UART first.

**What is hard.** Interleavings of eight programs and a DMA engine over one
VPM; transfers that run beside the program that started them; do-while loops on
wrapping counters; address arithmetic that must agree across nested loops; state
that outlives a call (caches, completion count, GPU memory); partial failure of
the three-step initialisation; a serial line that repeats, loses and delays,
with a side that may start again at any moment; an interrupt handler and the
program it interrupts on one ring. `PROJECT.json` lists each hazard with its line.

## 2. Modules

| Module | What it is |
|---|---|
| `WorkSplit` | the division of n indices among NQ QPUs (preamble, lines 175-211 and 228-248) |
| `KernelLayout` | register allocation (129-147), the uniform stream as `CodeGen.cpp` 312-377 writes it and as the preamble (149-173) reads it |
| `QpuKernel` | the kernel program on every QPU, with the DMA engine |
| `ElementwiseMap` | abstract: a set of output words receives its values, in any order, each once and for all |
| `QpuKernelCorrect` | what a call must compute (no pointers, loops or QPUs), and the properties of `QpuKernel` |
| `MCQpuKernel` | calls and machine sizes for TLC |
| `ExprFlatten`, `MCExprFlatten` | `flatten_into`, the compiler's rejections, running the steps; all small trees |
| `KernelCall` | abstract: a call runs every program once on its own arguments, then returns |
| `GpuDriver` | init, kernel, release and the launcher, against firmware and V3D |
| `FrontEnd` | the parser statement by statement, the compiler's checks, the offsets and uniforms that come out; uses `ExprFlatten` |
| `FrontEndCorrect`, `MCFrontEnd` | what a program means, the properties of `FrontEnd`; programs for TLC |
| `FormatMerge`, `MCFormatMerge` | the type of a binary operation: broadcasting and the merge of two orders of levels |
| `BootProtocol`, `MCBootProtocol` | get_code, simple_boot and pi_echo over a faulty line |
| `Life` | abstract: Conway's rule on a board with a fixed border, and what may be shown once bytes are lost |
| `GameOfLife`, `MCGameOfLife` | the demo on the Pi and on the laptop |
| `Fifo` | abstract: a bounded queue whose consumer may mark its place, read on and go back, and which may discard its oldest element when full |
| `CircularQueue` | the ring, access by access, for an interrupt handler and the program it interrupts |
| `QpuKernelProofs`, `ExprFlattenProofs`, `FrontEndProofs`, `GameOfLifeProofs`, `CircularQueueProofs`, `FormatMergeProofs`, `GpuDriverProofs`, `BootProtocolProofs` | theorems |

### QpuKernel

`call` is the kernel call: shapes, slices, addresses and the steps of the
flattened expression. Every QPU has its program position `pc`/`pos`, the
registers of the allocation that outlive a step (`stride`, `ptr`, `outp`,
`counter`, `acc`), and the shared state is `vpm`, the transfers in flight and
`mem`, the words stored so far (a word not yet stored is `Cell(address)`).

| Action | Code (`CompileToLLIR.cpp`) |
|---|---|
| `Preamble`, `SetupDim` | 149-259 and 301-318; one `SetupDim` per dimension: its stride, and its slice start added to every pointer; after the last, all loop counters |
| `ScalarStep` | 325-339, a scalar broadcast to the accumulators |
| `IssueLoad`, `TakeTiles` | 108-121 and 341-378: start the DMA load, wait, read and combine the tiles |
| `PackTiles`, `IssueStore`, `Advance` | 382-396: accumulators to the VPM, wait, start the store, wait, move the pointers |
| `LoopAgain`, `LoopExit` | 400-431, the end of a loop's body: pointer correction, decrement, branch |
| `DmaLoad`, `DmaStore` | the DMA engine, external: a transfer happens at any moment after it was started |

A transfer is one step; everything else about the interleaving of QPUs and
engine is left free, and a QPU may start arbitrarily late, as requested
programs do. Rows of the VPM are computed from the three setup words, each with
its own shift, so that the rows a QPU reads, loads and stores are the same only
if the shifts are right. Arithmetic on addresses is that of the machine
(registers modulo `WORD`, `mul24` on operands modulo `W24`); data words are
opaque terms, so a result is right only if it is the same expression of the
same words. `vw_wait` and `vr_wait` are guards; the second `vr_wait` (378)
follows a load already waited for and adds nothing.

### ExprFlatten

The state machine compiles one tree and runs the steps on numbers. A tree is the
sequence of its nodes, operands before operators, so that what `flatten_into`
computes by recursion is a function on positions, which can be proved about. In
the runs leaves are distinct, because the parser gives each reference to a tensor
a name of its own; the theorems do not need it.

### GpuDriver

Each mailbox request is a step and may fail (`FirmwareError`, the `assert`).
The V3D (external) queues requests, starts the next on a free QPU, reads its
uniforms through caches that may keep them, and counts programs that end. `ran`
and `saw` are history: which arguments a program read.

### FrontEnd

One action per declaration, per beginning and end of an assignment and per
reference in its expression, each with its rejection, as `Parser.cpp` 161-381
goes through the tokens; then `Generate` or `RejectProgram`: the checks of
`Frontend.cpp` 12-15, `analyze_kernel` and the two assertions on register
allocation (`RegistersFit`, `CompileToLLIR.cpp` 147 and 266), all run before
anything is generated. The operators after it are what
`CodeGen.cpp` and the preamble compute from the parser's lists: `Off` (the
macros `_OFF`), `Start`, `Dim`, `Size` (uniforms), `Stride`, and `WordFor`, the
word of `buf` the kernel touches at an index of its loop nest. `FrontEndCorrect`
says which element the program names there, by row-major position and the
declaration in force. A program is a sequence of statements, not of characters;
a reference's generated name is its name with a number at the end, so that names
such as `A_1` can be declared too. `RejectTensor` refuses a tensor without
dimensions. `Part(n)` is the part of `buf` the macros give a name; an output that
is not declared has the words after all tensors.

`Regular` states what the compiler relies on and does not check: no tensor
declared twice, one rank, one row length, slices of one extent inside their
tensors. `ReadsWrittenSlices` and `StoresToWrittenSlice` hold for regular
programs; outside them the uniforms of the first tensor are used for all.

### FormatMerge

`Broadcast` is `compatible_and_broadcast`, `Refuse` the assertion on
`compatible_formats`, and each round of `make_format`'s loop a `Place`. Formats
are any over the levels, not only the parser's d0, d1, ..: only then do orders
conflict.

### BootProtocol

| Action | Code |
|---|---|
| `Ask`, `SeeData` | `get-code.h` 119-151: GET_PROG_INFO, again after each 300 ms without a byte |
| `GetInfo`, `GetArgs`, `Answer`, `GetCode`, `Load`, `Finish` | `get-code.h` 168-233, each read of a message a step, refusals with BOOT_ERROR and `clean_reboot` |
| `Branch` | `main.c` 44-53: reboot if the address returned is 0, otherwise branch to it |
| `RunProgram`, `Reboot` | the program prints and ends with `DONE!!!`; the Pi starts again, its receive FIFO emptied |
| `PrintString`, `DrainGarbage`, `PutProgInfo`, `DrainRepeats`, `PutCode`, `NotGetCode`, `AwaitSuccess` | `put-code.c` 124-260, the steps of `simple_boot` |
| `Timeout` | the tty's 10 seconds, `get_uint8` dies |
| `Echo` | `pi_echo` and `pi_done`, a character a step |
| `Again`, `Fault` | external: the user starts it again; a byte lost or changed, the Pi switched off and on, the program killed |

A word is several bytes, so that reading out of step is possible; a damaged length
is any length and a damaged address is 0 or any other, since the header has no
checksum; the checksum itself is ideal (equal only for equal code). At a damaged
address other than 0 there may be no memory, so that the checksum fails, or the Pi
may be lost after the branch. `verified` is the program whose checksum last fitted,
`booted` the one branched to at the address it is linked for, or `Astray`. A
`Timeout` happens only while the Pi is silent: waiting for bytes itself, or running
a program. `calm` tells the behaviours without any fault apart, `restarted` that the
Pi has been reset since the header was sent, `tried` which programs the laptop has
been started with. `Garbage` is what may lie in the tty when the laptop's program is
first started: `Stale` says that it is what a waiting Pi leaves, requests, the first
perhaps cut short or behind characters of a program that has ended. A tty that still
held the end of somebody's successful boot is left out. `src/libunix/pi-echo.c` and
the bootloader's `pi-echo.c` are the same file.

### GameOfLife

`SetRate` and `AwaitReady` to `Show` are the laptop (`my-install.c` 169-181,
`game-of-life-unix.c`), `SendReady` to `Send` the Pi (`run-game-of-life.c`). A
READY sent before the laptop has changed the rate arrives as another byte. A
read takes any number of the bytes there are. The tty holds `TtyBuf` bytes and
drops what does not fit, as nothing on the line stops the Pi. The kernel is the
sum over the eight slices of `game-of-life.appil` as flat offsets; `QpuKernel`
shows a kernel computes such a sum.

### CircularQueue

Every access to `head`, `tail` and the buffer that a barrier orders is a step;
operations on n elements are loops of them. `prod` is the interrupt handler,
`cons` the program. The model lets the two interleave freely, more than a
handler that runs to its end would. `CallerStep` is what the program does between
its operations: it disables and enables interrupts (`ints`), takes a checkpoint
(`ckpt`), goes back to it, or no longer needs it. `WillDeadlock` is `cq_pop`'s
panic on an empty queue with interrupts disabled (`circular.h` 94-95).

Three operations break the rule of one mutator per index: `cq_peek_n` moves `tail`
and back, `cq_restore` sets `tail` back, both over slots the producer takes for
free, and `push_w_drop` moves `tail` from the producer's side. The code enforces
nothing; `circular-T.h` asks for interrupts to be disabled around another operation
("not thread safe in current form: need int disable"), `circular.h` around none.
In the model they are used under a condition on the program that calls them, which
is therefore a condition of everything said about the ring: interrupts are disabled
around `cq_peek_n`, from `cq_ckpt` until its checkpoint is given up, and around
every operation of the consumer if the handler pushes with `push_w_drop`.
`Unmasked` names the operations that are used without it: with any of the three in
it TLC finds `NoPanic`, `SlotsApart`, `NoBlockNeverWaits`, `PeekedIsNext` and
`ImplementsFifo` violated.

Left out of `circular.h` and `circular-T.h`: the 32-bit wrappers, which are
`push_n` and the pops with n = 4; what only reads (`_get`, `cq_print`, `cq_ok`);
`_mk`, which is `cq_init`.

## 3. Runs

| Run | Bounds | Shows |
|---|---|---|
| `kernel` | 3 QPUs, groups of 2 tiles of 2 elements, 8 VPM rows, 16-bit words, 12-bit `mul24`; three calls: a vector of 4 groups and 2 elements left over, with a fused scalar, slices at different starts and uneven shares; an in-place product of matrices, uneven shares of rows and an element of each left over; a 3-dimensional slice with two groups a row and a broadcast scalar | `TypeOK`, `ReadsOriginalInput`, `StagedIntact`, `StaysInBlock`, `CountersInRange`, `CompleteAtEnd`; `ImplementsMap` (refinement of `ElementwiseMap`); `Finishes` |
| `kernel_short` | 2 rows for 3 QPUs | violates `StaysInBlock` |
| `flatten` | all trees of up to 4 leaves, tensors or scalars, and of 5 tensors; three assignments | `StepsRight` (`StepsCoverLeaves` and `LinearIsRight`), `OnlyLinearIsRight` |
| `flatten_all` | the same trees | violates `AcceptedIsRight` |
| `driver` | 3 programs, 2 arguments, 2 handles, calls without bound | `TypeOK`, `MemoryHeld`, `NothingLeftBehind`, `ImplementsCall` (refinement of `KernelCall`), `CallReturns` |
| `driver_lock` | the same, and `mem_lock` may fail | violates `MappedIsLocked` |
| `frontend` | tensors `A`, `A_1`, `B` of four shapes of one to three dimensions, a scalar, outputs declared, in place or not declared, five choices of slices (negative, open, missing), four trees; chains of references and scalars, in one to eight dimensions, that just have registers, and with one more; programs in the wrong order, with too much or too little | `TypeOK`, `AcceptsWellFormed`, `ReadsWrittenSlices`, `StoresToWrittenSlice`, `UndeclaredOutputFits`, `PartsApart` |
| `formats` | every pair of formats over four levels | `TypeOK`, `MergesRight` (`NeverStuck` and `OrdersKept`), `MergeEnds` |
| `boot` | words of 2 bytes, a program that fits and one a byte too long, room for 2 bytes, two starts, no faults or up to two, four states of the tty, five outputs, at most 4 unread bytes when the Pi repeats itself | `TypeOK`, `DoneMeansBooted`, `QuietWhenBusy`, `BootsAndEnds`, `LeavesBoot` |
| `life` | 4 x 5 cells in 3 bytes, 12 patterns, 3 generations, a tty of 4 bytes, three states of the tty | `TypeOK`, `BytesAccounted`, `ImplementsLife` (refinement of `Life`), `FramesFlow` |
| `queue` | 4 slots, 2 elements, n up to 3, 16-value words, no bound on the operations; `cq_peek_n`, `cq_restore` and `push_w_drop` with interrupts disabled | `TypeOK`, `NoPanic`, `SlotsApart`, `NoBlockNeverWaits`, `PeekedIsNext`, `ImplementsFifo` (refinement of `Fifo`), `WaitsOnlyWhenEmpty` |
| `queue_peek` | the same, `cq_peek_n` with interrupts enabled | violates `PeekAssertHolds` |

**Why the bounds are enough.** Three QPUs give a first, a middle and a last block,
and shares that differ by the remainder; two tiles of two lanes are the least that
tell a tile from a lane and a group from a tile; two groups a row and two rows a
block make every loop both branch back and fall through at every nesting level, and
a slice narrower than its tensor makes each correction different from zero.
`RegularCalls` has TLC check that the three calls are among those the theorems are
about. 12-bit `mul24` in 16-bit words is never exceeded by these calls, as the 24
and 32 bits of the machine are not by sensible ones. In `flatten`, the case of two
operands that both take several steps needs four leaves, and a fifth puts it under
another operator. `driver` has no bound on the number of calls: a second call is
what stale state needs. In `frontend`, three references are what a step order
different from the written order needs, and the slices cover each way a bound can be
written; regular and irregular programs both occur. Four levels are the least for
two orders that share two levels and each have one of their own, where a cycle
through both could close. In `boot`, two bytes a word are enough to be out of step,
a second start meets what the first left behind, and two faults are a lost byte and
a reset, or two starts of the Pi within one of the laptop; the outputs leave
`pi_done` at the start of the exit string or inside it, after one character and
after two. In `life` the last byte is half empty, patterns reach the border, and the
tty is smaller than two frames, so that frames are torn. In `queue` n = 3 fills the
ring, and both indices wrap.

**Fairness.** `QpuKernel`: weak fairness of every QPU's program, which the
hardware runs whether or not others do, and of the engine's transfers for each
QPU. `GpuDriver`: weak fairness of the host inside a kernel call, of the V3D's
start and of the end of each program, which is what `Finishes` says of the
kernel. The client is free never to call. `BootProtocol`: both programs run on,
and the Pi's polling loop sees a byte that stays there (it looks every 10
microseconds); faults and restarts are never owed. `GameOfLife`: both programs
run on. `CircularQueue`: an operation that has begun goes on; nobody need
call one, and a handler returns to the code it interrupted. `FormatMerge`: the
compiler goes on. Deadlock checking is off where the
system stops: when all QPUs are at `thrend`, when an expression is computed or
rejected, in a panic of the driver or after one of the queue, when a boot or the
bounded number of starts is over, when the generations are, and when a program
has been compiled or refused.

**What the four violations say.** `kernel_short`: with fewer than eight rows, or
fewer than eight groups of a vector, the QPUs without a share run the do-while loops
anyway. `flatten_all`: `flatten_into` emits the right operand first when only it
takes several steps, so `a - (b * c)` becomes `b * c - a`; and it splices the steps
of a right operand onto the left one's, so `a + b - (c + d)` becomes `a + b - c +
d`. `LinearIsRight` and `OnlyLinearIsRight` give the trees that come out right.
`driver_lock`: the test of `mem_lock`'s answer comes after `GPU_BASE` is subtracted,
where a failure is no longer 0. `queue_peek`: a push between the two moves of `tail`
in `cq_peek_n` fails its last assertion, and can overwrite what was peeked at.

**What the passing properties say of weak spots.** Some properties say exactly where
the code stops short. `CompleteAtEnd`: of each row of the output slice the elements
after the last whole group (of 128 on the machine) are never computed nor stored,
because the innermost loop runs `slice_size[0] >> 7` times; the generator says
nothing of it, and `README.md` line 8 names no restriction on sizes. `Leftover` is
the set of these words, in the run and in the theorem. `LeavesBoot` excuses one
case, which is real: once the Pi has started again after the header was sent, by
a BOOT_ERROR or a reset, `simple_boot` waits for ever, kept from its timeout by
the Pi's requests. `BOOTLOADER.md` line 125 says that at an "unexpected or error
message it simply exits with an error"; `put-code.c` 260 reads on.
`BootsAndEnds` excuses outputs that leave `pi_done` inside the exit string (`D`,
`DO`, `DON`, ...): on a mismatch it does not look at the same character as a possible
first one (`pi-echo.c` 15-17), so the real `DONE!!!` after them is not seen
(`Hidden`). `FramesFlow` holds only when READY comes
while the laptop waits: it is sent once, and when it is garbled both sides wait
for ever. `ImplementsLife` lets anything be shown once a byte is dropped,
because the frames after it stay shifted: nothing marks where a frame begins.
`UndeclaredOutputFits` says exactly when an output that is not declared stays
within its words; for other slices the kernel writes past them.

`DoneMeansBooted` says of a reported success that the Pi has received, and checked,
the whole of a program. Without faults it is this run's program, and the Pi has
branched to it at `ARMBASE` or is about to. With faults nothing is said of the
branch: the checksum covers the code and not the header, so an address damaged
to 0 passes the collision test, BOOT_SUCCESS is sent, and `main.c` 46 reboots;
at any other damaged address the program is not where it is linked for.
`BOOTLOADER.md` 56-57 draws a jump to `ARMBASE` there. And the program is one the
laptop was started with, not always the last: no answer says which run it answers.
Take words of one byte, a line of
6, four starts and only kills and power cycles: with four faults the success is
this run's, but five suffice for the following. Two killed runs, of program 2 and
then 1, leave a `GET_CODE` each in the tty, behind requests the Pi repeated. A
third run, of program 2 again, takes the first of them for the answer to its
header, and the Pi receives 2;
killed before it reads so, it is followed by a run of
program 1, which takes the second for its answer, sends the code to a Pi that
runs already, and reads the success of 2 as its own. With at most three faults of
every kind and four starts TLC finds no such behaviour.

## 4. Proofs

The prover checks, for every value of the constants:

* `SplitCovers`, `SplitDisjoint`: the blocks of the QPUs partition the outermost
  dimension. From `DivisionFacts` (quotient and remainder by shifts) and
  `NextStart`: the next start is this start plus this share.
* `StreamAgrees`: for any number of tensors, dimensions and scalars, each read
  of the preamble finds the word the driver meant, and the stream has
  `NUM_UNIFS` words. The stream is built block by block (`AppendBlock`), each
  keeping what was there before.
* `RaInRange`, `RaStartsDistinct`, `RaGroupsApart`, `RbApart`: under the two
  assertions of the generator, the register allocation gives each value a
  register of its own within the file.
* `TypeCorrect` : `Spec => []TypeOK`, one case per action.
* `StagedSafe` : `Spec => []StagedIntact`. `StagedIntact` is not inductive
  alone: `IInv` adds `TypeOK`, `UnifOK` (the streams are the driver's, so the
  QPU number a program reads is its own) and `InFlight` (a transfer is in flight
  only while its QPU waits for it). `SameRows` shows that the three setup words
  select row `q * TILES + k`, `RowsDistinct` that no two QPUs share one.
* `CountersSafe` : `Spec => []CountersInRange`, assuming that no share is empty
  (`FullShares`); `kernel_short` shows the assumption is needed. The invariant
  `CountersOK` covers the loops still running while the QPU is at the end of an
  inner one.
* That the kernel computes the elementwise map: `BlockSafe` (`StaysInBlock`),
  `ReadsSafe` (`ReadsOriginalInput`), `MapImplemented`
  (`ImplementsMap`, the refinement of `ElementwiseMap`) and
  `NothingLeftOut` (`CompleteAtEnd`: all is stored but what follows the last whole
  group of each row), for any number of QPUs, tiles, lanes, dimensions, tensors
  and steps. See below.

**The map.** The theorems are about calls that are `Regular`:

| Part | What it asks | Without it |
|---|---|---|
| `FullShares` | no loop of a QPU is empty | the do-while loops wrap (`kernel_short`) |
| `Addressable` | slices inside their tensors, tensors inside the memory, strides and extents below 2^24 | `mul24` drops bits, or pointers wrap into other words |
| `InPlaceOrApart` | an input slice is the output slice or has no word of it | a QPU reads what another has already stored; the result depends on their speed |

The generator checks none of them; `C[:] = A[:] + B[:]` with separate tensors, or
one of them the output, has the third. `CallOK` says of every call that its first
step sets the accumulators, as every list `flatten_into` returns does
(`StepsCoverLeaves`), and `MachineAssumption` that `mul24`'s operands are not
wider than a register.

The invariant `MapInv` follows each QPU's group of elements through the loops.
`AtBody` reads the group's coordinates off the loop counters, `AtLoop` those the
pointers stand for at the end of the body of a loop, when an inner loop has left
them one past its last index. `PointersOK` says that every pointer is the address
of that group of its slice (during the preamble: the base and the slice starts
added so far), so the correction at the end of each loop, in wrapping arithmetic,
has to be the distance `Travel` from the end of one row to the next. `TransferOK`
ties the transfers to the pointers; with `LaneInShare` this is `BlockSafe`.
`StoredBehind` says that what is stored of a QPU's block has lower addresses than
its present group, because no correction moves back (`TravelFacts`). An operand's
words are therefore unwritten when they are read (`OperandUnwritten`), in place
because they are ahead, otherwise because they are outside the output, and no
other QPU's transfer touches the rows (`BandWrites`): `ReadsSafe`. Then `AccOK`,
the accumulators hold the expression step by step at the elements of the group,
and `MemoryOK`, memory holds reference values only, are inductive, and each step
is a `Fill` of the abstract map or a stutter. `NothingLeftOut` adds
`PassedStored`: a QPU has stored every group of its part that comes before its
place in the order of the loops. The next place passes the present group and no
other (`BeforeNext`, `BeforeOnward`), the last passes all (`AllBeforeEnd`), and
the parts cover the whole groups of the slice (`GroupOfIndex`, from `SplitCovers`).

Under it lie lemmas on offsets in a tensor of any number of dimensions: the
row-major position is the sum of coordinates times strides (`LinearIsOffset`),
changing a coordinate moves by its stride (`OffsetShift`), and different elements
have different addresses (`OffsetInjective`). They are inductions over the
dimensions. The library's induction theorems are out of the prover's reach, as
they take a predicate for a parameter; `UpTo` says the same with a set in its
place, from the least element of a set of numbers, and `AffineSequence` and
`ValuesExist` that the recursive functions used are defined.

The other components:

* `GpuDriverProofs`: `TypeCorrect`, `HoldsMemory` (if `mem_lock` does not fail:
  the run `driver_lock` shows why), `LeavesNothing`, and `KeepsPromise`, that the
  driver with the V3D refines `KernelCall`. `IInv` adds to `TypeOK` what the
  firmware holds at each place of the driver (`FirmwareInv`), that the rows written
  are this call's (`RowsInv`), and that each requested program is exactly one of
  queued, running and ended, all counted, with this call's arguments in what it
  read (`ProgramsInv`). The return after `count = NQ` then means that `ran`
  has every program, by cardinality.
* `CircularQueueProofs`, for every ring whose size divides 2^32, when `cq_peek_n`,
  `cq_restore` and `push_w_drop` are used with interrupts disabled (`Unmasked = {}`;
  section 2 says what that asks of the program, and `queue_peek` shows why):
  `TypeCorrect`, `NeverPanics`, `SidesApart`, `CountedNeverWaits`, `PeekTrue` and
  `RingIsFifo`, the refinement of `Fifo`. The invariant says of each place of either
  side what it still knows of the other's index (`ProdInv`, `ConsInv`, `PeekInv`):
  space counted stays, elements counted stay; and of the program between its
  operations (`CallerInv`) that no push is under way while interrupts are off, that
  they are off while a checkpoint is held, and that the consumer, at `Reader`, is
  then between the checkpoint and `head`: the queue starts at `Front`. `RingFacts`
  turns the modular arithmetic into cases, and the `View` lemmas say what storing
  and moving an index do to the sequence of waiting elements.
* `BootProtocolProofs`, for words of any length, any programs, room, line, outputs
  and number of starts and faults: `TypeCorrect`, `QuietTheorem` and `DoneTrue`. Two
  invariants carry them. `SInv` holds whatever is lost, changed or switched off: a
  byte of a BOOT_SUCCESS is on the line only after a checksum has fitted, bytes of
  code come from programs tried, so that the checksum admits none but those.
  `Lockstep` is about behaviours without faults, where the two sides are always in
  one of seven phases (`Idle`, `HeaderSent`, `Refused`, `CodeWanted`, `CodeSent`,
  `Succeeded`, `Echoing`); each says what both lines hold, up to repeated requests
  and what earlier runs left (`Left`). Why garbage never hides a phase is the lemma
  family on `Stale`: reading a word and a byte from what a waiting Pi leaves either
  finds the request or leaves such a line again.
* `FormatMergeProofs`, for any set of levels and any formats: `TypeCorrect`,
  `NeverCycles`, `KeepsOrders`, together `Merges`. `SomeFree` is the argument: take
  the outermost remaining level of one order; if the other puts one before it, take
  that order's outermost, and compatibility on the common levels excludes a circle.
  `IInv` says that the operands have the same levels and no discordant pair, and
  that what is placed precedes nothing wrongly.
* `ExprFlattenProofs`, for any expressions and any numbers for their leaves:
  `CoversLeaves` and `LinearComputed`, together `Flattens`. What the steps of a node
  are is an induction on its position, an operand standing before its operator
  (`EachFromEarlier`):
  they are a block whose first step sets the accumulator (`FlattenBlock`), they
  compute the node's value where it is linear (`LinearComputes`), and applied to an
  accumulator they add it where it is additive (`AdditiveAdds`), which is what
  splicing relies on. `Running` carries it through the run, step by step.
* `FrontEndProofs`, for any programs: `TypeCorrect`, `Accepts`, `ReadsSlices`,
  `StoresSlice`, `UndeclaredFits`, `KeepsApart`. The invariant `Inv` says that the
  parser's lists are what the statements already read make of them (`DeclsOK`,
  `RefsOK`, `LeavesOK`), so the checks at the end, with the sums of the two register
  assertions, decide what `WellFormed` says of the program (`Accepts`). The rest is
  arithmetic in any number of dimensions. The kernel adds strides innermost
  dimension first, the reference multiplies outermost first: `Horner`. An index
  inside the dimensions has its position below their product (`PositionWithin`). The
  last element of a slice is below the product of its extents exactly when the slice
  is contiguous (`PieceFits`, `FitsIsPiece`). The sum of sizes in a macro `_OFF`
  grows past each tensor it passes (`BeforeGrows`).
* `GameOfLifeProofs`, for boards, ttys and initial states of any size: `TypeCorrect`,
  `AccountsForBytes` (`BytesAccounted`) and `LifeImplemented`, the refinement of
  `Life`. `CountIsSum` shows that the eight flat offsets are the neighbours of a cell,
  `PackFacts` that unpacking undoes packing. The invariant is `Stream`: while nothing
  has been dropped, what the laptop holds of a frame, what waits in the tty and what
  the Pi has still to send are whole frames, each the generation after the one
  before, from the one shown to the Pi's own. A frame read in full is then
  the next generation, wherever the reads were cut.

The theorems rest on `NQAssumption`, `MachineAssumption`, `CallsAssumption`
(positive sizes, bands that fit the VPM, arguments that are words),
`DriverAssumption`, `RingAssumption`, `FormatsAssumption`, `BootAssumption`,
`LineAssumption`, `ExprAssumption` (expressions are trees, leaves have numbers),
`ProgramsAssumption` (programs are sequences of statements) and `DemoAssumption`,
which TLC evaluates on its instances. What the code relies on and does not check is
a hypothesis where it is needed: that all calls are `Regular` in the theorems about
the map, that a program is `Regular` within the properties of `FrontEnd`, that
`mem_lock` does not fail or interrupts are disabled around an operation in the
theorems named above.

Model-checked only:

* the liveness properties, which are out of the prover's reach. Of `Finishes`
  the half that says what is written at the end is `NothingLeftOut`; that the end
  comes is not proved.
* `OnlyLinearIsRight`, which is not true of every value of the constants: an
  assignment in `Envs` may hide a wrong result (all leaves 0), and where a leaf
  repeats, a tree that is not linear may still come out right, such as
  `(a - a) - b * c`. The run's three assignments tell the trees it has apart.

## 5. Not modelled

Text: the lexer, operator precedence, the printer, names of files and macros. A
statement is told from its first two tokens (`Parser.cpp` 346), so that an
expression that begins with a slice is taken for an output; statements of the model
are already told apart.
The bodies of the IR classes. DMA transfers word by word, bus errors, and the
order in which one engine serves several QPUs (any order is allowed).
Arithmetic on data: floating point, and `mul24` for `INT32` tensors. The mailbox
handshake word by word: a request and its answer are one step, since the driver
never has two on the way. The UART's and the GPIO's registers, start-up code,
caches, timers and libc, which are register writes and library functions without
state that interacts. Options, file reading and the search for a tty on the
laptop. Hand-written kernels under `tests/` and the copies under `benchmark/` and
`game-of-life/` of generated code. Panic resets the Pi; what the firmware does
then is left out.

More than half of the repository's lines are third-party (libm alone is about
22,000 of 40,000, and libc, the printf and random of libpi and the headers come
on top), which is why the share of lines the modules map stays small: what is
mapped is the part written for this program in which state changes in more than
one place.

## 6. Plan

1. The composition of `FrontEnd` and `QpuKernel`: calls generated from programs
   instead of given, and the programs whose calls are `Regular`.
2. The mailbox channel with late answers, a lost completion, and a client that
   misuses the driver.
3. For expressions as polynomials in their leaves instead of their values under
   given assignments, that only linear ones come out right.

----------------------------- MODULE GameOfLife -----------------------------
(***************************************************************************)
(* The Game of Life demo: the Pi's run-game-of-life.c and the laptop's     *)
(* my-install.c, once the program is booted, with game-of-life-unix.c.     *)
(*                                                                         *)
(* A byte carries Bits cells.  Nothing on the line slows the Pi down: what *)
(* it sends while the laptop is busy with a frame waits in the tty, which  *)
(* holds TtyBuf bytes and drops the rest.                                  *)
(***************************************************************************)
EXTENDS Integers, Sequences, SequencesExt

CONSTANTS Rows, Cols,
          Bits,        \* cells in a byte (8)
          Grids,       \* initial states
          Stale,       \* what may lie in the tty when the program is booted
          TtyBuf,      \* bytes the tty holds
          MaxGen       \* bound: generations

Total == Rows * Cols
PackedBytes == (Total + Bits - 1) \div Bits
Cells == 0 .. Total - 1

ASSUME DemoAssumption ==
    /\ Rows \in Nat \ {0} /\ Cols \in Nat \ {0} /\ Bits \in Nat \ {0}
    /\ Grids \subseteq [Cells -> {0, 1}]
    /\ Stale \subseteq Seq([0 .. Bits - 1 -> {0, 1}])
    /\ TtyBuf \in Nat \ {0} /\ MaxGen \in Nat

VARIABLES host,      \* [pc, grid, packed, shown]
          pi,        \* [pc, a, b, packed, gen]
          toPi,      \* bytes not yet read by the Pi
          tty,       \* bytes not yet read by the laptop
          lost,      \* bytes of frames the tty has dropped
          greeted    \* READY came when the laptop could read it, and only then

vars == <<host, pi, toPi, tty, lost, greeted>>

-----------------------------------------------------------------------------
(* Bytes, of READY_SIGNAL (0xAB), of a byte out of place and of cells.      *)

Byte  == [0 .. Bits - 1 -> {0, 1}]
READY == [bit \in 0 .. Bits - 1 |-> IF bit \in {0, 1, 3, 5, 7} THEN 1 ELSE 0]
Junk  == [bit \in 0 .. Bits - 1 |-> 0]

\* Mutant: bit 7 first.
PackReversed(g) ==
    [k \in 1 .. PackedBytes |-> [bit \in 0 .. Bits - 1 |->
        LET idx == (k - 1) * Bits + (Bits - 1 - bit)
        IN IF idx < Total THEN g[idx] ELSE 0]]
Pack(g) ==
    [k \in 1 .. PackedBytes |-> [bit \in 0 .. Bits - 1 |->
        LET idx == (k - 1) * Bits + bit IN IF idx < Total THEN g[idx] ELSE 0]]
Unpack(p) == [idx \in Cells |-> p[idx \div Bits + 1][idx % Bits]]

Init ==
    /\ \E g \in Grids : host = [pc |-> "boot", grid |-> g, packed |-> << >>, shown |-> 0]
    /\ pi = [pc |-> "init", a |-> [i \in Cells |-> 0], b |-> [i \in Cells |-> 0],
             packed |-> << >>, gen |-> 0]
    /\ toPi = << >> /\ tty \in Stale
    /\ lost = 0 /\ greeted = ~Contains(tty, READY)

-----------------------------------------------------------------------------
(* The laptop.                                                             *)

\* my-install changes the rate after the boot and hands over to the program,
\* which reads the initial state.
SetRate ==
    /\ host.pc = "boot"
    /\ host' = [host EXCEPT !.pc = "ready"]
    /\ UNCHANGED <<pi, toPi, tty, lost, greeted>>

\* Mutant: a byte that is not READY ends the wait.
AwaitReadyOnce ==
    /\ host.pc = "ready" /\ tty # << >>
    /\ tty' = Tail(tty)
    /\ host' = [host EXCEPT !.pc = IF tty[1] = READY THEN "frames" ELSE "failed"]
    /\ toPi' = IF tty[1] = READY THEN toPi \o Pack(host.grid) ELSE toPi
    /\ UNCHANGED <<pi, lost, greeted>>

AwaitReady ==
    /\ host.pc = "ready" /\ tty # << >>
    /\ tty' = Tail(tty)
    /\ IF tty[1] = READY
       THEN host' = [host EXCEPT !.pc = "frames"] /\ toPi' = toPi \o Pack(host.grid)
       ELSE UNCHANGED <<host, toPi>>
    /\ UNCHANGED <<pi, lost, greeted>>

\* Mutant: a read asks for a whole frame whatever it has.
ReadPastEnd ==
    /\ host.pc = "frames" /\ Len(host.packed) < PackedBytes
    /\ \E n \in 1 .. Len(tty) :
         /\ n <= PackedBytes
         /\ host' = [host EXCEPT !.packed = @ \o SubSeq(tty, 1, n)]
         /\ tty' = SubSeq(tty, n + 1, Len(tty))
    /\ UNCHANGED <<pi, toPi, lost, greeted>>

\* Mutant: a read starts the frame again.
ReadOver ==
    /\ host.pc = "frames"
    /\ \E n \in 1 .. Len(tty) :
         /\ Len(host.packed) + n <= PackedBytes
         /\ host' = [host EXCEPT !.packed = SubSeq(tty, 1, n)]
         /\ tty' = SubSeq(tty, n + 1, Len(tty))
    /\ UNCHANGED <<pi, toPi, lost, greeted>>

\* read() returns what there is, up to the rest of the frame.
Read ==
    /\ host.pc = "frames"
    /\ \E n \in 1 .. Len(tty) :
         /\ Len(host.packed) + n <= PackedBytes
         /\ host' = [host EXCEPT !.packed = @ \o SubSeq(tty, 1, n)]
         /\ tty' = SubSeq(tty, n + 1, Len(tty))
    /\ UNCHANGED <<pi, toPi, lost, greeted>>

\* Unpack the frame and write it to the visualizer, however long that takes.
Show ==
    /\ host.pc = "frames" /\ Len(host.packed) = PackedBytes
    /\ host' = [host EXCEPT !.grid = Unpack(host.packed), !.packed = << >>, !.shown = @ + 1]
    /\ UNCHANGED <<pi, toPi, tty, lost, greeted>>

-----------------------------------------------------------------------------
(* The Pi.                                                                 *)

\* game_of_life_init, uart_init, which empties the receive FIFO, and one READY.
\* At the wrong rate the laptop sees another byte.
SendReady ==
    /\ pi.pc = "init"
    /\ pi' = [pi EXCEPT !.pc = "fill"]
    /\ \E k \in 0 .. Len(toPi) : toPi' = SubSeq(toPi, k + 1, Len(toPi))
    /\ tty' = Append(tty, IF host.pc = "boot" THEN Junk ELSE READY)
    /\ greeted' = (greeted /\ host.pc # "boot")
    /\ UNCHANGED <<host, lost>>

Fill ==
    /\ pi.pc = "fill" /\ toPi # << >>
    /\ toPi' = Tail(toPi)
    /\ LET p == Append(pi.packed, toPi[1])
       IN pi' = IF Len(p) < PackedBytes THEN [pi EXCEPT !.packed = p]
                ELSE [pi EXCEPT !.pc = "kernel", !.packed = << >>, !.a = Unpack(p)]
    /\ UNCHANGED <<host, tty, lost, greeted>>

InnerCells == {r * Cols + c : r \in 1 .. Rows - 2, c \in 1 .. Cols - 2}

\* The slices A[0:-2, 0:-2] to A[2:, 2:] at cell i of B[1:-1, 1:-1].
Around(a, i) ==
    a[i - Cols - 1] + a[i - Cols] + a[i - Cols + 1]
      + a[i - 1] + a[i + 1]
      + a[i + Cols - 1] + a[i + Cols] + a[i + Cols + 1]

\* game_of_life_kernel.  Outside the slice B keeps what it has.
Kernel ==
    /\ pi.pc = "kernel" /\ pi.gen < MaxGen
    /\ pi' = [pi EXCEPT !.pc = "rule",
                !.b = [i \in Cells |-> IF i \in InnerCells THEN Around(pi.a, i) ELSE pi.b[i]]]
    /\ UNCHANGED <<host, toPi, tty, lost, greeted>>

\* Mutant: no cell is born.
LivesOn(i) == pi.a[i] = 1 /\ pi.b[i] \in {2, 3}
Lives(i) == pi.b[i] = 3 \/ (pi.b[i] = 2 /\ pi.a[i] = 1)

\* The rule, in place, and the frame to send.
Rule ==
    /\ pi.pc = "rule"
    /\ LET a == [i \in Cells |-> IF i \notin InnerCells THEN pi.a[i]
                                 ELSE IF Lives(i) THEN 1 ELSE 0]
       IN pi' = [pi EXCEPT !.pc = "send", !.a = a, !.packed = Pack(a), !.gen = @ + 1]
    /\ UNCHANGED <<host, toPi, tty, lost, greeted>>

\* uart_put8 of one byte of the frame.
Send ==
    /\ pi.pc = "send"
    /\ IF Len(tty) < TtyBuf
       THEN tty' = Append(tty, pi.packed[1]) /\ UNCHANGED lost
       ELSE lost' = lost + 1 /\ UNCHANGED tty
    /\ pi' = [pi EXCEPT !.packed = Tail(@),
                        !.pc = IF Len(pi.packed) = 1 THEN "kernel" ELSE "send"]
    /\ UNCHANGED <<host, toPi, greeted>>

-----------------------------------------------------------------------------
HostStep == SetRate \/ AwaitReady \/ Read \/ Show
PiStep == SendReady \/ Fill \/ Kernel \/ Rule \/ Send
Next == HostStep \/ PiStep

Spec == Init /\ [][Next]_vars

\* Both programs run on.
FairSpec == Spec /\ WF_vars(HostStep) /\ WF_vars(PiStep)

-----------------------------------------------------------------------------
(* Properties.                                                             *)

\* Cells are cells, frames are no longer than their buffers, and the laptop
\* holds no more of a frame than read_pi_output has room for.
TypeOK ==
    /\ host \in [pc : {"boot", "ready", "frames"}, grid : [Cells -> {0, 1}],
                 packed : Seq(Byte), shown : Nat]
    /\ pi \in [pc : {"init", "fill", "kernel", "rule", "send"}, a : [Cells -> {0, 1}],
               b : [Cells -> 0 .. 8], packed : Seq(Byte), gen : 0 .. MaxGen]
    /\ Len(host.packed) <= PackedBytes /\ Len(pi.packed) <= PackedBytes
    /\ toPi \in Seq(Byte) /\ Len(toPi) <= PackedBytes
    /\ tty \in Seq(Byte) /\ lost \in Nat /\ greeted \in BOOLEAN

\* The line makes up no byte and loses none it does not count: if READY came when
\* the laptop could read it, every byte of the frames the Pi has begun is shown, held, waiting,
\* still to be sent or dropped.
BytesAccounted ==
    greeted /\ host.pc = "frames" =>
        host.shown * PackedBytes + Len(host.packed) + Len(tty) + lost
          + (IF pi.pc = "send" THEN Len(pi.packed) ELSE 0) = pi.gen * PackedBytes

\* What the laptop shows is Conway's Game of Life from the initial state, every
\* generation once and in order, until the tty drops a byte: packing, the kernel's
\* flat offsets, the rule applied in place and the way back do not change a cell.
Shown == INSTANCE Life WITH board <- host.grid, lossy <- (lost > 0 \/ ~greeted)
ImplementsLife == Shown!Spec

\* When READY comes while the laptop waits for it, every byte of every frame that
\* the tty does not drop is shown, in as many frames as they fill; junk before
\* READY and bytes lost later do not stop the two.
FramesFlow == <>[](~greeted \/ host.shown = (MaxGen * PackedBytes - lost) \div PackedBytes)
=============================================================================

-------------------------------- MODULE Life --------------------------------
(***************************************************************************)
(* Conway's Game of Life as the program's user sees it: a board whose      *)
(* border cells are fixed, shown generation after generation.  Once bytes  *)
(* have been lost on the serial line what is shown can be anything.        *)
(***************************************************************************)
EXTENDS Integers, FiniteSets

CONSTANTS Rows, Cols

VARIABLES board,      \* what is shown
          lossy       \* bytes have been lost

Row == 0 .. Rows - 1
Col == 0 .. Cols - 1
Cell(r, c) == r * Cols + c
Board == [0 .. Rows * Cols - 1 -> {0, 1}]

Alive(b, r, c) == b[Cell(r, c)] = 1
Neighbours(r, c) == {n \in {r - 1, r, r + 1} \X {c - 1, c, c + 1} : n # <<r, c>>}
Count(b, r, c) == Cardinality({n \in Neighbours(r, c) : Alive(b, n[1], n[2])})

Inner(r, c) == r \in Row \ {0, Rows - 1} /\ c \in Col \ {0, Cols - 1}

Survives(b, r, c) ==
    \/ ~Inner(r, c) /\ Alive(b, r, c)
    \/ Inner(r, c) /\ Count(b, r, c) = 3
    \/ Inner(r, c) /\ Count(b, r, c) = 2 /\ Alive(b, r, c)

Init == board \in Board /\ lossy \in BOOLEAN

Generation ==
    /\ ~lossy /\ UNCHANGED lossy
    /\ board' \in Board
    /\ \A r \in Row, c \in Col : Alive(board', r, c) <=> Survives(board, r, c)

Lose == ~lossy /\ lossy' = TRUE /\ UNCHANGED board
Noise == lossy /\ UNCHANGED lossy /\ board' \in Board

Next == Generation \/ Lose \/ Noise

Spec == Init /\ [][Next]_<<board, lossy>>
=============================================================================

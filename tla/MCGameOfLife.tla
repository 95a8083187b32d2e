---------------------------- MODULE MCGameOfLife ----------------------------
(* A board of 4 x 5 cells in three bytes, the last one half empty; patterns  *)
(* that reach the border; a tty that holds less than two frames.             *)
EXTENDS GameOfLife

MCGrids == {[i \in Cells |-> IF (i * k + s) % 7 < 3 THEN 1 ELSE 0] : k \in 1 .. 3, s \in 0 .. 3}
MCStale == {<< >>, <<Junk>>, <<READY>>}
=============================================================================

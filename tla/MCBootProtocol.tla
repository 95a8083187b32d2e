--------------------------- MODULE MCBootProtocol ---------------------------
(* Two programs, one a byte too long for the room there is; words of two     *)
(* bytes; a tty with nothing, half a word or a stray byte in it.             *)
EXTENDS BootProtocol

MCCodeLen == [p \in Prog |-> IF p = 1 THEN 2 ELSE 3]
MCOutputs == {<< >>, <<Char(2 * WL + 1)>>, <<ExitString[1]>>,
              <<ExitString[1], ExitString[1]>>, <<ExitString[1], ExitString[2]>>}
MCGarbage == {<< >>, <<Bad>>, <<GET_PROG_INFO[WL]>>, GET_PROG_INFO}
=============================================================================

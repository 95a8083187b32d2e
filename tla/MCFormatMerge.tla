---------------------------- MODULE MCFormatMerge ----------------------------
(* All orders of up to four of four levels, broadcast along any others.    *)
EXTENDS FormatMerge

MCFormats == UNION {
    {[pos |-> p, bc |-> c] : p \in {q \in [S -> 0 .. Cardinality(S) - 1] :
                                      \A x, y \in S : q[x] = q[y] => x = y},
                             c \in SUBSET (Level \ S)} : S \in SUBSET Level}
=============================================================================
